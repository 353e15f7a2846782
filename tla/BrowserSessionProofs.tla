------------------------ MODULE BrowserSessionProofs ------------------------
(***************************************************************************)
(* Proofs about BrowserSession: one connection at a time, a connection     *)
(* state that is the one of the client in use, and settings that survive a *)
(* reload, for any settings a user may enter, any number of clients and    *)
(* any number of faults.                                                   *)
(***************************************************************************)
EXTENDS BrowserSession, SequenceFacts, FiniteSetTheorems

-----------------------------------------------------------------------------
(* The inductive invariant.                                                *)

\* The dialog holds back a second call: at most one call awaits a disconnect,
\* and then no client is in use.  It is outdated once the page was left.
Turn ==
  /\ \A s, t \in tasks : s = t
  /\ dialog.saving <=> tasks # {}
  /\ \A t \in tasks : /\ current = 0
                      /\ page = "open" <=> t.generation = generation

\* What a client's phase says about its link.
WiredClient(x) ==
  /\ x.asked => x.link = "up"
  /\ x.phase \in {"draining", "ending"} => ~x.asked
  /\ x.phase = "closed" => ~x.asked /\ x.link = "ended"
  /\ x.phase = "open" /\ x.state = "connected" => x.link = "up"

\* The client in use is the only one that is not asked to disconnect.
Wired ==
  \A c \in DOMAIN clients :
    WiredClient(clients[c]) /\ (clients[c].phase = "open" <=> c = current)

\* A client that is still closing is awaited by the call that follows.
Awaited ==
  /\ page = "gone" => current = 0
  /\ page = "open" => \A c \in DOMAIN clients :
       clients[c].phase # "closed" => c = current \/ \E t \in tasks : t.waits = c

\* What is stored is what is active, or what the call under way will use.
Remembered ==
  page = "open" /\ faults["storage"] = 0 =>
    /\ tasks = {} => StoredSettings(storage) = active
    /\ \A t \in tasks : StoredSettings(storage) = t.settings

SessionInv ==
  /\ TypeOK /\ Turn /\ Wired /\ Awaited /\ Remembered /\ OneConnection
  /\ ShownIsReal

-----------------------------------------------------------------------------
(* Settings.                                                               *)

\* What the page keeps in its storages.
Storages == [url : CheckedUrls \union {None}, username : Names, password : Secrets]

\* Another spelling leaves a URL's other parts, whatever they are.
LEMMA SpellingType ==
  ASSUME NEW S, NEW F, NEW P,
         NEW u \in [scheme : S, host : S, fragment : F, spelling : P],
         NEW s \in P
  PROVE  [u EXCEPT !.spelling = s]
           \in [scheme : S, host : S, fragment : F, spelling : P]
OBVIOUS

\* A normalized URL stays valid, and as it is.
LEMMA NormalFacts ==
  ASSUME NEW u \in Url
  PROVE  /\ NormalUrl(u) \in Url
         /\ NormalUrl(NormalUrl(u)) = NormalUrl(u)
         /\ ValidUrl(u) => ValidUrl(NormalUrl(u))
<1>1. NormalUrl(u) \in Url
  BY SpellingType DEF NormalUrl, Url
<1>2. NormalUrl(NormalUrl(u)) = NormalUrl(u)
  BY DEF NormalUrl
<1>3. /\ NormalUrl(u).scheme = u.scheme /\ NormalUrl(u).host = u.host
      /\ NormalUrl(u).fragment = u.fragment
  BY DEF NormalUrl, Url
<1>4. ValidUrl(u) => ValidUrl(NormalUrl(u))
  BY <1>3 DEF ValidUrl
<1> QED BY <1>1, <1>2, <1>4

\* A checked URL is valid and normalized.
LEMMA CheckedFacts ==
  \A u \in CheckedUrls : ValidUrl(u) /\ NormalUrl(u) = u /\ u # None
BY NormalFacts, SessionAssumption DEF CheckedUrls

\* No credentials are credentials, too.
LEMMA NoCredentialsType == NoCredentials \in Credentials
BY DEF NoCredentials, Credentials, Names, Secrets, ValidCredentials

\* The page is started with settings that were checked.
LEMMA StoredSettingsType ==
  ASSUME NEW s \in Storages
  PROVE  StoredSettings(s) \in Settings
<1> DEFINE c == [username |-> s.username, password |-> s.password]
           url == IF s.url # None /\ ValidUrl(s.url)
                  THEN NormalUrl(s.url) ELSE DefaultUrl
           login == IF ValidCredentials(c) THEN c ELSE NoCredentials
<1>1. url \in CheckedUrls \union {DefaultUrl}
  BY CheckedFacts DEF Storages
<1>2. login \in Credentials
  <2>1. c \in [username : Names, password : Secrets]
    BY DEF Storages
  <2> HIDE DEF c
  <2> QED BY <2>1, NoCredentialsType DEF Credentials
<1>3. StoredSettings(s) = [url |-> url, credentials |-> login]
  BY DEF StoredSettings
<1> HIDE DEF url, login
<1> QED BY <1>1, <1>2, <1>3 DEF Settings

\* What was stored completely is what a reload reads.
LEMMA StoredIsRead ==
  ASSUME NEW settings \in Settings, settings.url \in CheckedUrls
  PROVE  /\ Stored(settings, Writes(settings)) \in Storages
         /\ StoredSettings(Stored(settings, Writes(settings))) = settings
<1> DEFINE c == settings.credentials
           s == Stored(settings, Writes(settings))
<1>1. /\ c \in Credentials /\ c \in [username : Names, password : Secrets]
      /\ settings = [url |-> settings.url, credentials |-> c]
      /\ c = [username |-> c.username, password |-> c.password]
      /\ ValidCredentials(c)
  BY DEF Settings, Credentials
<1>2. s = [url |-> settings.url, username |-> c.username,
           password |-> c.password]
  BY DEF Stored, Writes
<1> HIDE DEF s
<1>3. s \in Storages
  BY <1>1, <1>2 DEF Storages
<1>4. s.url # None /\ ValidUrl(s.url) /\ NormalUrl(s.url) = settings.url
  BY <1>2, CheckedFacts
<1>5. [username |-> s.username, password |-> s.password] = c
  BY <1>1, <1>2
<1>6. StoredSettings(s) = [url |-> settings.url, credentials |-> c]
  BY <1>1, <1>4, <1>5 DEF StoredSettings
<1> QED BY <1>1, <1>3, <1>6 DEF s

\* What a draft becomes, and what even an incomplete attempt to store it
\* leaves behind.
LEMMA DraftFacts ==
  ASSUME NEW draft \in Drafts, ValidUrl(draft.url),
         ValidCredentials(draft.credentials), storage \in Storages
  PROVE  LET settings == [draft EXCEPT !.url = NormalUrl(@)] IN
         /\ settings \in Settings /\ settings.url \in CheckedUrls
         /\ \A n : Stored(settings, n) \in Storages
<1> DEFINE settings == [draft EXCEPT !.url = NormalUrl(@)]
<1>1. /\ draft \in [url : Url, credentials : Login]
      /\ settings = [url |-> NormalUrl(draft.url),
                     credentials |-> draft.credentials]
  BY SessionAssumption
<1>2. NormalUrl(draft.url) \in CheckedUrls
  BY DEF CheckedUrls
<1>3. /\ draft.credentials.username \in Names
      /\ draft.credentials.password \in Secrets
      /\ draft.credentials = [username |-> draft.credentials.username,
                              password |-> draft.credentials.password]
  BY <1>1 DEF Names, Secrets, Login
<1>4. draft.credentials \in Credentials
  BY <1>3 DEF Credentials
<1>5. settings \in Settings /\ settings.url \in CheckedUrls
      /\ settings.credentials = draft.credentials
  BY <1>1, <1>2, <1>4 DEF Settings
<1> HIDE DEF settings
<1>6. \A n : Stored(settings, n) \in Storages
  BY <1>3, <1>5 DEF Stored, Storages
<1> QED BY <1>5, <1>6 DEF settings

-----------------------------------------------------------------------------
(* The steps of a client.                                                  *)

\* A fault is counted under its kind alone.
LEMMA FaultFacts ==
  ASSUME faults \in [Faults -> Nat], NEW kind \in Faults, Fault(kind)
  PROVE  /\ faults' \in [Faults -> Nat] /\ faults'[kind] # 0
         /\ \A k \in Faults \ {kind} : faults'[k] = faults[k]
BY DEF Fault

\* What another value of one field leaves, whatever the fields hold.
LEMMA FieldUpdate ==
  ASSUME NEW S, NEW T, NEW P, NEW L, NEW A, NEW R, NEW U,
         NEW x \in [settings : S, state : T, phase : P, link : L, asked : A,
                    refused : R, unacked : U],
         NEW s \in T, NEW p \in P, NEW l \in L, NEW a \in A, NEW r \in R,
         NEW u \in U
  PROVE  LET X == [settings : S, state : T, phase : P, link : L, asked : A,
                   refused : R, unacked : U]
         IN /\ [x EXCEPT !.state = s] \in X /\ [x EXCEPT !.phase = p] \in X
            /\ [x EXCEPT !.link = l] \in X /\ [x EXCEPT !.asked = a] \in X
            /\ [x EXCEPT !.refused = r] \in X /\ [x EXCEPT !.unacked = u] \in X
OBVIOUS

\* Where disconnect() may be.
Phases == {"open", "unsubscribing", "draining", "ending", "closed"}

\* The same for a client.
LEMMA ClientUpdate ==
  ASSUME NEW x \in Client
  PROVE  /\ \A s \in States : [x EXCEPT !.state = s] \in Client
         /\ \A p \in Phases :
              [x EXCEPT !.phase = p] \in Client
         /\ \A l \in {"new", "down", "up", "ended"} :
              [x EXCEPT !.link = l] \in Client
         /\ \A b \in BOOLEAN : [x EXCEPT !.asked = b] \in Client
         /\ \A b \in BOOLEAN : [x EXCEPT !.refused = b] \in Client
         /\ \A b \in BOOLEAN : [x EXCEPT !.unacked = b] \in Client
<1>1. \A a, r, u \in BOOLEAN, s \in States,
         p \in Phases,
         l \in {"new", "down", "up", "ended"} :
        /\ [x EXCEPT !.state = s] \in Client /\ [x EXCEPT !.phase = p] \in Client
        /\ [x EXCEPT !.link = l] \in Client /\ [x EXCEPT !.asked = a] \in Client
        /\ [x EXCEPT !.refused = r] \in Client
        /\ [x EXCEPT !.unacked = u] \in Client
  BY FieldUpdate DEF Client, Phases
<1>2. "offline" \in States /\ TRUE \in BOOLEAN /\ "open" \in Phases
  BY DEF States, Phases
<1> QED BY <1>1, <1>2

\* What endAsync() makes of a client when it is called.
LEMMA EndingFacts ==
  ASSUME NEW x \in Client
  PROVE  /\ Ending(x) \in Client
         /\ Ending(x).phase \in {"draining", "ending"}
         /\ Ending(x).settings = x.settings /\ Ending(x).state = x.state
         /\ Ending(x).link = x.link /\ Ending(x).asked = x.asked
<1> DEFINE p == IF x.unacked THEN "draining" ELSE "ending"
           y == [x EXCEPT !.phase = p]
<1>1. Ending(x) = y
  BY DEF Ending
<1>2. p \in Phases /\ p \in {"draining", "ending"}
  BY DEF Phases
<1>3. y \in Client
  BY <1>2, ClientUpdate
<1>4. /\ y.phase = p /\ y.settings = x.settings /\ y.state = x.state
      /\ y.link = x.link /\ y.asked = x.asked
  BY DEF Client
<1> HIDE DEF y, p
<1> QED BY <1>1, <1>2, <1>3, <1>4

\* What a step of a client may make of it.
Moved(x, y) ==
  /\ y \in Client /\ y.settings = x.settings /\ WiredClient(y)
  /\ y.phase = "open" <=> x.phase = "open"
  /\ x.phase = "closed" => y = x
  /\ IF y.state = x.state THEN shown' = shown ELSE shown' = y.state

\* A step of a client changes that client and what is shown of it.
LEMMA ClientMoves ==
  ASSUME SessionInv, NEW c \in DOMAIN clients, ClientStep(c)
  PROVE  /\ UNCHANGED <<page, current, generation, tasks, active, storage,
                        dialog>>
         /\ faults' \in [Faults -> Nat]
         /\ faults'["storage"] = faults["storage"] /\ error' \in BOOLEAN
         /\ \E y : /\ Moved(clients[c], y)
                   /\ clients' = [clients EXCEPT ![c] = y]
<1> DEFINE x == clients[c]
<1>1. /\ x \in Client /\ WiredClient(x) /\ clients \in Seq(Client)
      /\ error \in BOOLEAN /\ faults \in [Faults -> Nat] /\ shown \in States
  BY DEF SessionInv, TypeOK, Wired
<1>2. /\ "lost" \in Faults \ {"storage"} /\ "refused" \in Faults \ {"storage"}
      /\ "invalid" \in Faults \ {"storage"} /\ "storage" \in Faults
  BY DEF Faults
<1>3. /\ x.state \in States /\ x.phase \in Phases
      /\ x.asked \in BOOLEAN /\ x.link \in {"new", "down", "up", "ended"}
  BY <1>1 DEF Client, Phases
<1>4. CASE LinkUp(c)
  <2> DEFINE y == [[[x EXCEPT !.link = "up"] EXCEPT !.asked = TRUE]
                     EXCEPT !.refused = FALSE]
  <2>1. clients' = [clients EXCEPT ![c] = y]
    BY <1>1, <1>4 DEF LinkUp
  <2>2. y \in Client
    BY <1>1, ClientUpdate
  <2>3. /\ y.settings = x.settings /\ y.phase = x.phase /\ y.link = "up"
        /\ y.state = x.state /\ x.phase \in {"open", "unsubscribing"}
    BY <1>1, <1>4 DEF LinkUp, Client
  <2>4. shown' = shown
    BY <1>4 DEF LinkUp, reportVars
  <2>5. Moved(x, y)
    BY <2>2, <2>3, <2>4 DEF Moved, WiredClient
  <2> QED BY <1>1, <1>4, <2>1, <2>5
          DEF LinkUp, sessionVars, reportVars, pageVars
<1>5. CASE Subscribed(c)
  <2> DEFINE z == [x EXCEPT !.asked = FALSE]
             y == [z EXCEPT !.state = "connected"]
  <2>1. z \in Client /\ y \in Client
    BY <1>1, ClientUpdate DEF States
  <2>2. SetState(c, z, "connected", FALSE) /\ x.asked
    BY <1>5 DEF Subscribed
  <2>3. /\ y.settings = x.settings /\ y.phase = x.phase /\ y.link = x.link
        /\ y.state = "connected" /\ y.asked = FALSE /\ z.state = x.state
    BY <1>1 DEF Client
  <2>4. /\ clients' = [clients EXCEPT ![c] = y] /\ error' \in BOOLEAN
        /\ IF y.state = x.state THEN shown' = shown ELSE shown' = y.state
    BY <1>1, <2>2, <2>3 DEF SetState
  <2>5. Moved(x, y)
    BY <1>1, <2>1, <2>2, <2>3, <2>4 DEF Moved, WiredClient
  <2> QED BY <1>1, <1>5, <2>4, <2>5 DEF Subscribed, sessionVars, pageVars
<1>6. CASE SubscribeFails(c)
  <2> DEFINE z == [[x EXCEPT !.asked = FALSE] EXCEPT !.refused = TRUE]
             y == [z EXCEPT !.state = x.state]
  <2>1. z \in Client /\ y \in Client
    BY <1>1, <1>3, ClientUpdate
  <2>2. SetState(c, z, x.state, TRUE) /\ x.asked
    BY <1>6 DEF SubscribeFails
  <2>3. /\ y.settings = x.settings /\ y.phase = x.phase /\ y.link = x.link
        /\ y.state = x.state /\ y.asked = FALSE /\ z.state = x.state
    BY <1>1 DEF Client
  <2>4. /\ clients' = [clients EXCEPT ![c] = y] /\ error' \in BOOLEAN
        /\ IF y.state = x.state THEN shown' = shown ELSE shown' = y.state
    BY <1>1, <2>2, <2>3 DEF SetState
  <2>5. Moved(x, y)
    BY <1>1, <2>1, <2>2, <2>3, <2>4 DEF Moved, WiredClient
  <2> QED BY <1>1, <1>2, <1>6, <2>4, <2>5, FaultFacts
          DEF SubscribeFails, sessionVars, pageVars
<1>7. CASE LinkLost(c)
  <2> DEFINE z == [[x EXCEPT !.link = "down"] EXCEPT !.asked = FALSE]
  <2>1. PICK state \in {IF x.phase = "open" THEN "offline" ELSE x.state,
                        "reconnecting"},
             reported \in BOOLEAN : SetState(c, z, state, reported \/ x.asked)
    BY <1>7 DEF LinkLost
  <2> DEFINE y == [z EXCEPT !.state = state]
  <2>2. state \in States /\ (x.phase = "open" => state # "connected")
    BY <1>3 DEF States
  <2>3. z \in Client /\ y \in Client
    BY <1>1, <2>2, ClientUpdate
  <2>4. /\ y.settings = x.settings /\ y.phase = x.phase /\ y.link = "down"
        /\ y.state = state /\ y.asked = FALSE /\ z.state = x.state
    BY <1>1 DEF Client
  <2>5. (reported \/ x.asked) \in BOOLEAN
    OBVIOUS
  <2>6. /\ clients' = [clients EXCEPT ![c] = y] /\ error' \in BOOLEAN
        /\ IF y.state = x.state THEN shown' = shown ELSE shown' = y.state
    BY <1>1, <2>1, <2>4, <2>5 DEF SetState
  <2>7. x.phase \in {"open", "unsubscribing", "draining"}
    BY <1>7 DEF LinkLost
  <2>8. Moved(x, y)
    BY <1>1, <2>2, <2>3, <2>4, <2>6, <2>7 DEF Moved, WiredClient
  <2> QED BY <1>1, <1>2, <1>7, <2>6, <2>8, FaultFacts
          DEF LinkLost, sessionVars, pageVars
<1>8. CASE Retry(c)
  <2> DEFINE y == [x EXCEPT !.state = "reconnecting"]
  <2>1. y \in Client
    BY <1>1, ClientUpdate DEF States
  <2>2. SetState(c, x, "reconnecting", FALSE)
        /\ x.phase \in {"open", "unsubscribing"}
    BY <1>8 DEF Retry
  <2>3. /\ y.settings = x.settings /\ y.phase = x.phase /\ y.link = x.link
        /\ y.state = "reconnecting" /\ y.asked = x.asked
    BY <1>1 DEF Client
  <2>4. /\ clients' = [clients EXCEPT ![c] = y] /\ error' \in BOOLEAN
        /\ IF y.state = x.state THEN shown' = shown ELSE shown' = y.state
    BY <1>1, <2>2, <2>3 DEF SetState
  <2>5. Moved(x, y)
    BY <1>1, <2>1, <2>2, <2>3, <2>4 DEF Moved, WiredClient
  <2> QED BY <1>1, <1>8, <2>4, <2>5 DEF Retry, sessionVars, pageVars
<1>9. CASE InvalidMessage(c) \/ Pressure(c)
  <2>1. clients' = [clients EXCEPT ![c] = x] /\ shown' = shown
    BY <1>1, <1>9 DEF InvalidMessage, Pressure, reportVars
  <2>2. Moved(x, x)
    BY <1>1, <2>1 DEF Moved
  <2>3. error' \in BOOLEAN
    BY <1>1, <1>9 DEF InvalidMessage, Pressure, reportVars
  <2>4. faults' \in [Faults -> Nat] /\ faults'["storage"] = faults["storage"]
    BY <1>1, <1>2, <1>9, FaultFacts DEF InvalidMessage, Pressure
  <2> QED BY <1>9, <2>1, <2>2, <2>3, <2>4
          DEF InvalidMessage, Pressure, sessionVars, pageVars
<1>10. CASE Unsubscribed(c)
  <2> DEFINE y == Ending(x)
  <2>1. /\ y \in Client /\ y.phase \in {"draining", "ending"}
        /\ y.settings = x.settings /\ y.state = x.state /\ y.link = x.link
        /\ y.asked = x.asked
    BY <1>1, EndingFacts
  <2>2. /\ clients' = [clients EXCEPT ![c] = y] /\ shown' = shown
        /\ x.phase = "unsubscribing" /\ ~x.asked /\ error' = error
    BY <1>1, <1>10 DEF Unsubscribed, reportVars
  <2> HIDE DEF y
  <2>3. Moved(x, y)
    BY <1>1, <2>1, <2>2 DEF Moved, WiredClient
  <2> QED BY <1>1, <1>10, <2>2, <2>3
          DEF Unsubscribed, sessionVars, pageVars
<1>11. CASE Ended(c)
  <2> DEFINE z == [[x EXCEPT !.phase = "closed"] EXCEPT !.link = "ended"]
             y == [z EXCEPT !.state = "offline"]
  <2>1. z \in Client /\ y \in Client
    BY <1>1, ClientUpdate DEF States, Phases
  <2>2. SetState(c, z, "offline", FALSE) /\ x.phase = "ending"
    BY <1>11 DEF Ended
  <2>3. /\ y.settings = x.settings /\ y.phase = "closed" /\ y.link = "ended"
        /\ y.state = "offline" /\ y.asked = x.asked /\ z.state = x.state
    BY <1>1 DEF Client
  <2>4. /\ clients' = [clients EXCEPT ![c] = y] /\ error' \in BOOLEAN
        /\ IF y.state = x.state THEN shown' = shown ELSE shown' = y.state
    BY <1>1, <1>3, <2>2, <2>3 DEF SetState
  <2>5. Moved(x, y)
    BY <1>1, <2>1, <2>2, <2>3, <2>4 DEF Moved, WiredClient
  <2> QED BY <1>1, <1>11, <2>4, <2>5 DEF Ended, sessionVars, pageVars
<1>12. CASE Publish(c)
  <2> DEFINE y == [x EXCEPT !.unacked = TRUE]
  <2>1. y \in Client
    BY <1>1, ClientUpdate
  <2>2. /\ clients' = [clients EXCEPT ![c] = y] /\ shown' = shown
        /\ error' = error
    BY <1>1, <1>12 DEF Publish, reportVars
  <2>3. /\ y.settings = x.settings /\ y.phase = x.phase /\ y.link = x.link
        /\ y.state = x.state /\ y.asked = x.asked /\ x.phase = "open"
    BY <1>1, <1>12 DEF Client, Publish, Publishable
  <2>4. Moved(x, y)
    BY <1>1, <2>1, <2>2, <2>3 DEF Moved, WiredClient
  <2> QED BY <1>1, <1>12, <2>2, <2>4 DEF Publish, sessionVars, pageVars
<1>13. CASE Acknowledged(c)
  <2> DEFINE z == [x EXCEPT !.unacked = FALSE]
             y == IF z.phase = "draining" THEN Ending(z) ELSE z
  <2>1. /\ z \in Client /\ z.settings = x.settings /\ z.phase = x.phase
        /\ z.link = x.link /\ z.state = x.state /\ z.asked = x.asked
    <3>1. z \in Client
      BY <1>1, ClientUpdate
    <3> QED BY <1>1, <3>1 DEF Client
  <2>2. /\ clients' = [clients EXCEPT ![c] = y] /\ shown' = shown
        /\ error' = error /\ x.link = "up"
    BY <1>1, <1>13 DEF Acknowledged, reportVars
  <2> HIDE DEF z
  <2>3. /\ y \in Client /\ y.settings = x.settings /\ y.link = x.link
        /\ y.state = x.state /\ y.asked = x.asked
        /\ IF x.phase = "draining" THEN y.phase \in {"draining", "ending"}
                                   ELSE y.phase = x.phase
    BY <2>1, EndingFacts
  <2> HIDE DEF y
  <2>4. x.phase # "closed"
    BY <1>1, <2>2 DEF WiredClient
  <2>5. Moved(x, y)
    BY <1>1, <2>2, <2>3, <2>4 DEF Moved, WiredClient
  <2> QED BY <1>1, <1>13, <2>2, <2>5 DEF Acknowledged, sessionVars, pageVars
<1> QED BY <1>4, <1>5, <1>6, <1>7, <1>8, <1>9, <1>10, <1>11, <1>12, <1>13
        DEF ClientStep

\* While a client is in use the others are closed.
LEMMA OthersClosed ==
  ASSUME SessionInv, current # 0, NEW c \in DOMAIN clients, c # current
  PROVE  clients[c].phase = "closed"
BY DEF SessionInv, TypeOK, Turn, Awaited

\* A step of a client keeps the invariant.
LEMMA ClientInv ==
  ASSUME SessionInv, NEW c \in DOMAIN clients, ClientStep(c)
  PROVE  SessionInv'
<1>1. /\ UNCHANGED <<page, current, generation, tasks, active, storage, dialog>>
      /\ faults' \in [Faults -> Nat]
      /\ faults'["storage"] = faults["storage"] /\ error' \in BOOLEAN
  BY ClientMoves
<1>2. PICK y : /\ Moved(clients[c], y)
               /\ clients' = [clients EXCEPT ![c] = y]
  BY ClientMoves
<1>3. /\ TypeOK /\ clients \in Seq(Client) /\ DOMAIN clients = 1..Len(clients)
      /\ c \in 1..Len(clients) /\ shown \in States /\ y \in Client
      /\ y.state \in States /\ Len(clients) \in Nat
  BY <1>2 DEF SessionInv, TypeOK, Moved, Client
<1>4. /\ clients' \in Seq(Client) /\ Len(clients') = Len(clients)
      /\ DOMAIN clients' = DOMAIN clients
      /\ clients'[c] = y
      /\ \A d \in DOMAIN clients : d # c => clients'[d] = clients[d]
  BY <1>2, <1>3, ExceptSeq
<1>5. TypeOK'
  <2>1. shown' \in States
    BY <1>2, <1>3 DEF Moved
  <2> QED BY <1>1, <1>3, <1>4, <2>1 DEF TypeOK
<1>6. Turn'
  BY <1>1 DEF SessionInv, Turn
<1>7. /\ WiredClient(y) /\ (y.phase = "open" <=> clients[c].phase = "open")
      /\ clients[c].phase = "closed" => y = clients[c]
      /\ y.settings = clients[c].settings
  BY <1>2 DEF Moved
<1>8. \A d \in DOMAIN clients :
        clients'[d].phase # "closed" => clients[d].phase # "closed"
  BY <1>4, <1>7
<1>9. Wired'
  BY <1>1, <1>4, <1>7 DEF SessionInv, Wired, WiredClient
<1>10. Awaited'
  BY <1>1, <1>4, <1>8 DEF SessionInv, Awaited
<1>11. Remembered'
  BY <1>1 DEF SessionInv, Remembered
<1>12. OneConnection'
  BY <1>1, <1>4, <1>7, <1>8 DEF SessionInv, OneConnection
<1>13. ShownIsReal'
  <2> SUFFICES ASSUME current # 0
               PROVE  /\ shown' = clients'[current].state
                      /\ active' = clients'[current].settings
                      /\ shown' = "connected" => Publishable(current)'
    BY <1>1 DEF ShownIsReal
  <2>1. /\ shown = clients[current].state /\ active = clients[current].settings
        /\ current \in DOMAIN clients
    BY <1>3 DEF SessionInv, ShownIsReal, TypeOK
  <2>2. shown' = clients'[current].state /\ active' = clients'[current].settings
    <3>1. CASE c = current
      BY <1>1, <1>2, <1>4, <1>7, <2>1, <3>1 DEF Moved
    <3>2. CASE c # current
      <4>1. clients[c].phase = "closed"
        BY <3>2, OthersClosed
      <4>2. y = clients[c] /\ shown' = shown
        BY <1>2, <4>1 DEF Moved
      <4> QED BY <1>1, <1>4, <2>1, <3>2, <4>2
    <3> QED BY <3>1, <3>2
  <2>3. clients'[current].phase = "open" /\ WiredClient(clients'[current])
    BY <1>1, <1>4, <1>9, <2>1 DEF Wired, WiredClient
  <2> QED BY <1>1, <2>2, <2>3 DEF Publishable, WiredClient
<1> QED BY <1>5, <1>6, <1>9, <1>10, <1>11, <1>12, <1>13 DEF SessionInv

-----------------------------------------------------------------------------
(* The steps of the user and of the calls that resume.                     *)

\* The client in use is asked to disconnect.
CloseCurrent ==
  clients' = [c \in DOMAIN clients |->
                IF c = current THEN Closing(clients[c]) ELSE clients[c]]

\* What disconnect() makes of a client.
LEMMA ClosingFacts ==
  ASSUME NEW x \in Client, WiredClient(x)
  PROVE  /\ Closing(x) \in Client /\ WiredClient(Closing(x))
         /\ Closing(x).phase \in {"unsubscribing", "draining", "ending"}
<1>1. CASE x.link = "up"
  <2> DEFINE y == [x EXCEPT !.phase = "unsubscribing"]
  <2>1. Closing(x) = y
    BY <1>1 DEF Closing
  <2>2. y \in Client
    BY ClientUpdate DEF Phases
  <2>3. /\ y.phase = "unsubscribing" /\ y.link = x.link /\ y.asked = x.asked
        /\ y.state = x.state
    BY DEF Client
  <2> HIDE DEF y
  <2> QED BY <2>1, <2>2, <2>3 DEF WiredClient
<1>2. CASE x.link # "up"
  BY <1>2, EndingFacts DEF Closing, WiredClient
<1> QED BY <1>1, <1>2

\* No client is in use once the current one is asked to disconnect.
LEMMA CloseCurrentFacts ==
  ASSUME SessionInv, CloseCurrent
  PROVE  /\ clients' \in Seq(Client) /\ Len(clients') = Len(clients)
         /\ DOMAIN clients' = DOMAIN clients
         /\ \A c \in DOMAIN clients :
              /\ WiredClient(clients'[c]) /\ clients'[c].phase # "open"
              /\ IF c = current THEN clients[c].phase = "open"
                                ELSE clients'[c] = clients[c]
<1>1. /\ clients \in Seq(Client) /\ DOMAIN clients = 1..Len(clients)
      /\ Len(clients) \in Nat
      /\ \A c \in DOMAIN clients :
           /\ clients[c] \in Client /\ WiredClient(clients[c])
           /\ clients[c].phase = "open" <=> c = current
  BY DEF SessionInv, TypeOK, Wired
<1>2. \A c \in DOMAIN clients :
        clients'[c] = IF c = current THEN Closing(clients[c]) ELSE clients[c]
  BY DEF CloseCurrent
<1>3. clients' \in [1..Len(clients) -> Client]
  <2>1. \A c \in DOMAIN clients :
          (IF c = current THEN Closing(clients[c]) ELSE clients[c]) \in Client
    BY <1>1, ClosingFacts
  <2> QED BY <1>1, <2>1 DEF CloseCurrent
<1>4. /\ clients' \in Seq(Client) /\ Len(clients') = Len(clients)
      /\ DOMAIN clients' = DOMAIN clients
  BY <1>1, <1>3, FunctionIsSequence
<1>5. ASSUME NEW c \in DOMAIN clients
      PROVE  /\ WiredClient(clients'[c]) /\ clients'[c].phase # "open"
             /\ IF c = current THEN clients[c].phase = "open"
                               ELSE clients'[c] = clients[c]
  BY <1>1, <1>2, ClosingFacts
<1> QED BY <1>4, <1>5

\* A call of #reconnectToBroker keeps the invariant, when its settings are
\* checked and are those that are stored.
LEMMA ReconnectInv ==
  ASSUME SessionInv, page = "open", ~dialog.saving,
         NEW settings \in Settings, Reconnect(settings),
         storage' \in Storages, StoredSettings(storage') = settings,
         dialog' = [dialog EXCEPT !.saving = TRUE, !.formError = FALSE],
         faults' = faults
  PROVE  SessionInv'
<1> DEFINE task == [generation |-> generation + 1, settings |-> settings,
                    waits |-> current]
<1>1. /\ TypeOK /\ tasks = {} /\ generation \in Nat
      /\ current \in 0..Len(clients) /\ Len(clients) \in Nat
      /\ clients \in Seq(Client) /\ DOMAIN clients = 1..Len(clients)
  BY DEF SessionInv, Turn, TypeOK
<1>2. /\ tasks' = {task} /\ generation' = generation + 1 /\ current' = 0
      /\ shown' = "connecting" /\ error' = FALSE /\ page' = page
      /\ active' = active /\ CloseCurrent
      /\ Len(clients) + Cardinality(tasks) < MaxClients
  BY <1>1 DEF Reconnect, CloseCurrent
<1>3. /\ clients' \in Seq(Client) /\ Len(clients') = Len(clients)
      /\ DOMAIN clients' = DOMAIN clients
      /\ \A c \in DOMAIN clients :
           /\ WiredClient(clients'[c]) /\ clients'[c].phase # "open"
           /\ IF c = current THEN clients[c].phase = "open"
                             ELSE clients'[c] = clients[c]
  BY <1>2, CloseCurrentFacts
<1>4. /\ dialog' \in [saving : BOOLEAN, formError : BOOLEAN]
      /\ dialog'.saving
  BY <1>1 DEF TypeOK
<1>5. TypeOK'
  <2>1. task \in [generation : 1..generation + 1, settings : Settings,
                  waits : 0..Len(clients)]
    BY <1>1
  <2>2. Len(clients) + 1 <= MaxClients
    BY <1>1, <1>2, FS_EmptySet, SessionAssumption
  <2>3. Cardinality({task}) = 1
    BY FS_Singleton
  <2> HIDE DEF task
  <2>4. Len(clients') + Cardinality(tasks') <= MaxClients
    BY <1>2, <1>3, <2>2, <2>3
  <2>5. shown' \in States /\ current' \in 0..Len(clients')
    BY <1>1, <1>2, <1>3 DEF States
  <2>6. error' \in BOOLEAN
    BY <1>2, Zenon
  <2>7. /\ page' \in {"open", "gone"} /\ active' \in Settings
        /\ generation' \in Nat /\ faults' \in [Faults -> Nat]
    BY <1>1, <1>2 DEF TypeOK
  <2>8. tasks' \subseteq [generation : 1..generation', settings : Settings,
                         waits : 0..Len(clients')]
    BY <1>2, <1>3, <2>1
  <2> QED BY <1>3, <1>4, <2>4, <2>5, <2>6, <2>7, <2>8 DEF TypeOK, Storages
<1>6. Turn'
  BY <1>2, <1>4 DEF Turn
<1>7. Wired'
  BY <1>1, <1>2, <1>3 DEF Wired, WiredClient
<1>8. ASSUME NEW c \in DOMAIN clients, clients'[c].phase # "closed"
      PROVE  c = current
  <2>1. clients[c].phase # "closed" => c = current
    BY <1>1 DEF SessionInv, Awaited
  <2> QED BY <1>3, <1>8, <2>1
<1>9. Awaited'
  BY <1>2, <1>3, <1>8 DEF Awaited
<1>10. OneConnection'
  BY <1>2, <1>3, <1>8 DEF OneConnection
<1>11. Remembered'
  <2>1. tasks' # {} /\ \A t \in tasks' : t.settings = settings
    BY <1>2
  <2> QED BY <2>1 DEF Remembered
<1>12. ShownIsReal'
  BY <1>2 DEF ShownIsReal
<1> QED BY <1>5, <1>6, <1>7, <1>9, <1>10, <1>11, <1>12 DEF SessionInv

\* So does save() when the storage takes what is written.
LEMMA SaveInv ==
  ASSUME SessionInv, NEW draft \in Drafts, Save(draft)
  PROVE  SessionInv'
<1> DEFINE settings == [draft EXCEPT !.url = NormalUrl(@)]
<1>1. storage \in Storages
  BY DEF SessionInv, TypeOK, Storages
<1>2. settings \in Settings /\ settings.url \in CheckedUrls
  BY <1>1, DraftFacts DEF Save
<1> HIDE DEF settings
<1>3. /\ Stored(settings, Writes(settings)) \in Storages
      /\ StoredSettings(Stored(settings, Writes(settings))) = settings
  BY <1>2, StoredIsRead
<1>4. /\ page = "open" /\ ~dialog.saving /\ Reconnect(settings)
      /\ storage' = Stored(settings, Writes(settings))
      /\ dialog' = [dialog EXCEPT !.saving = TRUE, !.formError = FALSE]
      /\ faults' = faults
  BY DEF Save, settings
<1>5. storage' \in Storages /\ StoredSettings(storage') = settings
  BY <1>3, <1>4, Zenon
<1> QED BY <1>2, <1>4, <1>5, ReconnectInv

\* What a new tab finds stored, when nothing is.
LEMMA NothingStoredFacts ==
  /\ NothingStored \in Storages
  /\ StoredSettings(NothingStored) = [url |-> DefaultUrl,
                                      credentials |-> NoCredentials]
  /\ StoredSettings(NothingStored) \in Settings
<1>1. NothingStored \in Storages
  BY DEF NothingStored, Storages, Names, Secrets
<1>2. StoredSettings(NothingStored) = [url |-> DefaultUrl,
                                       credentials |-> NoCredentials]
  BY DEF StoredSettings, NothingStored, NoCredentials
<1> QED BY <1>1, <1>2, StoredSettingsType

\* So does reset().
LEMMA ResetInv ==
  ASSUME SessionInv, Reset
  PROVE  SessionInv'
<1> DEFINE settings == [url |-> DefaultUrl, credentials |-> NoCredentials]
<1>1. /\ page = "open" /\ ~dialog.saving /\ Reconnect(settings)
      /\ storage' = NothingStored
      /\ dialog' = [dialog EXCEPT !.saving = TRUE, !.formError = FALSE]
      /\ faults' = faults
  BY DEF Reset
<1> HIDE DEF settings
<1>2. /\ storage' \in Storages /\ StoredSettings(storage') = settings
      /\ settings \in Settings
  BY <1>1, NothingStoredFacts DEF settings
<1> QED BY <1>1, <1>2, ReconnectInv

\* A save() that fails leaves everything but the storage and the dialog; what
\* is remembered is no longer promised.
LEMMA SaveFailsInv ==
  ASSUME SessionInv, NEW draft \in Drafts, SaveFails(draft)
  PROVE  SessionInv'
<1> DEFINE settings == [draft EXCEPT !.url = NormalUrl(@)]
<1>1. storage \in Storages /\ TypeOK
  BY DEF SessionInv, TypeOK, Storages
<1>2. \A n : Stored(settings, n) \in Storages
  BY <1>1, DraftFacts DEF SaveFails
<1>3. \E n \in 0..(Writes(settings) - 1) : storage' = Stored(settings, n)
  BY DEF SaveFails
<1> HIDE DEF settings
<1>4. storage' \in Storages
  BY <1>2, <1>3
<1>5. faults' \in [Faults -> Nat] /\ faults'["storage"] # 0
  BY <1>1, FaultFacts DEF SaveFails, TypeOK, Faults
<1>6. dialog' \in [saving : BOOLEAN, formError : BOOLEAN]
      /\ dialog'.saving = dialog.saving
  BY <1>1 DEF SaveFails, TypeOK
<1>7. UNCHANGED <<clients, current, generation, tasks, active, shown, error, page>>
  BY DEF SaveFails, sessionVars, reportVars
<1>8. TypeOK'
  BY <1>1, <1>4, <1>5, <1>6, <1>7 DEF TypeOK, Storages
<1>9. Turn' /\ Wired' /\ Awaited' /\ OneConnection'
  BY <1>6, <1>7 DEF SessionInv, Turn, Wired, Awaited, OneConnection
<1>10. Remembered'
  BY <1>5 DEF Remembered
<1>11. ShownIsReal'
  BY <1>7 DEF SessionInv, ShownIsReal, Publishable
<1> QED BY <1>8, <1>9, <1>10, <1>11 DEF SessionInv

\* What the invariant says is not about the form's error.
LEMMA FormInv ==
  ASSUME SessionInv, UNCHANGED <<clients, current, generation, tasks, active,
                                 shown, error, page, storage, faults>>,
         NEW b \in BOOLEAN, dialog' = [dialog EXCEPT !.formError = b]
  PROVE  SessionInv'
<1>1. TypeOK
  BY DEF SessionInv
<1>2. dialog' \in [saving : BOOLEAN, formError : BOOLEAN]
      /\ dialog'.saving = dialog.saving
  BY <1>1 DEF TypeOK
<1>3. TypeOK'
  BY <1>1, <1>2 DEF TypeOK
<1>4. Turn' /\ Wired' /\ Awaited' /\ OneConnection' /\ Remembered'
  BY <1>2 DEF SessionInv, Turn, Wired, Awaited, OneConnection, Remembered
<1>5. ShownIsReal'
  BY DEF SessionInv, ShownIsReal, Publishable
<1> QED BY <1>3, <1>4, <1>5 DEF SessionInv

\* destroy() leaves a call that awaits a disconnect outdated.
LEMMA DestroyInv ==
  ASSUME SessionInv, Destroy
  PROVE  SessionInv'
<1>1. /\ TypeOK /\ generation \in Nat /\ Len(clients) \in Nat
      /\ tasks \subseteq [generation : 1..generation, settings : Settings,
                          waits : 0..Len(clients)]
      /\ DOMAIN clients = 1..Len(clients) /\ current \in 0..Len(clients)
  BY DEF SessionInv, TypeOK
<1>2. /\ page' = "gone" /\ generation' = generation + 1 /\ current' = 0
      /\ CloseCurrent /\ page = "open"
      /\ UNCHANGED <<tasks, active, shown, error, storage, dialog, faults>>
  BY DEF Destroy, CloseCurrent, reportVars
<1>3. /\ clients' \in Seq(Client) /\ Len(clients') = Len(clients)
      /\ DOMAIN clients' = DOMAIN clients
      /\ \A c \in DOMAIN clients :
           /\ WiredClient(clients'[c]) /\ clients'[c].phase # "open"
           /\ IF c = current THEN clients[c].phase = "open"
                             ELSE clients'[c] = clients[c]
  BY <1>2, CloseCurrentFacts
<1>4. \A t \in tasks : t.generation \in 1..generation
  BY <1>1
<1>5. TypeOK'
  <2>1. tasks' \subseteq [generation : 1..generation', settings : Settings,
                         waits : 0..Len(clients')]
    BY <1>1, <1>2, <1>3
  <2> QED BY <1>1, <1>2, <1>3, <2>1 DEF TypeOK
<1>6. Turn'
  BY <1>1, <1>2, <1>4 DEF SessionInv, Turn
<1>7. Wired'
  BY <1>1, <1>2, <1>3 DEF Wired, WiredClient
<1>8. Awaited' /\ Remembered' /\ ShownIsReal'
  BY <1>2 DEF Awaited, Remembered, ShownIsReal
<1>9. OneConnection'
  <2>1. \A c \in DOMAIN clients :
          clients'[c].phase # "closed" => clients[c].phase # "closed"
    BY <1>3
  <2> QED BY <1>2, <1>3, <2>1 DEF SessionInv, OneConnection
<1> QED BY <1>5, <1>6, <1>7, <1>8, <1>9 DEF SessionInv

\* What a client is when its connect() was called.
LEMMA NewClientFacts ==
  ASSUME NEW settings \in Settings
  PROVE  /\ NewClient(settings) \in Client /\ WiredClient(NewClient(settings))
         /\ NewClient(settings).settings = settings
         /\ NewClient(settings).state = "connecting"
         /\ NewClient(settings).phase = "open"
<1>1. NewClient(settings) \in Client
  BY DEF NewClient, Client, States
<1> QED BY <1>1 DEF NewClient, WiredClient

\* A client that joins closed ones is in use, alone, and its state is shown.
LEMMA NewClientJoins ==
  ASSUME NEW settings \in Settings, NEW before \in Seq(Client),
         \A c \in DOMAIN before : WiredClient(before[c])
                                  /\ before[c].phase = "closed",
         clients' = Append(before, NewClient(settings)),
         current' = Len(before) + 1, page' = "open", tasks' = {},
         active' = settings, shown' = "connecting", ~dialog'.saving
  PROVE  /\ clients' \in Seq(Client) /\ Len(clients') = Len(before) + 1
         /\ Turn' /\ Wired' /\ Awaited' /\ OneConnection' /\ ShownIsReal'
<1> DEFINE x == NewClient(settings)
<1>1. /\ x \in Client /\ WiredClient(x) /\ x.settings = settings
      /\ x.state = "connecting" /\ x.phase = "open"
  BY NewClientFacts
<1> HIDE DEF x
<1>2. clients' = Append(before, x)
  BY DEF x
<1>3. /\ clients' \in Seq(Client) /\ Len(clients') = Len(before) + 1
      /\ DOMAIN clients' = 1..Len(before) + 1 /\ clients'[Len(before) + 1] = x
      /\ \A c \in 1..Len(before) : clients'[c] = before[c]
      /\ DOMAIN before = 1..Len(before) /\ Len(before) \in Nat
  BY <1>1, <1>2, AppendFacts
<1>4. \A c \in DOMAIN clients' :
        IF c = current' THEN clients'[c] = x
        ELSE WiredClient(clients'[c]) /\ clients'[c].phase = "closed"
  BY <1>3
<1>5. Turn'
  BY DEF Turn
<1>6. Wired'
  BY <1>1, <1>4 DEF Wired, WiredClient
<1>7. Awaited' /\ OneConnection'
  BY <1>4 DEF Awaited, OneConnection
<1>8. ShownIsReal'
  BY <1>1, <1>3, <1>4 DEF ShownIsReal
<1> QED BY <1>3, <1>5, <1>6, <1>7, <1>8

\* The call goes on, with a client of its own or, when the page was left,
\* without one.
LEMMA ResumeInv ==
  ASSUME SessionInv, NEW task \in tasks, Resume(task)
  PROVE  SessionInv'
<1>1. /\ TypeOK /\ tasks = {task} /\ current = 0
      /\ page = "open" <=> task.generation = generation
  BY DEF SessionInv, Turn
<1>2. /\ tasks' = {} /\ dialog' = [dialog EXCEPT !.saving = FALSE]
      /\ UNCHANGED <<generation, error, page, storage, faults>>
  BY <1>1 DEF Resume
<1>3. /\ dialog' \in [saving : BOOLEAN, formError : BOOLEAN]
      /\ ~dialog'.saving
  BY <1>1, <1>2 DEF TypeOK
<1>4. /\ clients \in Seq(Client) /\ Len(clients) \in Nat
      /\ DOMAIN clients = 1..Len(clients) /\ task.settings \in Settings
  BY <1>1 DEF TypeOK
<1>5. Cardinality(tasks) = 1 /\ Cardinality(tasks') = 0
  BY <1>1, <1>2, FS_Singleton, FS_EmptySet
<1>6. Len(clients) + 1 <= MaxClients /\ MaxClients \in Nat
  BY <1>1, <1>5, SessionAssumption DEF TypeOK
<1>7. CASE task.generation = generation
  <2>1. /\ page' = "open" /\ active' = task.settings /\ page = "open"
        /\ clients' = Append(clients, NewClient(task.settings))
        /\ current' = Len(clients) + 1 /\ shown' = "connecting"
    BY <1>1, <1>2, <1>7 DEF Resume
  <2>2. ASSUME NEW c \in DOMAIN clients
        PROVE  WiredClient(clients[c]) /\ clients[c].phase = "closed"
    <3>1. WiredClient(clients[c])
      BY DEF SessionInv, Wired
    <3>2. c # current /\ c # 0
      BY <1>1, <1>4
    <3>3. task.waits # 0 => clients[task.waits].phase = "closed"
      BY DEF Resume, Ready
    <3>4. clients[c].phase = "closed"
      BY <1>1, <2>1, <3>2, <3>3 DEF SessionInv, Awaited
    <3> QED BY <3>1, <3>4
  <2>3. /\ clients' \in Seq(Client) /\ Len(clients') = Len(clients) + 1
        /\ Turn' /\ Wired' /\ Awaited' /\ OneConnection' /\ ShownIsReal'
    BY <1>2, <1>3, <1>4, <2>1, <2>2, NewClientJoins
  <2>4. TypeOK'
    <3>1. /\ shown' \in States /\ current' \in 0..Len(clients')
          /\ tasks' \subseteq [generation : 1..generation', settings : Settings,
                               waits : 0..Len(clients')]
      BY <1>2, <1>4, <2>1, <2>3 DEF States
    <3>2. Len(clients') + Cardinality(tasks') <= MaxClients
      BY <1>4, <1>5, <1>6, <2>3
    <3> QED BY <1>1, <1>2, <1>3, <1>4, <2>1, <2>3, <3>1, <3>2 DEF TypeOK
  <2>5. Remembered'
    BY <1>1, <1>2, <2>1 DEF SessionInv, Remembered
  <2> QED BY <2>3, <2>4, <2>5 DEF SessionInv
<1>8. CASE task.generation # generation
  <2>1. /\ page = "gone" /\ page' = "gone" /\ current' = 0
        /\ UNCHANGED <<active, clients, current, shown>>
    BY <1>1, <1>2, <1>8 DEF Resume, TypeOK
  <2>2. TypeOK'
    <3>1. Len(clients) + Cardinality(tasks') <= MaxClients
      BY <1>4, <1>5, <1>6
    <3>2. tasks' \subseteq [generation : 1..generation', settings : Settings,
                           waits : 0..Len(clients')]
      BY <1>2
    <3> QED BY <1>1, <1>2, <1>3, <2>1, <3>1, <3>2 DEF TypeOK
  <2>3. Turn' /\ Awaited' /\ Remembered' /\ ShownIsReal'
    BY <1>2, <1>3, <2>1 DEF Turn, Awaited, Remembered, ShownIsReal
  <2>4. Wired' /\ OneConnection'
    BY <2>1, <1>2 DEF SessionInv, Wired, OneConnection
  <2> QED BY <2>2, <2>3, <2>4 DEF SessionInv
<1> QED BY <1>7, <1>8

\* What the browser leaves of a client when its page is unloaded.
LEMMA UnloadedFacts ==
  ASSUME NEW x \in Client
  PROVE  LET y == [x EXCEPT !.phase = "closed", !.link = "ended",
                            !.asked = FALSE, !.unacked = FALSE,
                            !.state = "offline"]
         IN  y \in Client /\ WiredClient(y) /\ y.phase = "closed"
<1> DEFINE y == [[[[[x EXCEPT !.phase = "closed"] EXCEPT !.link = "ended"]
                     EXCEPT !.asked = FALSE] EXCEPT !.unacked = FALSE]
                   EXCEPT !.state = "offline"]
<1>1. y \in Client
  BY ClientUpdate DEF States, Phases
<1>2. y.phase = "closed" /\ y.link = "ended" /\ y.asked = FALSE
  BY DEF Client
<1>3. WiredClient(y)
  BY <1>2 DEF WiredClient
<1>4. y = [x EXCEPT !.phase = "closed", !.link = "ended",
                    !.asked = FALSE, !.unacked = FALSE, !.state = "offline"]
  OBVIOUS
<1> QED BY <1>1, <1>2, <1>3, <1>4, Zenon

\* Another URL in a storage leaves what is stored beside it.
LEMMA StoredUrl ==
  ASSUME NEW U, NEW N, NEW P,
         NEW s \in [url : U, username : N, password : P], NEW u \in U
  PROVE  [s EXCEPT !.url = u] \in [url : U, username : N, password : P]
OBVIOUS

\* A page that is loaded again starts with what is stored for it.
LEMMA ReloadInv ==
  ASSUME SessionInv, Reload
  PROVE  SessionInv'
<1> DEFINE Unloaded(x) == [x EXCEPT !.phase = "closed", !.link = "ended",
                                    !.asked = FALSE, !.unacked = FALSE,
                                    !.state = "offline"]
           before == [c \in DOMAIN clients |-> Unloaded(clients[c])]
<1>1. PICK sameTab \in BOOLEAN :
        Start(IF sameTab THEN storage
              ELSE [NothingStored EXCEPT !.url = storage.url], before)
  BY DEF Reload
<1>2. /\ TypeOK /\ clients \in Seq(Client) /\ Len(clients) \in Nat
      /\ DOMAIN clients = 1..Len(clients) /\ storage \in Storages
  BY DEF SessionInv, TypeOK, Storages
<1>3. \A c \in DOMAIN clients :
        /\ Unloaded(clients[c]) \in Client /\ WiredClient(Unloaded(clients[c]))
        /\ Unloaded(clients[c]).phase = "closed"
  <2> SUFFICES ASSUME NEW c \in DOMAIN clients
               PROVE  /\ Unloaded(clients[c]) \in Client
                      /\ WiredClient(Unloaded(clients[c]))
                      /\ Unloaded(clients[c]).phase = "closed"
    OBVIOUS
  <2>1. clients[c] \in Client
    BY <1>2
  <2> QED BY <2>1, UnloadedFacts, Zenon
<1> HIDE DEF Unloaded
<1>4. before \in [1..Len(clients) -> Client]
  BY <1>2, <1>3
<1>5. /\ before \in Seq(Client) /\ Len(before) = Len(clients)
      /\ \A c \in DOMAIN before : WiredClient(before[c])
                                  /\ before[c].phase = "closed"
  BY <1>2, <1>3, <1>4, FunctionIsSequence
<1> HIDE DEF before
<1> DEFINE s == IF sameTab THEN storage
                ELSE [NothingStored EXCEPT !.url = storage.url]
<1>6. s \in Storages
  <2>1. storage.url \in CheckedUrls \union {None}
    BY <1>2 DEF Storages
  <2>2. [NothingStored EXCEPT !.url = storage.url] \in Storages
    BY <2>1, NothingStoredFacts, StoredUrl DEF Storages
  <2> QED BY <1>2, <2>2
<1> HIDE DEF s
<1>7. StoredSettings(s) \in Settings
  BY <1>6, StoredSettingsType
<1>8. Start(s, before)
  BY <1>1 DEF s
<1>9. /\ page' = "open" /\ storage' = s
      /\ clients' = Append(before, NewClient(StoredSettings(s)))
      /\ current' = Len(before) + 1 /\ generation' = 0 /\ tasks' = {}
      /\ active' = StoredSettings(s) /\ shown' = "connecting"
      /\ error' = FALSE /\ dialog' = [saving |-> FALSE, formError |-> FALSE]
  BY <1>8 DEF Start
<1>10. /\ clients' \in Seq(Client) /\ Len(clients') = Len(before) + 1
       /\ Turn' /\ Wired' /\ Awaited' /\ OneConnection' /\ ShownIsReal'
  <2>1. ~dialog'.saving
    BY <1>9
  <2> QED BY <1>5, <1>7, <1>9, <2>1, NewClientJoins
<1>11. Remembered'
  BY <1>9 DEF Remembered
<1>12. Len(clients') + Cardinality(tasks') <= MaxClients
  <2>1. /\ Len(clients) + Cardinality(tasks) < MaxClients
        /\ Len(clients) + Cardinality(tasks) <= MaxClients
    BY <1>2 DEF Reload, TypeOK
  <2>2. IsFiniteSet(tasks)
    <3>1. CASE tasks = {}
      BY <3>1, FS_EmptySet
    <3>2. CASE tasks # {}
      <4>1. PICK t \in tasks : tasks = {t}
        BY <3>2 DEF SessionInv, Turn
      <4>2. IsFiniteSet({t})
        BY FS_Singleton
      <4> QED BY <4>1, <4>2, Zenon
    <3> QED BY <3>1, <3>2
  <2>3. Cardinality(tasks) \in Nat
    BY <2>2, FS_CardinalityType
  <2>4. Cardinality(tasks') = 0
    BY <1>9, FS_EmptySet
  <2> QED BY <1>2, <1>5, <1>10, <2>1, <2>3, <2>4, SessionAssumption
<1>13. TypeOK'
  <2>1. /\ shown' \in States /\ current' \in 0..Len(clients')
        /\ generation' \in Nat /\ page' \in {"open", "gone"}
        /\ tasks' \subseteq [generation : 1..generation', settings : Settings,
                             waits : 0..Len(clients')]
    BY <1>2, <1>5, <1>9, <1>10 DEF States
  <2>2. error' \in BOOLEAN
    BY <1>9, Zenon
  <2>3. dialog' \in [saving : BOOLEAN, formError : BOOLEAN]
    BY <1>9
  <2>4. faults' \in [Faults -> Nat]
    BY <1>2 DEF Reload, TypeOK
  <2>5. active' \in Settings /\ storage' \in Storages
    BY <1>6, <1>7, <1>9, Zenon
  <2> QED BY <1>10, <1>12, <2>1, <2>2, <2>3, <2>4, <2>5 DEF TypeOK, Storages
<1> QED BY <1>10, <1>11, <1>13 DEF SessionInv

-----------------------------------------------------------------------------
(* The theorems.                                                           *)

\* The page starts with a client for what it finds stored.
LEMMA InitInv ==
  ASSUME Init
  PROVE  SessionInv
<1> DEFINE settings == StoredSettings(NothingStored)
           x == NewClient(settings)
<1>1. /\ NothingStored \in Storages /\ settings \in Settings
  BY NothingStoredFacts
<1> HIDE DEF settings
<1>2. /\ x \in Client /\ WiredClient(x) /\ x.settings = settings
      /\ x.state = "connecting" /\ x.phase = "open"
  BY <1>1, NewClientFacts
<1> HIDE DEF x
<1>3. /\ page = "open" /\ storage = NothingStored /\ clients = <<x>>
      /\ current = 1 /\ generation = 0 /\ tasks = {} /\ active = settings
      /\ shown = "connecting" /\ error = FALSE
      /\ dialog = [saving |-> FALSE, formError |-> FALSE]
      /\ faults = [kind \in Faults |-> 0]
  BY DEF Init, settings, x
<1>4. /\ clients \in Seq(Client) /\ Len(clients) = 1 /\ DOMAIN clients = {1}
      /\ clients[1] = x
  BY <1>2, <1>3
<1>5. TypeOK
  <2>1. Len(clients) + Cardinality(tasks) <= MaxClients
    BY <1>3, <1>4, FS_EmptySet, SessionAssumption
  <2>2. error \in BOOLEAN
    BY <1>3, Zenon
  <2>3. /\ shown \in States /\ current \in 0..Len(clients)
        /\ tasks \subseteq [generation : 1..generation, settings : Settings,
                            waits : 0..Len(clients)]
    BY <1>3, <1>4 DEF States
  <2>4. storage \in Storages /\ active \in Settings
    BY <1>1, <1>3
  <2> QED BY <1>3, <1>4, <2>1, <2>2, <2>3, <2>4 DEF TypeOK, Storages
<1>6. Turn
  BY <1>3 DEF Turn
<1>7. Wired
  BY <1>2, <1>3, <1>4 DEF Wired
<1>8. Awaited /\ OneConnection
  BY <1>3, <1>4 DEF Awaited, OneConnection
<1>9. Remembered
  BY <1>3 DEF Remembered, settings
<1>10. ShownIsReal
  BY <1>2, <1>3, <1>4 DEF ShownIsReal
<1> QED BY <1>5, <1>6, <1>7, <1>8, <1>9, <1>10 DEF SessionInv

\* Every step keeps the invariant.
LEMMA StepInv ==
  ASSUME SessionInv, [Next]_vars
  PROVE  SessionInv'
<1>1. CASE UNCHANGED vars
  <2>1. UNCHANGED <<clients, current, generation, tasks, active, shown, error,
                    page, storage, dialog, faults>>
    BY <1>1 DEF vars, sessionVars, reportVars, pageVars
  <2>2. TypeOK'
    BY <2>1 DEF SessionInv, TypeOK
  <2>3. Turn' /\ Wired' /\ Awaited' /\ Remembered' /\ OneConnection'
    BY <2>1 DEF SessionInv, Turn, Wired, Awaited, Remembered, OneConnection
  <2>4. ShownIsReal'
    BY <2>1 DEF SessionInv, ShownIsReal, Publishable
  <2> QED BY <2>2, <2>3, <2>4 DEF SessionInv
<1>2. CASE \E c \in DOMAIN clients : ClientStep(c)
  BY <1>2, ClientInv
<1>3. CASE \E task \in tasks : Resume(task)
  BY <1>3, ResumeInv
<1>4. CASE OpenDialog
  BY <1>4, FormInv, FALSE \in BOOLEAN DEF OpenDialog, sessionVars, reportVars
<1>5. CASE Reset
  BY <1>5, ResetInv
<1>6. CASE Reload
  BY <1>6, ReloadInv
<1>7. CASE Destroy
  BY <1>7, DestroyInv
<1>8. ASSUME NEW draft \in Drafts, SaveRefused(draft)
      PROVE  SessionInv'
  BY <1>8, FormInv, TRUE \in BOOLEAN DEF SaveRefused, sessionVars, reportVars
<1>9. ASSUME NEW draft \in Drafts, Save(draft) \/ SaveFails(draft)
      PROVE  SessionInv'
  BY <1>9, SaveInv, SaveFailsInv
<1> QED BY <1>1, <1>2, <1>3, <1>4, <1>5, <1>6, <1>7, <1>8, <1>9
        DEF Next, UserStep

\* The inductive invariant holds in every state the page reaches.
THEOREM SessionInvariant == Spec => []SessionInv
<1>1. Init => SessionInv
  BY InitInv
<1>2. SessionInv /\ [Next]_vars => SessionInv'
  BY StepInv
<1> QED BY <1>1, <1>2, PTL DEF Spec

\* No client is ever made for a URL or credentials normalizeMqttUrl and
\* normalizeMqttCredentials did not check, also after a storage that failed.
THEOREM SessionTyped == Spec => []TypeOK
<1>1. SessionInv => TypeOK
  BY DEF SessionInv
<1> QED BY <1>1, SessionInvariant, PTL

\* At most one client is not closed, and none is open on a page that was left.
THEOREM OneLiveConnection == Spec => []OneConnection
<1>1. SessionInv => OneConnection
  BY DEF SessionInv
<1> QED BY <1>1, SessionInvariant, PTL

\* The connection state shown is that of the client in use, which can publish
\* when it says connected.
THEOREM StateShown == Spec => []ShownIsReal
<1>1. SessionInv => ShownIsReal
  BY DEF SessionInv
<1> QED BY <1>1, SessionInvariant, PTL

\* A page that is loaded again uses the broker it was using.
THEOREM SettingsSurvive == Spec => []StoredIsActive
<1>1. SessionInv => StoredIsActive
  BY DEF SessionInv, Remembered, StoredIsActive
<1> QED BY <1>1, SessionInvariant, PTL
=============================================================================
