--------------------------- MODULE BrowserSession ---------------------------
(***************************************************************************)
(* The browser's connection to a broker: RestaurantMqttClient (client.ts), *)
(* the part of RestaurantSession that starts, replaces and destroys such   *)
(* clients, the stored settings (settings.ts), and the dialog and page     *)
(* that drive them.                                                        *)
(*                                                                         *)
(* A call of #reconnectToBroker is suspended while the previous client     *)
(* disconnects; `tasks` are the suspended calls.  The MQTT library is      *)
(* external: its events may come at any time a link allows them, a lost    *)
(* link fails the subscription under way but keeps the publishes for the   *)
(* next one, and end(), which is not forced, waits until the broker has    *)
(* acknowledged what was sent and connects no more.                        *)
(***************************************************************************)
EXTENDS Naturals, Sequences, FiniteSets

CONSTANTS
  Drafts,        \* what a user may enter: [url, credentials]
  DefaultUrl,    \* what resolveMqttUrl makes of location and configuration
  PageProtocol,  \* location.protocol
  MaxClients,    \* bound: clients created in the page's history
  MaxFaults,     \* bound: faults of each kind, a function of Faults
  None           \* no value

Faults == {"lost", "refused", "storage", "invalid"}

\* A URL as far as normalizeMqttUrl looks at it, and what login fields hold.
Url == [scheme : STRING, host : STRING, fragment : BOOLEAN,
        spelling : {"raw", "href"}]
Login == [username : STRING, password : STRING]

ASSUME SessionAssumption ==
  /\ Drafts \subseteq [url : Url, credentials : Login]
  /\ DefaultUrl \in Url /\ None \notin Url
  /\ PageProtocol \in {"http:", "https:"}
  /\ MaxClients \in Nat \ {0} /\ MaxFaults \in [Faults -> Nat]

VARIABLES
  page,        \* "open", or "gone" after onMount's cleanup
  clients,     \* every RestaurantMqttClient, in the order of their creation
  current,     \* #mqttClient, an index of clients; 0 is undefined
  generation,  \* #connectionGeneration
  tasks,       \* calls of #reconnectToBroker that await a disconnect
  shown,       \* connectionState
  error,       \* connectionError is not empty
  active,      \* activeBrokerUrl and activeBrokerCredentials
  pressure,    \* kitchenPressure, as the host it came from
  storage,     \* localStorage and sessionStorage: url, username, password
  dialog,      \* saving, and whether formError is set
  faults       \* history: faults of each kind

sessionVars == <<current, generation, tasks, active>>
reportVars == <<shown, error>>
pageVars == <<page, storage, dialog>>
vars == <<clients, sessionVars, reportVars, pressure, pageVars, faults>>

States == {"connecting", "connected", "reconnecting", "offline"}

\* One more of the faults of a kind.
Fault(kind) ==
  faults[kind] < MaxFaults[kind] /\ faults' = [faults EXCEPT ![kind] = @ + 1]

-----------------------------------------------------------------------------
(* Settings.                                                               *)

\* The conditions normalizeMqttUrl refuses a URL by.
ValidUrl(url) ==
  /\ url.scheme \in {"ws:", "wss:"} /\ url.host # ""
  /\ PageProtocol = "https:" => url.scheme = "wss:"
  /\ ~url.fragment

\* The URL normalizeMqttUrl returns: url.href, for any spelling of it.
NormalUrl(url) == [url EXCEPT !.spelling = "href"]

\* normalizeMqttCredentials: both, trimmed and not too long, or neither.
ValidCredentials(c) ==
  \/ c.username = "" /\ c.password = ""
  \/ /\ c.username \notin {"", "too long"}
     /\ c.password \notin {"", "too long"}

NoCredentials == [username |-> "", password |-> ""]

\* What #createMqttClient is given by start(): readStoredMqttUrl and
\* readSessionMqttCredentials ignore what is not valid.
StoredSettings(s) ==
  LET c == [username |-> s.username, password |-> s.password] IN
  [url |-> IF s.url # None /\ ValidUrl(s.url)
           THEN NormalUrl(s.url) ELSE DefaultUrl,
   credentials |-> IF ValidCredentials(c) THEN c ELSE NoCredentials]

\* storeMqttUrl and storeSessionMqttCredentials, when the n-th setItem is the
\* last that does not throw; removeItem does not.
Stored(settings, n) ==
  LET c == settings.credentials IN
  [url |-> IF n >= 1 THEN settings.url ELSE storage.url,
   username |-> IF n >= 2 \/ (n = 1 /\ c = NoCredentials)
                THEN c.username ELSE storage.username,
   password |-> IF n >= 3 \/ (n = 1 /\ c = NoCredentials)
                THEN c.password ELSE storage.password]

\* The calls of setItem it takes to store settings.
Writes(settings) == IF settings.credentials = NoCredentials THEN 1 ELSE 3

-----------------------------------------------------------------------------
(* RestaurantMqttClient.                                                   *)

\* A client whose connect() was called: link is mqtt.js's, phase that of
\* disconnect(), asked that a subscription is under way, unacked that an order
\* is published and not yet acknowledged.
NewClient(settings) ==
  [settings |-> settings, state |-> "connecting", phase |-> "open",
   link |-> "new", asked |-> FALSE, refused |-> FALSE, unacked |-> FALSE]

\* endAsync() is called: mqtt.js waits for the publishes under way.
Ending(client) ==
  [client EXCEPT !.phase = IF client.unacked THEN "draining" ELSE "ending"]

\* #setState: the session hears of a change, and forgets its error when
\* connected; it may hear of a failure with it.
SetState(c, client, state, failed) ==
  /\ clients' = [clients EXCEPT ![c] = [client EXCEPT !.state = state]]
  /\ IF state = client.state
     THEN UNCHANGED shown /\ error' = (error \/ failed)
     ELSE shown' = state /\ error' = (failed \/ (error /\ state # "connected"))

\* Whether publishOrder would publish.
Publishable(c) ==
  clients[c].phase = "open" /\ clients[c].link = "up"
    /\ clients[c].state = "connected"

\* 'connect': subscribe to the public topics.
LinkUp(c) ==
  /\ clients[c].link \in {"new", "down"}
  /\ clients[c].phase \in {"open", "unsubscribing"}
  /\ clients' = [clients EXCEPT ![c].link = "up", ![c].asked = TRUE,
                                ![c].refused = FALSE]
  /\ UNCHANGED <<sessionVars, reportVars, pressure, pageVars, faults>>

\* Mutant: a subscription counts only the first time.
SubscribedOnce(c) ==
  /\ clients[c].asked
  /\ SetState(c, [clients[c] EXCEPT !.asked = FALSE],
       IF clients[c].state = "connecting" THEN "connected"
                                          ELSE clients[c].state, FALSE)
  /\ UNCHANGED <<sessionVars, pressure, pageVars, faults>>

\* The subscription is granted, perhaps while the client disconnects.
Subscribed(c) ==
  /\ clients[c].asked
  /\ SetState(c, [clients[c] EXCEPT !.asked = FALSE], "connected", FALSE)
  /\ UNCHANGED <<sessionVars, pressure, pageVars, faults>>

\* The broker refuses the subscription: an error is reported, and that is all.
SubscribeFails(c) ==
  /\ clients[c].asked /\ Fault("refused")
  /\ SetState(c, [clients[c] EXCEPT !.asked = FALSE, !.refused = TRUE],
              clients[c].state, TRUE)
  /\ UNCHANGED <<sessionVars, pressure, pageVars>>

\* The link is lost, or an attempt to connect fails: 'offline' and 'close' in
\* either order, perhaps 'error', and the subscription under way fails.  After
\* disconnect() a 'close' changes nothing, and after end() nothing is offline.
LinkLost(c) ==
  /\ clients[c].phase \in {"open", "unsubscribing", "draining"} /\ Fault("lost")
  /\ LET closed == IF clients[c].phase = "open" THEN "offline"
                                                ELSE clients[c].state IN
     \E state \in {closed, "reconnecting"}, reported \in BOOLEAN :
       /\ clients[c].phase = "draining" => state = closed
       /\ SetState(c, [clients[c] EXCEPT !.link = "down", !.asked = FALSE],
                   state, reported \/ clients[c].asked)
  /\ UNCHANGED <<sessionVars, pressure, pageVars>>

\* 'reconnect': the library tries again.
Retry(c) ==
  /\ clients[c].link = "down" /\ clients[c].phase \in {"open", "unsubscribing"}
  /\ clients[c].state # "reconnecting"
  /\ SetState(c, clients[c], "reconnecting", FALSE)
  /\ UNCHANGED <<sessionVars, pressure, pageVars, faults>>

\* Messages arrive on a link whose subscription was not refused.
Receiving(c) ==
  /\ clients[c].link = "up" /\ ~clients[c].refused

\* 'message' with a payload its decoder refuses.
InvalidMessage(c) ==
  /\ Receiving(c) /\ Fault("invalid")
  /\ error' = TRUE
  /\ UNCHANGED <<clients, sessionVars, shown, pressure, pageVars>>

\* Mutant: a snapshot is taken over only as the first one.
PressureFirst(c) ==
  /\ Receiving(c) /\ pressure = None
  /\ pressure' = clients[c].settings.url.host
  /\ UNCHANGED <<clients, sessionVars, reportVars, pageVars, faults>>

\* 'message' with a pressure snapshot: onKitchenPressure takes one of another
\* service instance, whichever client it comes from.
Pressure(c) ==
  /\ Receiving(c) /\ pressure # clients[c].settings.url.host
  /\ pressure' = clients[c].settings.url.host
  /\ UNCHANGED <<clients, sessionVars, reportVars, pageVars, faults>>

\* publishOrder of the session and of the client in use: the order is published.
Publish(c) ==
  /\ c = current /\ shown = "connected" /\ Publishable(c)
  /\ ~clients[c].unacked
  /\ clients' = [clients EXCEPT ![c].unacked = TRUE]
  /\ UNCHANGED <<sessionVars, reportVars, pressure, pageVars, faults>>

\* The broker acknowledges what was published, on this link or, sent again, on
\* the next.
Acknowledged(c) ==
  /\ clients[c].link = "up" /\ clients[c].unacked
  /\ LET client == [clients[c] EXCEPT !.unacked = FALSE] IN
     clients' = [clients EXCEPT ![c] =
       IF client.phase = "draining" THEN Ending(client) ELSE client]
  /\ UNCHANGED <<sessionVars, reportVars, pressure, pageVars, faults>>

\* disconnect() up to its first await.
Closing(client) ==
  IF client.link = "up" THEN [client EXCEPT !.phase = "unsubscribing"]
                        ELSE Ending(client)

\* unsubscribeAsync settles, one way or the other, and not before a subscription
\* under way: the broker answers in order, and a lost link fails both.
Unsubscribed(c) ==
  /\ clients[c].phase = "unsubscribing" /\ ~clients[c].asked
  /\ clients' = [clients EXCEPT ![c] = Ending(@)]
  /\ UNCHANGED <<sessionVars, reportVars, pressure, pageVars, faults>>

\* endAsync settles.
Ended(c) ==
  /\ clients[c].phase = "ending"
  /\ SetState(c, [clients[c] EXCEPT !.phase = "closed", !.link = "ended"],
              "offline", FALSE)
  /\ UNCHANGED <<sessionVars, pressure, pageVars, faults>>

-----------------------------------------------------------------------------
(* RestaurantSession, the dialog and the page.                             *)

\* start(): the page is loaded with what it finds stored.
Start(s, before) ==
  /\ page' = "open" /\ storage' = s
  /\ clients' = Append(before, NewClient(StoredSettings(s)))
  /\ current' = Len(before) + 1 /\ generation' = 0 /\ tasks' = {}
  /\ active' = StoredSettings(s)
  /\ shown' = "connecting" /\ error' = FALSE /\ pressure' = None
  /\ dialog' = [saving |-> FALSE, formError |-> FALSE]

NothingStored == [url |-> None, username |-> "", password |-> ""]

Init ==
  /\ page = "open" /\ storage = NothingStored
  /\ clients = <<NewClient(StoredSettings(NothingStored))>>
  /\ current = 1 /\ generation = 0 /\ tasks = {}
  /\ active = StoredSettings(NothingStored)
  /\ shown = "connecting" /\ error = FALSE /\ pressure = None
  /\ dialog = [saving |-> FALSE, formError |-> FALSE]
  /\ faults = [kind \in Faults |-> 0]

\* The page is loaded again, in its tab or in a new one, which has a
\* sessionStorage of its own; the browser ends the connections of the old one.
Reload ==
  /\ page = "open" /\ Len(clients) + Cardinality(tasks) < MaxClients
  /\ \E sameTab \in BOOLEAN :
       Start(IF sameTab THEN storage
             ELSE [NothingStored EXCEPT !.url = storage.url],
             [c \in DOMAIN clients |->
                [clients[c] EXCEPT !.phase = "closed", !.link = "ended",
                                   !.asked = FALSE, !.unacked = FALSE,
                                   !.state = "offline"]])
  /\ UNCHANGED faults

\* #reconnectToBroker up to its await.
Reconnect(settings) ==
  /\ Len(clients) + Cardinality(tasks) < MaxClients
  /\ generation' = generation + 1
  /\ tasks' = tasks \union
       {[generation |-> generation + 1, settings |-> settings, waits |-> current]}
  /\ clients' = [c \in DOMAIN clients |->
                   IF c = current THEN Closing(clients[c]) ELSE clients[c]]
  /\ current' = 0
  /\ shown' = "connecting" /\ error' = FALSE /\ pressure' = None
  /\ UNCHANGED <<page, active>>

\* The dialog is dismissed and opened again, perhaps while it is saving; it may
\* be opened at any time, and is not followed further.
OpenDialog ==
  /\ page = "open" /\ dialog.formError
  /\ dialog' = [dialog EXCEPT !.formError = FALSE]
  /\ UNCHANGED <<clients, sessionVars, reportVars, pressure, page, storage, faults>>

\* save() of the dialog with settings that are not valid.
SaveRefused(draft) ==
  /\ page = "open" /\ ~dialog.saving
  /\ ~(ValidUrl(draft.url) /\ ValidCredentials(draft.credentials))
  /\ dialog' = [dialog EXCEPT !.formError = TRUE]
  /\ UNCHANGED <<clients, sessionVars, reportVars, pressure, page, storage, faults>>

\* Mutant: a second save() is not held back.
SaveAgain(draft) ==
  /\ page = "open"
  /\ ValidUrl(draft.url) /\ ValidCredentials(draft.credentials)
  /\ LET settings == [draft EXCEPT !.url = NormalUrl(@)] IN
       Reconnect(settings) /\ storage' = Stored(settings, Writes(settings))
  /\ dialog' = [dialog EXCEPT !.saving = TRUE, !.formError = FALSE]
  /\ UNCHANGED faults

\* Mutant: the URL is not normalized.
SaveRaw(draft) ==
  /\ page = "open" /\ ~dialog.saving
  /\ ValidUrl(draft.url) /\ ValidCredentials(draft.credentials)
  /\ Reconnect(draft) /\ storage' = Stored(draft, Writes(draft))
  /\ dialog' = [dialog EXCEPT !.saving = TRUE, !.formError = FALSE]
  /\ UNCHANGED faults

\* save() and saveBrokerSettings up to the await: the settings are stored, then
\* the session reconnects.
Save(draft) ==
  /\ page = "open" /\ ~dialog.saving
  /\ ValidUrl(draft.url) /\ ValidCredentials(draft.credentials)
  /\ LET settings == [draft EXCEPT !.url = NormalUrl(@)] IN
       Reconnect(settings) /\ storage' = Stored(settings, Writes(settings))
  /\ dialog' = [dialog EXCEPT !.saving = TRUE, !.formError = FALSE]
  /\ UNCHANGED faults

\* Mutant: the dialog is released when onSave returns, not in the finally.
SaveFailsLocked(draft) ==
  /\ page = "open" /\ ~dialog.saving
  /\ ValidUrl(draft.url) /\ ValidCredentials(draft.credentials)
  /\ LET settings == [draft EXCEPT !.url = NormalUrl(@)] IN
       \E n \in 0..(Writes(settings) - 1) : storage' = Stored(settings, n)
  /\ Fault("storage")
  /\ dialog' = [saving |-> TRUE, formError |-> TRUE]
  /\ UNCHANGED <<clients, sessionVars, reportVars, pressure, page>>

\* The same when a setItem throws: what was written before stays.
SaveFails(draft) ==
  /\ page = "open" /\ ~dialog.saving
  /\ ValidUrl(draft.url) /\ ValidCredentials(draft.credentials)
  /\ LET settings == [draft EXCEPT !.url = NormalUrl(@)] IN
       \E n \in 0..(Writes(settings) - 1) : storage' = Stored(settings, n)
  /\ Fault("storage")
  /\ dialog' = [dialog EXCEPT !.formError = TRUE]
  /\ UNCHANGED <<clients, sessionVars, reportVars, pressure, page>>

\* Mutant: the stored URL is left.
ResetUncleared ==
  /\ page = "open" /\ ~dialog.saving
  /\ storage' = [NothingStored EXCEPT !.url = storage.url]
  /\ Reconnect([url |-> DefaultUrl, credentials |-> NoCredentials])
  /\ dialog' = [dialog EXCEPT !.saving = TRUE, !.formError = FALSE]
  /\ UNCHANGED faults

\* reset() of the dialog and resetBrokerSettings.
Reset ==
  /\ page = "open" /\ ~dialog.saving
  /\ storage' = NothingStored
  /\ Reconnect([url |-> DefaultUrl, credentials |-> NoCredentials])
  /\ dialog' = [dialog EXCEPT !.saving = TRUE, !.formError = FALSE]
  /\ UNCHANGED faults

\* The previous client is disconnected.
Ready(task) == task.waits # 0 => clients[task.waits].phase = "closed"

\* #reconnectToBroker goes on: a client for its settings, unless the generation
\* moved on; the dialog is no longer saving.
Resume(task) ==
  /\ Ready(task) /\ tasks' = tasks \ {task}
  /\ IF task.generation = generation
     THEN /\ active' = task.settings
          /\ clients' = Append(clients, NewClient(task.settings))
          /\ current' = Len(clients) + 1
          /\ shown' = "connecting"
     ELSE UNCHANGED <<active, clients, current, shown>>
  /\ dialog' = [dialog EXCEPT !.saving = FALSE]
  /\ UNCHANGED <<generation, error, pressure, page, storage, faults>>

\* Mutant: destroy() leaves the generation.
DestroyUncounted ==
  /\ page = "open" /\ page' = "gone"
  /\ clients' = [c \in DOMAIN clients |->
                   IF c = current THEN Closing(clients[c]) ELSE clients[c]]
  /\ current' = 0
  /\ UNCHANGED <<generation, tasks, active, reportVars, pressure, storage,
                 dialog, faults>>

\* The page is left without being unloaded: destroy() of the session.
Destroy ==
  /\ page = "open" /\ page' = "gone"
  /\ generation' = generation + 1
  /\ clients' = [c \in DOMAIN clients |->
                   IF c = current THEN Closing(clients[c]) ELSE clients[c]]
  /\ current' = 0
  /\ UNCHANGED <<tasks, active, reportVars, pressure, storage, dialog, faults>>

-----------------------------------------------------------------------------
ClientStep(c) ==
  \/ LinkUp(c) \/ Subscribed(c) \/ SubscribeFails(c) \/ LinkLost(c) \/ Retry(c)
  \/ InvalidMessage(c) \/ Pressure(c) \/ Publish(c) \/ Acknowledged(c)
  \/ Unsubscribed(c) \/ Ended(c)

UserStep ==
  \/ OpenDialog \/ Reset \/ Reload \/ Destroy
  \/ \E draft \in Drafts : SaveRefused(draft) \/ Save(draft) \/ SaveFails(draft)

Next ==
  \/ UserStep
  \/ \E c \in DOMAIN clients : ClientStep(c)
  \/ \E task \in tasks : Resume(task)

Spec == Init /\ [][Next]_vars

\* The library connects, subscribes and delivers, the broker acknowledges while
\* the link is up, and an end() with nothing to wait for settles; promises resume.
Fairness ==
  /\ \A c \in 1..MaxClients :
       LET Is(A) == c \in DOMAIN clients /\ A IN
       /\ WF_vars(Is(LinkUp(c))) /\ WF_vars(Is(Subscribed(c)))
       /\ WF_vars(Is(Pressure(c))) /\ WF_vars(Is(Acknowledged(c)))
       /\ WF_vars(Is(Unsubscribed(c))) /\ WF_vars(Is(Ended(c)))
  /\ WF_vars(\E task \in tasks : Resume(task))

LiveSpec == Spec /\ Fairness

-----------------------------------------------------------------------------
(* Types.                                                                  *)

\* What was checked before it is used: the URLs and the credentials.
CheckedUrls == {NormalUrl(u) : u \in {d.url : d \in {e \in Drafts : ValidUrl(e.url)}}}
Names == {d.credentials.username : d \in Drafts} \union {""}
Secrets == {d.credentials.password : d \in Drafts} \union {""}
Credentials == {c \in [username : Names, password : Secrets] : ValidCredentials(c)}
Settings == [url : CheckedUrls \union {DefaultUrl}, credentials : Credentials]

Client == [settings : Settings, state : States,
           phase : {"open", "unsubscribing", "draining", "ending", "closed"},
           link : {"new", "down", "up", "ended"},
           asked : BOOLEAN, refused : BOOLEAN, unacked : BOOLEAN]

\* The session's state is well formed, and no client is ever made for a URL or
\* credentials that were not checked.  A storage that failed may have put a
\* name and a password together that were not entered together.
TypeOK ==
  /\ page \in {"open", "gone"} /\ shown \in States /\ error \in BOOLEAN
  /\ clients \in Seq(Client) /\ Len(clients) + Cardinality(tasks) <= MaxClients
  /\ current \in 0..Len(clients) /\ generation \in Nat
  /\ active \in Settings
  /\ tasks \subseteq [generation : 1..generation, settings : Settings,
                     waits : 0..Len(clients)]
  /\ storage \in [url : CheckedUrls \union {None}, username : Names,
                  password : Secrets]
  /\ dialog \in [saving : BOOLEAN, formError : BOOLEAN]
  /\ faults \in [Faults -> Nat]

\* The broker is left before another is joined, so at most one client is not
\* yet closed ("One live MQTT WebSocket connection powers both panels",
\* +page.svelte:114), and after destroy() none that is not closing: whatever
\* calls overlap with a disconnect.
OneConnection ==
  /\ \A c, d \in DOMAIN clients :
       clients[c].phase # "closed" /\ clients[d].phase # "closed" => c = d
  /\ page = "gone" => \A c \in DOMAIN clients : clients[c].phase # "open"

\* The state shown is the one of the client in use, not the last words of the
\* one before it; and when it says connected an order can be published.
ShownIsReal ==
  current # 0 =>
    /\ shown = clients[current].state
    /\ active = clients[current].settings
    /\ shown = "connected" => Publishable(current)

\* The page comes back with the broker it is using: what is stored is what is
\* active, however changes of the settings, resets and reloads follow one
\* another, as long as the storage takes what is written.
StoredIsActive ==
  page = "open" /\ tasks = {} /\ faults["storage"] = 0 =>
    StoredSettings(storage) = active

\* A client that waits for acknowledgements on a link it will not have again.
Stranded == \E c \in DOMAIN clients :
              clients[c].phase = "draining" /\ clients[c].link # "up"

\* A save or a reset comes to its end, whatever happens to the link and to the
\* storage meanwhile, unless the client it replaces is stranded: nothing else
\* keeps the dialog locked.
SavingEnds == dialog.saving ~> ~dialog.saving \/ Stranded

\* The dialog does what its button says: 'Save and reconnect', and
\* 'Reconnecting...' while it does (broker-settings-dialog.svelte:191).
SaveReconnects == dialog.saving ~> ~dialog.saving

\* Once faults and users leave it alone, the page is online, unless a
\* subscription was refused or the client before is stranded.
ComesOnline ==
  <>[](\/ page = "gone"
       \/ shown = "connected"
       \/ current # 0 /\ clients[current].refused
       \/ Stranded)

\* And the kitchen pressure it shows is that of the broker in use, also when a
\* snapshot of the previous broker came late.
PressureFollows ==
  <>[](\/ page = "gone"
       \/ pressure = active.url.host
       \/ current # 0 /\ clients[current].refused
       \/ Stranded)
=============================================================================
