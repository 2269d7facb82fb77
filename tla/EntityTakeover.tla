--------------------------- MODULE EntityTakeover ---------------------------
(***************************************************************************)
(* The worker and the entities the broker retains (worker.py, and          *)
(* telemetry.py for the plan).                                             *)
(*                                                                         *)
(* The legacy publisher on the gateway has announced sensors to Home       *)
(* Assistant.  The worker collects these entities, plans how to serve each *)
(* of them from the gateway's sensor files, stops the publisher, and       *)
(* overwrites the entities with its own; a rollback puts the originals     *)
(* back and starts the publisher again.  All of this is sent without       *)
(* acknowledgement over a connection that may already be broken, by a      *)
(* process that may end anywhere.                                          *)
(*                                                                         *)
(* Handover has the gateway's side of the same steps, command by command;  *)
(* here an ssh call is one step that takes place or fails.                 *)
(***************************************************************************)
EXTENDS Integers, FiniteSets

CONSTANTS Resources, \* kinds of sensor values, such as soil_moisture
          Snapshots, \* sets of resources the gateway may have values of
          Mower,     \* the discovery topic of the mower
          None

\* A sensor is announced under the key the publisher chose, or under the
\* key of the gateway's device.
Keys == {"publisher", "device"}
Entity == Keys \X Resources
Topic == Entity \cup {Mower}
Resource(e) == e[2]

\* What a topic retains: a configuration of the publisher, or of the worker.
Content == {"empty", "publisher", "worker"}

\* Entities with what was found under their topics.
Plan == UNION {[E -> Content] : E \in SUBSET Entity}
NoPlan == [e \in {} |-> "empty"]

\* What migration.json holds.
Journal == [phase : {"taking_over", "active"}, plan : Plan, previous : BOOLEAN]

ASSUME TakeoverAssumption ==
    Snapshots \subseteq SUBSET Resources /\ None \notin Journal /\ Mower \notin Entity

VARIABLES
    place,        \* where Worker.run is
    active,       \* its flag: this worker publishes and controls
    devices,      \* resources of the snapshot taken before a collection
    found,        \* entities collected so far
    plan,         \* its plan, with the originals
    rest,         \* topics still to be published in this round
    unheard,      \* something was sent after the connection broke
    journal,      \* migration.json
    action,       \* action.json
    link,         \* connection to the broker: "none", "open" or "broken"
    willPending,  \* the broker has yet to notice a broken connection
    retained,     \* per topic: what the broker retains
    availability, \* the retained .../local/availability
    measured,     \* resources with a value in the gateway's files
    publisher,    \* the legacy publisher runs
    doubtful      \* history: a rollback ended with something unheard

sessionVars == <<active, devices, found, plan, rest, unheard>>
files == <<journal, action>>
brokerVars == <<link, willPending, retained, availability>>
gateway == <<measured, publisher>>
vars == <<place, sessionVars, files, brokerVars, gateway, doubtful>>
-----------------------------------------------------------------------------
(* MQTT: QoS 0.                                                            *)

\* A message changes what is retained, if there still is a connection.
Retains(topic, content) ==
    IF link = "open" THEN retained' = [retained EXCEPT ![topic] = content] /\ UNCHANGED unheard
                     ELSE unheard' = TRUE /\ UNCHANGED retained

SaysAvailability(value) ==
    IF link = "open" THEN availability' = value /\ UNCHANGED unheard
                     ELSE unheard' = TRUE /\ UNCHANGED availability

LinkBreaks ==
    /\ link = "open"
    /\ link' = "broken" /\ willPending' = TRUE
    /\ UNCHANGED <<place, sessionVars, files, retained, availability, gateway, doubtful>>

\* The broker publishes the will of a broken connection, at once or late.
BrokerNotices ==
    /\ willPending /\ willPending' = FALSE
    /\ availability' = "offline"
    /\ UNCHANGED <<place, sessionVars, files, link, retained, gateway, doubtful>>
-----------------------------------------------------------------------------
(* telemetry.py                                                            *)

With(p, e, content) == [d \in DOMAIN p \cup {e} |-> IF d = e THEN content ELSE p[d]]

Collected(contents) == [e \in {e \in Entity : contents[e] # "empty"} |-> contents[e]]

\* Every value of the plan is in the snapshot.
Readable(p, snapshot) == \A e \in DOMAIN p : Resource(e) \in snapshot

\* Mutant: the records of existing entities lack their original.
PlannedBare(existing, snapshot) ==
    IF existing = NoPlan
    THEN [e \in {"device"} \X snapshot |-> "empty"]
    ELSE [e \in DOMAIN existing |-> None]

\* All existing entities, which must have one key and a value each, or
\* entities of the worker's own for every value.
Planned(existing, snapshot) ==
    IF existing = NoPlan
    THEN [e \in {"device"} \X snapshot |-> "empty"]
    ELSE existing

CanPlan(existing, snapshot) ==
    /\ snapshot # {}
    /\ \A d, e \in DOMAIN existing : d[1] = e[1]
    /\ Readable(existing, snapshot)
-----------------------------------------------------------------------------
(* Worker.run: to the loop.                                                *)

\* The journal is read and the broker connected.
Connect ==
    /\ place = "start"
    /\ place' = "prepare"
    /\ link' = "open" /\ unheard' = FALSE
    /\ UNCHANGED <<active, devices, found, plan, rest, files, willPending, retained,
                   availability, gateway, doubtful>>

\* Mutant: a rollback has to wait until the loop takes it.
RollbackLater == FALSE

\* A requested rollback comes first: it needs no sensor.
RollbackFirst == journal # None /\ action = "rollback"

BeginRollback ==
    /\ place = "prepare" /\ RollbackFirst
    /\ place' = "sayOffline"
    /\ plan' = journal.plan
    /\ UNCHANGED <<active, devices, found, rest, unheard, files, brokerVars, gateway, doubtful>>

\* A migration goes on, or is undone, with the plan of the journal.
Continue ==
    /\ place = "prepare" /\ journal # None /\ ~RollbackFirst
    /\ Readable(journal.plan, measured)
    /\ plan' = journal.plan
    /\ place' = IF journal.phase = "active" THEN "resume" ELSE "undo"
    /\ UNCHANGED <<active, devices, found, rest, unheard, files, brokerVars, gateway, doubtful>>

Preview ==
    /\ place = "prepare" /\ journal = None
    /\ place' = "collect"
    /\ devices' = measured
    /\ found' = Collected(retained)
    /\ UNCHANGED <<active, plan, rest, unheard, files, brokerVars, gateway, doubtful>>

\* The publisher is stopped again; it may have been started meanwhile.
Resume ==
    /\ place = "resume"
    /\ place' = "loop"
    /\ publisher' = FALSE /\ active' = TRUE
    /\ UNCHANGED <<devices, found, plan, rest, unheard, files, brokerVars, measured, doubtful>>

RestorePublisher == publisher' = (publisher \/ journal.previous)

Undo ==
    /\ place = "undo"
    /\ place' = "forget"
    /\ RestorePublisher
    /\ UNCHANGED <<sessionVars, files, brokerVars, measured, doubtful>>

Forget ==
    /\ place = "forget"
    /\ place' = "loop"
    /\ journal' = None
    /\ UNCHANGED <<sessionVars, action, brokerVars, gateway, doubtful>>

\* Both subscriptions are accepted and nothing has come for a second: the
\* collection is taken for complete, although messages may be held up.
CollectionSettles ==
    /\ place \in {"collect", "recheck"}
    /\ \E seen \in SUBSET DOMAIN found :
          LET existing == [e \in seen |-> found[e]]
          IN  /\ CanPlan(existing, devices)
              /\ plan' = Planned(existing, devices)
    /\ found' = NoPlan /\ devices' = {}
    /\ place' = IF place = "collect" THEN "loop" ELSE "record"
    /\ UNCHANGED <<active, rest, unheard, files, brokerVars, gateway, doubtful>>
-----------------------------------------------------------------------------
(* Worker.run: the loop, activate and publish.                             *)

\* Everything is collected again.
TakeActivate ==
    /\ place = "loop" /\ action = "activate" /\ ~active
    /\ action' = None
    /\ place' = "recheck"
    /\ devices' = measured
    /\ found' = Collected(retained)
    /\ UNCHANGED <<active, plan, rest, unheard, journal, brokerVars, gateway, doubtful>>

TakeRollback ==
    /\ place = "loop" /\ action = "rollback" /\ journal # None
    /\ action' = None
    /\ place' = "sayOffline"
    /\ UNCHANGED <<sessionVars, journal, brokerVars, gateway, doubtful>>

\* A request that does not fit is thrown away.
TakeNothing ==
    /\ place = "loop"
    /\ \/ action = "activate" /\ active
       \/ action = "rollback" /\ journal = None
    /\ action' = None
    /\ UNCHANGED <<place, sessionVars, journal, brokerVars, gateway, doubtful>>

\* activate: the journal is written before the publisher is touched ...
Record ==
    /\ place = "record"
    /\ place' = "stop"
    /\ journal' = [phase |-> "taking_over", plan |-> plan, previous |-> publisher]
    /\ UNCHANGED <<sessionVars, action, brokerVars, gateway, doubtful>>

StopPublisher ==
    /\ place = "stop"
    /\ place' = "confirm"
    /\ publisher' = FALSE
    /\ UNCHANGED <<sessionVars, files, brokerVars, measured, doubtful>>

\* Mutant: publishing begins although the journal may still be undone.
ConfirmLater ==
    /\ place = "confirm"
    /\ place' = "poll"
    /\ active' = TRUE
    /\ UNCHANGED <<devices, found, plan, rest, unheard, files, brokerVars, gateway, doubtful>>

\* ... and says so before anything is published.
Confirm ==
    /\ place = "confirm"
    /\ place' = "poll"
    /\ journal' = [journal EXCEPT !.phase = "active"]
    /\ active' = TRUE
    /\ UNCHANGED <<devices, found, plan, rest, unheard, action, brokerVars, gateway, doubtful>>

\* The loop looks for a request first; after a takeover it polls at once.
PollDue == place = "poll" \/ (place = "loop" /\ action = None)

\* Every 30 s: all values are read and validated before the first is sent.
Poll ==
    /\ PollDue /\ Readable(plan, measured)
    /\ IF active THEN place' = "publish" /\ rest' = DOMAIN plan \cup {Mower}
                 ELSE place' = "loop" /\ UNCHANGED rest
    /\ UNCHANGED <<active, devices, found, plan, unheard, files, brokerVars, gateway, doubtful>>

\* The entities of the plan, then the mower.
NextTopics == IF rest = {Mower} THEN rest ELSE rest \ {Mower}

\* Mutant: the first entity makes the worker available.
PublishOne ==
    /\ place = "publish"
    /\ \E topic \in NextTopics :
          /\ Retains(topic, "worker")
          /\ rest' = rest \ {topic}
    /\ place' = "sayOnline"
    /\ UNCHANGED <<active, devices, found, plan, files, link, willPending, availability,
                   gateway, doubtful>>

\* telemetry.publish and publish_discovery
Publish ==
    /\ place = "publish"
    /\ \E topic \in NextTopics :
          /\ Retains(topic, "worker")
          /\ rest' = rest \ {topic}
    /\ place' = IF rest' = {} THEN "sayOnline" ELSE "publish"
    /\ UNCHANGED <<active, devices, found, plan, files, link, willPending, availability,
                   gateway, doubtful>>

SayOnline ==
    /\ place = "sayOnline"
    /\ place' = "loop"
    /\ SaysAvailability("online")
    /\ UNCHANGED <<active, devices, found, plan, rest, files, link, willPending, retained,
                   gateway, doubtful>>
-----------------------------------------------------------------------------
(* Worker.rollback and the end of a session.                               *)

\* Mutant: the publisher starts while its entities are still replaced.
SayOfflineAndRestore ==
    /\ place = "sayOffline"
    /\ place' = "giveBack"
    /\ SaysAvailability("offline")
    /\ rest' = DOMAIN plan \cup {Mower}
    /\ RestorePublisher
    /\ UNCHANGED <<active, devices, found, plan, files, link, willPending, retained, measured,
                   doubtful>>

SayOffline ==
    /\ place = "sayOffline"
    /\ place' = "giveBack"
    /\ SaysAvailability("offline")
    /\ rest' = DOMAIN plan \cup {Mower}
    /\ UNCHANGED <<active, devices, found, plan, files, link, willPending, retained, gateway,
                   doubtful>>

\* Originals are put back; topics without one are emptied.
GiveBack ==
    /\ place = "giveBack"
    /\ \E topic \in NextTopics :
          /\ Retains(topic, IF topic \in DOMAIN plan THEN plan[topic] ELSE "empty")
          /\ rest' = rest \ {topic}
    /\ place' = IF rest' = {} THEN "handBack" ELSE "giveBack"
    /\ UNCHANGED <<active, devices, found, plan, files, link, willPending, availability,
                   gateway, doubtful>>

HandBack ==
    /\ place = "handBack"
    /\ place' = "close"
    /\ RestorePublisher
    /\ UNCHANGED <<sessionVars, files, brokerVars, measured, doubtful>>

\* The journal goes last; at the start the request goes with it.
Close ==
    /\ place = "close"
    /\ place' = "return"
    /\ journal' = None
    /\ doubtful' = (doubtful \/ unheard)
    /\ UNCHANGED <<sessionVars, action, brokerVars, gateway>>

SessionPlaces == {"prepare", "resume", "undo", "forget", "collect", "recheck", "record",
                  "stop", "confirm", "poll", "loop", "publish", "sayOnline", "sayOffline",
                  "giveBack", "handBack", "close"}

\* Mutant: a session that fails leaves without a word.
LeaveSilently ==
    /\ link' = "none"
    /\ UNCHANGED <<willPending, availability>>

\* "offline" if the worker was active, and a DISCONNECT, which prevents the
\* will; over a broken connection neither arrives.
Leave ==
    /\ link' = "none"
    /\ availability' = IF active /\ link = "open" THEN "offline" ELSE availability
    /\ UNCHANGED willPending

EndSession(next) ==
    /\ place' = next
    /\ active' = FALSE
    /\ devices' = {} /\ found' = NoPlan /\ plan' = NoPlan /\ rest' = {} /\ unheard' = FALSE
    /\ Leave
    /\ UNCHANGED <<journal, retained, gateway, doubtful>>

\* Only the branch at the start clears the request after the rollback.
Return ==
    /\ place = "return"
    /\ EndSession("ended")
    /\ action' = IF active THEN action ELSE None

\* Something fails or has no value; 15 s later everything begins again.
Fail ==
    /\ place \in SessionPlaces
    /\ EndSession("start")
    /\ UNCHANGED action

\* A value is missing, or entities cannot be told apart.
CannotServe ==
    \/ place = "prepare" /\ journal # None /\ ~RollbackFirst
       /\ ~Readable(journal.plan, measured)
    \/ place \in {"collect", "recheck"} /\ ~CanPlan(found, devices)
    \/ PollDue /\ ~Readable(plan, measured)

\* The process is killed, without a word to the broker.
Die ==
    /\ place \in SessionPlaces \cup {"return"}
    /\ place' = "start"
    /\ active' = FALSE
    /\ devices' = {} /\ found' = NoPlan /\ plan' = NoPlan /\ rest' = {} /\ unheard' = FALSE
    /\ link' = "none" /\ willPending' = TRUE
    /\ UNCHANGED <<files, retained, availability, gateway, doubtful>>

\* The app is started again after a rollback.
StartAgain ==
    /\ place = "ended"
    /\ place' = "start"
    /\ UNCHANGED <<sessionVars, files, brokerVars, gateway, doubtful>>
-----------------------------------------------------------------------------
(* The user and the gateway.                                               *)

\* app.py posts a takeover only without a migration, a rollback only with.
PostAction ==
    /\ action = None
    /\ action' = IF journal = None THEN "activate" ELSE "rollback"
    /\ UNCHANGED <<place, sessionVars, journal, brokerVars, gateway, doubtful>>

\* A running publisher announces a sensor, again or for the first time.
PublisherAnnounces ==
    /\ publisher
    /\ \E r \in measured :
          LET e == <<"publisher", r>>
          IN  /\ retained' = [retained EXCEPT ![e] = "publisher"]
              /\ found' = IF place \in {"collect", "recheck"} /\ link = "open"
                          THEN With(found, e, "publisher") ELSE found
    /\ UNCHANGED <<place, active, devices, plan, rest, unheard, files, link, willPending,
                   availability, gateway, doubtful>>

SensorsChange ==
    /\ measured' \in Snapshots
    /\ UNCHANGED <<place, sessionVars, files, brokerVars, publisher, doubtful>>
-----------------------------------------------------------------------------
Init ==
    /\ place = "start" /\ active = FALSE
    /\ devices = {} /\ found = NoPlan /\ plan = NoPlan /\ rest = {} /\ unheard = FALSE
    /\ journal = None /\ action = None
    /\ link = "none" /\ willPending = FALSE
    /\ retained \in [Topic -> {"empty", "publisher"}]
    /\ \A e \in {"device"} \X Resources : retained[e] = "empty"
    /\ retained[Mower] = "empty"
    /\ availability = "offline"
    /\ measured \in Snapshots
    /\ publisher \in BOOLEAN
    /\ doubtful = FALSE

WorkerStep ==
    \/ Connect \/ BeginRollback \/ Continue \/ Preview \/ Resume \/ Undo \/ Forget
    \/ CollectionSettles \/ TakeActivate \/ TakeRollback \/ TakeNothing
    \/ Record \/ StopPublisher \/ Confirm \/ Poll \/ Publish \/ SayOnline
    \/ SayOffline \/ GiveBack \/ HandBack \/ Close \/ Return
    \/ (CannotServe /\ Fail)

Outage == LinkBreaks \/ Die \/ (~CannotServe /\ Fail)

Next ==
    \/ WorkerStep \/ Outage \/ BrokerNotices
    \/ StartAgain \/ PostAction \/ PublisherAnnounces \/ SensorsChange

Spec == Init /\ [][Next]_vars

(* Fairness.  The process runs, every call ends with a result or at its    *)
(* timeout, a broken connection is noticed by the broker and by the        *)
(* worker.                                                                 *)
Fairness ==
    /\ WF_vars(WorkerStep)
    /\ WF_vars(BrokerNotices)
    /\ WF_vars(link = "broken" /\ Fail)

FairSpec == Spec /\ Fairness
-----------------------------------------------------------------------------
TypeOK ==
    /\ place \in SessionPlaces \cup {"start", "return", "ended"}
    /\ active \in BOOLEAN /\ unheard \in BOOLEAN
    /\ devices \subseteq Resources
    /\ found \in Plan /\ plan \in Plan
    /\ rest \subseteq Topic
    /\ journal \in Journal \cup {None}
    /\ action \in {None, "activate", "rollback"}
    /\ link \in {"none", "open", "broken"} /\ willPending \in BOOLEAN
    /\ retained \in [Topic -> Content]
    /\ availability \in {"online", "offline"}
    /\ measured \in Snapshots /\ publisher \in BOOLEAN
    /\ doubtful \in BOOLEAN
-----------------------------------------------------------------------------
\* "Preserve existing MQTT sensor identities" (telemetry.py 1): as long as
\* the broker retains an entity of the worker there is an active migration
\* whose journal knows what was there before, unless the end of an earlier
\* rollback was not heard.
OriginalsKept ==
    doubtful \/ \A topic \in Topic :
        retained[topic] = "worker" =>
            /\ journal # None /\ journal.phase = "active"
            /\ topic # Mower => /\ topic \in DOMAIN journal.plan
                                /\ journal.plan[topic] # "worker"

\* The publisher is started again only when the broker has all of its
\* entities back (test_rollback_restores_discovery_and_previous_service_state).
EntitiesBeforePublisher ==
    [][~publisher /\ publisher' /\ ~unheard /\ ~doubtful =>
          \A e \in DOMAIN journal.plan : retained[e] = journal.plan[e]]_vars

\* Home Assistant is told "online" only when every entity is the worker's.
OnlineWhenPublished ==
    [][availability = "offline" /\ availability' = "online" =>
          \A e \in DOMAIN plan : retained[e] = "worker"]_vars

OutagesCease == <>[][~Outage]_vars

\* "Rollback must work even if sensor parsing ... fails" (worker.py 150): a
\* user who keeps asking gets it, whatever becomes of the sensors.
RollbackWorks ==
    OutagesCease /\ []<>(action = "rollback") => []<>(journal = None)

\* Without a worker in control the entities are shown as unavailable.
OfflineWithoutControl == <>[]~active => <>[](availability = "offline")
=============================================================================
