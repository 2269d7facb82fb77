---------------------------- MODULE EntityProofs ----------------------------
(***************************************************************************)
(* The worker never loses the original of an entity it has overwritten:    *)
(* proofs for any resources and any sets of sensors that come and go.      *)
(*                                                                         *)
(* The invariant follows the originals from the broker's retained entities *)
(* into the collection, the plan and the journal (Recorded), and says what *)
(* the journal and the publisher are at each place of Worker.run.          *)
(***************************************************************************)
EXTENDS EntityTakeover, TLAPS

Serving == {"poll", "loop", "publish", "sayOnline"}
RollingBack == {"sayOffline", "giveBack", "handBack", "close"}

\* The journal holds the plan of this session.
OwnJournal == journal \in Journal /\ journal.plan = plan

\* What the journal is at each place.
Placed ==
    /\ active => place \in Serving \cup RollingBack \cup {"return"}
    /\ active /\ place # "return" => OwnJournal /\ journal.phase = "active"
    /\ place \in Serving \ {"loop"} => active
    /\ place \in {"collect", "recheck", "record"} => journal = None
    /\ place = "loop" /\ ~active => journal = None
    /\ place \in {"stop", "confirm"} => OwnJournal
    /\ place \in {"undo", "forget"} => journal \in Journal /\ journal.phase = "taking_over"
    /\ place = "resume" => OwnJournal /\ journal.phase = "active"
    /\ place \in RollingBack => OwnJournal
    /\ place \in {"publish", "giveBack"} => rest \subseteq DOMAIN plan \cup {Mower}
    /\ place = "sayOnline" => rest = {}
    /\ place = "confirm" \/ (active /\ place \in Serving) => ~publisher

\* What an entity was before the worker came: announced by the publisher
\* under its key, or not there.
Original(e) == IF e[1] = "publisher" THEN "publisher" ELSE "empty"

\* A plan has the originals, and the broker the original or the worker's.
Recorded(p) ==
    \A e \in DOMAIN p : p[e] = Original(e) /\ retained[e] \in {Original(e), "worker"}

Originals ==
    /\ Recorded(found) /\ Recorded(plan)
    /\ journal \in Journal => Recorded(journal.plan)
    /\ \A e \in Entity : retained[e] \in {Original(e), "empty", "worker"}

\* Only an active migration has entities of the worker, all in its plan.
Covered ==
    \A topic \in Topic : retained[topic] = "worker" =>
        /\ journal \in Journal /\ journal.phase = "active"
        /\ topic # Mower => topic \in DOMAIN journal.plan

\* A rollback that was heard leaves only the rest to be given back.
GivenBack ==
    ~unheard =>
        \A topic \in Topic : retained[topic] = "worker" =>
            /\ place = "giveBack" => topic \in rest
            /\ place \notin {"handBack", "close"}

\* What a round of publication has sent is retained, if the connection held.
Published ==
    place \in {"publish", "sayOnline"} /\ link = "open" =>
        \A e \in DOMAIN plan \ rest : retained[e] = "worker"

Inv ==
    /\ TypeOK
    /\ Placed
    /\ Published
    /\ doubtful \/ (Originals /\ Covered /\ GivenBack)
-----------------------------------------------------------------------------
LEMMA PlanType ==
    /\ \A p \in Plan : DOMAIN p \subseteq Entity /\ p \in [DOMAIN p -> Content]
    /\ \A E \in SUBSET Entity : \A p \in [E -> Content] : p \in Plan
    /\ NoPlan \in Plan /\ DOMAIN NoPlan = {}
BY DEF Plan, NoPlan

LEMMA CollectedType ==
    ASSUME retained \in [Topic -> Content]
    PROVE  /\ Collected(retained) \in Plan
           /\ \A e \in DOMAIN Collected(retained) :
                 e \in Entity /\ Collected(retained)[e] = retained[e] /\ retained[e] # "empty"
<1>1. Entity \subseteq Topic
  BY DEF Topic
<1>2. Collected(retained) \in [{e \in Entity : retained[e] # "empty"} -> Content]
  BY <1>1 DEF Collected
<1>3. QED
  BY <1>1, <1>2, PlanType DEF Collected

\* A collection becomes a plan of what was found, or of nothing.
LEMMA SettledType ==
    ASSUME TypeOK, CollectionSettles
    PROVE  /\ plan' \in Plan
           /\ \A e \in DOMAIN plan' :
                 \/ e \in Entity /\ e[1] = "device" /\ plan'[e] = "empty"
                 \/ e \in DOMAIN found /\ plan'[e] = found[e]
<1>1. PICK seen \in SUBSET DOMAIN found : plan' = Planned([e \in seen |-> found[e]], devices)
  BY DEF CollectionSettles
<1>2. found \in [DOMAIN found -> Content] /\ DOMAIN found \subseteq Entity
  BY PlanType DEF TypeOK
<1>3. [e \in seen |-> found[e]] \in [seen -> Content] /\ seen \in SUBSET Entity
  BY <1>2
<1>4. [e \in {"device"} \X devices |-> "empty"] \in [{"device"} \X devices -> Content]
  BY DEF Content
<1>5. {"device"} \X devices \in SUBSET Entity
  BY DEF TypeOK, Entity, Keys
<1>6. CASE [e \in seen |-> found[e]] = NoPlan
  <2>1. plan' = [e \in {"device"} \X devices |-> "empty"]
    BY <1>1, <1>6 DEF Planned
  <2>2. QED
    BY <1>4, <1>5, <2>1, PlanType
<1>7. CASE [e \in seen |-> found[e]] # NoPlan
  <2>1. plan' = [e \in seen |-> found[e]]
    BY <1>1, <1>7 DEF Planned
  <2>2. QED
    BY <1>3, <2>1, PlanType
<1>8. QED
  BY <1>6, <1>7

LEMMA WithType ==
    ASSUME NEW p \in Plan, NEW e \in Entity, NEW content \in Content
    PROVE  /\ With(p, e, content) \in Plan
           /\ \A d \in DOMAIN With(p, e, content) :
                 With(p, e, content)[d] = content
                 \/ (d \in DOMAIN p /\ With(p, e, content)[d] = p[d])
<1>1. p \in [DOMAIN p -> Content] /\ DOMAIN p \cup {e} \in SUBSET Entity
  BY PlanType
<1>2. With(p, e, content) \in [DOMAIN p \cup {e} -> Content]
  BY <1>1 DEF With
<1>3. QED
  BY <1>1, <1>2, PlanType DEF With
-----------------------------------------------------------------------------
(* Types.                                                                  *)

LEMMA SessionEndTypes ==
    ASSUME TypeOK, NEW next \in {"start", "ended"}, EndSession(next),
           action' \in {None, "activate", "rollback"}
    PROVE  TypeOK'
BY PlanType DEF EndSession, Leave, TypeOK, gateway

LEMMA TypeStep ==
    ASSUME TypeOK, Placed, [Next]_vars
    PROVE  TypeOK'
<1> USE DEF TypeOK, sessionVars, files, brokerVars, gateway
<1>1. CASE Connect \/ Resume \/ Forget \/ TakeRollback \/ TakeNothing \/ StopPublisher
           \/ SayOnline \/ Close
  <2>1. CASE Connect \/ Resume \/ Forget
    BY ZenonT(30), <2>1 DEF Connect, Resume, Forget, SessionPlaces
  <2>2. CASE TakeRollback \/ TakeNothing \/ StopPublisher
    BY ZenonT(30), <2>2 DEF TakeRollback, TakeNothing, StopPublisher, SessionPlaces
  <2>3. CASE SayOnline
    BY <2>3 DEF SayOnline, SaysAvailability, SessionPlaces
  <2>4. CASE Close
    <3>1. doubtful' \in BOOLEAN
      BY <2>4 DEF Close
    <3>2. QED
      BY <2>4, <3>1 DEF Close, SessionPlaces
  <2>5. QED
    BY <1>1, <2>1, <2>2, <2>3, <2>4
<1>2. CASE BeginRollback \/ Continue
  BY <1>2 DEF BeginRollback, Continue, RollbackFirst, Journal, SessionPlaces
<1>3. CASE Preview \/ TakeActivate
  BY <1>3, CollectedType, TakeoverAssumption DEF Preview, TakeActivate, SessionPlaces
<1>4. CASE Undo \/ HandBack
  <2>1. journal \in Journal /\ journal.previous \in BOOLEAN
    BY <1>4 DEF Undo, HandBack, Placed, RollingBack, OwnJournal, Journal
  <2>2. publisher' \in BOOLEAN
    BY <1>4, <2>1 DEF Undo, HandBack, RestorePublisher
  <2>3. QED
    BY <1>4, <2>2 DEF Undo, HandBack, SessionPlaces
<1>5. CASE CollectionSettles
  <2>1. plan' \in Plan /\ NoPlan \in Plan
    BY <1>5, SettledType, PlanType
  <2>2. QED
    BY <1>5, <2>1 DEF CollectionSettles, SessionPlaces
<1>6. CASE Record
  <2>1. journal' \in Journal
    BY <1>6 DEF Record, Journal
  <2>2. QED
    BY <1>6, <2>1 DEF Record, SessionPlaces
<1>7. CASE Confirm
  <2>1. journal \in Journal
    BY <1>7 DEF Confirm, Placed, OwnJournal
  <2>2. journal' \in Journal
    BY <1>7, <2>1 DEF Confirm, Journal
  <2>3. QED
    BY <1>7, <2>2 DEF Confirm, SessionPlaces
<1>8. CASE Poll \/ SayOffline
  <2>1. DOMAIN plan \cup {Mower} \subseteq Topic
    BY PlanType DEF Topic
  <2>2. CASE Poll
    <3>1. rest' \subseteq Topic
      BY <2>1, <2>2 DEF Poll
    <3>2. place' \in SessionPlaces
      BY <2>2 DEF Poll, SessionPlaces
    <3>3. QED
      BY <2>2, <3>1, <3>2 DEF Poll
  <2>3. CASE SayOffline
    <3>1. availability' \in {"online", "offline"} /\ unheard' \in BOOLEAN
      BY <2>3 DEF SayOffline, SaysAvailability
    <3>2. QED
      BY <2>1, <2>3, <3>1 DEF SayOffline, SessionPlaces
  <2>4. QED
    BY <1>8, <2>2, <2>3
<1>9. CASE Publish \/ GiveBack
  <2>1. ASSUME NEW topic \in NextTopics, NEW content \in Content, Retains(topic, content),
               rest' = rest \ {topic}
        PROVE  /\ retained' \in [Topic -> Content] /\ unheard' \in BOOLEAN
               /\ rest' \subseteq Topic
    BY <2>1 DEF Retains, NextTopics
  <2>2. CASE Publish
    BY <2>1, <2>2 DEF Publish, SessionPlaces, Content
  <2>3. CASE GiveBack
    <3>1. \A topic \in NextTopics :
             (IF topic \in DOMAIN plan THEN plan[topic] ELSE "empty") \in Content
      BY PlanType DEF Content
    <3>2. QED
      BY <2>1, <2>3, <3>1 DEF GiveBack, SessionPlaces
  <2>4. QED
    BY <1>9, <2>2, <2>3
<1>10. CASE Return \/ Fail
  BY <1>10, SessionEndTypes DEF Return, Fail
<1>11. CASE Die
  BY <1>11, PlanType DEF Die
<1>12. CASE LinkBreaks \/ BrokerNotices \/ StartAgain
  BY ZenonT(30), <1>12 DEF LinkBreaks, BrokerNotices, StartAgain
<1>13. CASE PostAction
  BY <1>13 DEF PostAction
<1>14. CASE PublisherAnnounces
  <2>1. PICK r \in measured :
           /\ retained' = [retained EXCEPT ![<<"publisher", r>>] = "publisher"]
           /\ found' = IF place \in {"collect", "recheck"} /\ link = "open"
                       THEN With(found, <<"publisher", r>>, "publisher") ELSE found
    BY <1>14 DEF PublisherAnnounces
  <2>2. <<"publisher", r>> \in Entity
    BY TakeoverAssumption DEF Entity, Keys
  <2>3. found' \in Plan
    BY <2>1, <2>2, WithType DEF Content
  <2>4. QED
    BY ZenonT(30), <1>14, <2>1, <2>3 DEF PublisherAnnounces, Content
<1>15. CASE SensorsChange \/ UNCHANGED vars
  BY <1>15 DEF SensorsChange, vars
<1>16. QED
  BY <1>1, <1>2, <1>3, <1>4, <1>5, <1>6, <1>7, <1>8, <1>9, <1>10, <1>11, <1>12, <1>13, <1>14,
     <1>15 DEF Next, WorkerStep, Outage
-----------------------------------------------------------------------------
(* Where Worker.run is and what the journal holds.                         *)

LEMMA PlacedStep ==
    ASSUME TypeOK, Placed, [Next]_vars
    PROVE  Placed'
<1> USE DEF Placed, OwnJournal, Serving, RollingBack, gateway
<1>0. None \notin Journal /\ journal \in Journal \cup {None}
  BY TakeoverAssumption DEF TypeOK
<1>1. CASE Connect \/ Preview \/ StartAgain
  BY <1>1 DEF Connect, Preview, StartAgain, sessionVars, files
<1>2. CASE BeginRollback \/ Continue
  <2>1. journal \in Journal /\ journal.phase \in {"taking_over", "active"}
    BY <1>0, <1>2 DEF BeginRollback, Continue, RollbackFirst, Journal
  <2>2. QED
    BY <1>2, <2>1 DEF BeginRollback, Continue, files
<1>3. CASE Resume \/ Undo \/ Forget
  BY <1>3 DEF Resume, Undo, Forget, sessionVars, files
<1>4. CASE CollectionSettles \/ TakeActivate \/ TakeNothing
  BY <1>4 DEF CollectionSettles, TakeActivate, TakeNothing, sessionVars, files
<1>5. CASE TakeRollback
  <2>1. active /\ place = "loop"
    BY <1>5 DEF TakeRollback
  <2>2. QED
    BY <1>5, <2>1 DEF TakeRollback, sessionVars
<1>6. CASE Record
  <2>1. journal' \in Journal /\ journal'.plan = plan
    BY <1>6 DEF Record, Journal, TypeOK
  <2>2. QED
    BY <1>6, <2>1 DEF Record, sessionVars
<1>7. CASE StopPublisher
  BY <1>7 DEF StopPublisher, sessionVars, files
<1>8. CASE Confirm
  <2>1. journal \in Journal /\ journal.plan = plan
    BY <1>8 DEF Confirm
  <2>2. journal' \in Journal /\ journal'.plan = plan /\ journal'.phase = "active"
    BY <1>8, <2>1 DEF Confirm, Journal
  <2>3. QED
    BY <1>8, <2>2 DEF Confirm
<1>9. CASE Poll
  BY <1>9 DEF Poll, PollDue, files
<1>10. CASE Publish
  <2>1. /\ rest' \subseteq rest /\ place = "publish"
        /\ place' = "publish" \/ (place' = "sayOnline" /\ rest' = {})
    BY <1>10 DEF Publish
  <2>2. UNCHANGED <<active, plan, journal, publisher>>
    BY <1>10 DEF Publish, files
  <2>3. QED
    BY <2>1, <2>2
<1>11. CASE SayOnline \/ HandBack
  BY <1>11 DEF SayOnline, HandBack, sessionVars, files
<1>12. CASE SayOffline \/ GiveBack
  <2>1. /\ place \in RollingBack /\ place' \in RollingBack
        /\ UNCHANGED <<active, plan, journal>>
        /\ place' = "giveBack" =>
              rest' = DOMAIN plan \cup {Mower} \/ (place = "giveBack" /\ rest' \subseteq rest)
    BY <1>12 DEF SayOffline, GiveBack, files
  <2>2. QED
    BY <2>1
<1>13. CASE Close
  BY <1>13 DEF Close, sessionVars
<1>14. CASE Return \/ Fail \/ Die
  BY <1>14 DEF Return, Fail, Die, EndSession
<1>15. CASE \/ LinkBreaks \/ BrokerNotices \/ PostAction \/ PublisherAnnounces \/ SensorsChange
            \/ UNCHANGED vars
  BY <1>15 DEF LinkBreaks, BrokerNotices, PostAction, PublisherAnnounces, SensorsChange, vars,
     sessionVars, files
<1>16. QED
  BY <1>1, <1>2, <1>3, <1>4, <1>5, <1>6, <1>7, <1>8, <1>9, <1>10, <1>11, <1>12, <1>13, <1>14,
     <1>15 DEF Next, WorkerStep, Outage
-----------------------------------------------------------------------------
(* What is retained and what is on record.                                 *)

Kept == Originals /\ Covered /\ GivenBack

\* Away from the end of a rollback nothing is to be shown of a step that
\* leaves plans and entities alone.
LEMMA KeptAside ==
    ASSUME Kept, UNCHANGED <<found, plan, journal, retained>>,
           place' \notin {"giveBack", "handBack", "close"}
    PROVE  Kept'
BY DEF Kept, Originals, Recorded, Covered, GivenBack

\* Without an active migration nothing of the worker is retained.
LEMMA NothingRetained ==
    ASSUME Covered, journal = None \/ (journal \in Journal /\ journal.phase = "taking_over")
    PROVE  \A topic \in Topic : retained[topic] # "worker"
BY TakeoverAssumption DEF Covered

LEMMA CollectKeeps ==
    ASSUME TypeOK, Placed, Kept, Preview \/ TakeActivate \/ CollectionSettles \/ Record
    PROVE  Kept'
<1> USE DEF Kept
<1>1. journal = None
  BY DEF Placed, Preview, TakeActivate, CollectionSettles, Record, Serving
<1>2. \A topic \in Topic : retained[topic] # "worker"
  BY <1>1, NothingRetained
<1>3. retained' = retained /\ place' \notin {"giveBack", "handBack", "close"}
  BY DEF Preview, TakeActivate, CollectionSettles, Record, brokerVars
<1>4. Covered' /\ GivenBack'
  BY <1>2, <1>3 DEF Covered, GivenBack
<1>5. CASE Preview \/ TakeActivate
  <2>1. found' = Collected(retained) /\ plan' = plan /\ journal' = journal
    BY <1>5 DEF Preview, TakeActivate, files
  <2>2. Recorded(found)'
    BY <1>2, <1>3, <2>1, CollectedType DEF TypeOK, Recorded, Originals, Topic
  <2>3. QED
    BY <1>3, <1>4, <2>1, <2>2 DEF Originals, Recorded
<1>6. CASE CollectionSettles
  <2>1. found' = NoPlan /\ journal' = journal
    BY <1>6 DEF CollectionSettles, files
  <2>2. Recorded(plan)'
    BY <1>3, <1>6, SettledType DEF Originals, Recorded, Original
  <2>3. QED
    BY <1>3, <1>4, <2>1, <2>2, PlanType DEF Originals, Recorded
<1>7. CASE Record
  <2>1. found' = found /\ plan' = plan /\ journal'.plan = plan
    BY <1>7 DEF Record, sessionVars
  <2>2. QED
    BY <1>3, <1>4, <2>1 DEF Originals, Recorded
<1>8. QED
  BY <1>5, <1>6, <1>7

LEMMA PublishKeeps ==
    ASSUME TypeOK, Placed, Kept, Publish
    PROVE  Kept'
<1> USE DEF Kept
<1>1. PICK topic \in NextTopics : Retains(topic, "worker")
  BY DEF Publish
<1>2. /\ UNCHANGED <<found, plan, journal>>
      /\ place = "publish" /\ place' \notin {"giveBack", "handBack", "close"}
  BY DEF Publish, files
<1>3. topic \in rest /\ topic \in Topic
  BY DEF NextTopics, TypeOK
<1>4. journal \in Journal /\ journal.plan = plan /\ journal.phase = "active"
  BY <1>2 DEF Placed, OwnJournal, Serving
<1>5. topic # Mower => topic \in DOMAIN journal.plan
  BY <1>2, <1>3, <1>4 DEF Placed
<1>6. \A d \in Topic : d # topic => retained'[d] = retained[d]
  BY <1>1 DEF Retains, TypeOK
<1>7. Covered'
  BY <1>2, <1>4, <1>5, <1>6 DEF Covered
<1>8. \A e \in Entity : retained'[e] = "worker" \/ retained'[e] = retained[e]
  BY <1>1, <1>3 DEF Retains, TypeOK, Topic
<1>9. DOMAIN found \subseteq Entity /\ DOMAIN plan \subseteq Entity
  BY PlanType DEF TypeOK
<1>10. Originals'
  BY <1>2, <1>4, <1>8, <1>9 DEF Originals, Recorded
<1>11. QED
  BY <1>2, <1>7, <1>10 DEF GivenBack

LEMMA RollbackKeeps ==
    ASSUME TypeOK, Placed, Kept, SayOffline \/ GiveBack \/ HandBack \/ Close
    PROVE  doubtful' \/ Kept'
<1> USE DEF Kept
<1>1. journal \in Journal /\ journal.plan = plan
  BY DEF Placed, OwnJournal, RollingBack, SayOffline, GiveBack, HandBack, Close
<1>2. found' = found /\ plan' = plan
  BY DEF SayOffline, GiveBack, HandBack, Close, sessionVars
<1>3. CASE SayOffline
  <2>1. UNCHANGED <<journal, retained>> /\ place' = "giveBack"
        /\ rest' = DOMAIN plan \cup {Mower}
    BY <1>3 DEF SayOffline, files
  <2>2. GivenBack'
    BY <1>1, <2>1 DEF Covered, GivenBack
  <2>3. QED
    BY <1>2, <2>1, <2>2 DEF Originals, Recorded, Covered
<1>4. CASE GiveBack
  <2>1. PICK topic \in NextTopics :
           /\ Retains(topic, IF topic \in DOMAIN plan THEN plan[topic] ELSE "empty")
           /\ rest' = rest \ {topic}
    BY <1>4 DEF GiveBack
  <2>2. /\ journal' = journal /\ place = "giveBack"
        /\ place' = IF rest' = {} THEN "handBack" ELSE "giveBack"
    BY <1>4 DEF GiveBack, files
  <2>3. topic \in Topic /\ topic \in DOMAIN plan \cup {Mower} /\ DOMAIN plan \subseteq Entity
    BY <2>2, PlanType DEF NextTopics, TypeOK, Placed
  <2>4. IF topic \in DOMAIN plan
        THEN plan[topic] = Original(topic) ELSE topic = Mower
    BY <2>3 DEF Originals, Recorded
  <2>5. \/ unheard' /\ retained' = retained
        \/ /\ unheard' = unheard /\ retained'[topic] # "worker"
           /\ topic \in Entity => retained'[topic] = Original(topic)
           /\ \A d \in Topic : d # topic => retained'[d] = retained[d]
    BY <2>1, <2>3, <2>4, TakeoverAssumption DEF Retains, TypeOK, Original
  <2>6. \A d \in Topic : retained'[d] = "worker" => retained[d] = "worker"
    BY <2>5
  <2>7. GivenBack'
    BY <2>1, <2>2, <2>5 DEF GivenBack
  <2>8. Covered'
    BY <2>2, <2>6 DEF Covered
  <2>9. \A e \in Entity : retained'[e] = retained[e] \/ retained'[e] = Original(e)
    BY <2>5 DEF Topic
  <2>10. DOMAIN found \subseteq Entity /\ DOMAIN plan \subseteq Entity
    BY PlanType DEF TypeOK
  <2>11. Originals'
    BY <1>1, <1>2, <2>2, <2>9, <2>10 DEF Originals, Recorded
  <2>12. QED
    BY <2>7, <2>8, <2>11
<1>5. CASE HandBack
  <2>1. UNCHANGED <<journal, retained, unheard>> /\ place = "handBack" /\ place' = "close"
    BY <1>5 DEF HandBack, sessionVars, files, brokerVars
  <2>2. QED
    BY <1>2, <2>1 DEF Originals, Recorded, Covered, GivenBack
<1>6. CASE Close
  <2>1. /\ retained' = retained /\ place = "close" /\ place' = "return"
        /\ journal' = None /\ doubtful' = (doubtful \/ unheard)
    BY <1>6 DEF Close, brokerVars
  <2>2. CASE unheard
    BY <2>1, <2>2
  <2>3. CASE ~unheard
    <3>1. \A topic \in Topic : retained'[topic] # "worker"
      BY <2>1, <2>3 DEF GivenBack
    <3>2. QED
      BY <1>2, <2>1, <3>1, TakeoverAssumption DEF Originals, Recorded, Covered, GivenBack
  <2>4. QED
    BY <2>2, <2>3
<1>7. QED
  BY <1>3, <1>4, <1>5, <1>6

LEMMA KeptStep ==
    ASSUME TypeOK, Placed, Kept, [Next]_vars
    PROVE  doubtful' \/ Kept'
<1>1. CASE \/ Connect \/ Resume \/ Undo \/ TakeRollback \/ TakeNothing \/ StopPublisher
           \/ Poll \/ SayOnline \/ StartAgain
  <2>1. UNCHANGED <<found, plan, journal, retained>>
    BY <1>1 DEF Connect, Resume, Undo, TakeRollback, TakeNothing, StopPublisher, Poll, SayOnline,
       StartAgain, sessionVars, files, brokerVars
  <2>2. place' \notin {"giveBack", "handBack", "close"}
    BY <1>1 DEF Connect, Resume, Undo, TakeRollback, TakeNothing, StopPublisher, Poll, SayOnline,
       StartAgain
  <2>3. QED
    BY <2>1, <2>2, KeptAside
<1>2. CASE LinkBreaks \/ BrokerNotices \/ PostAction \/ SensorsChange \/ UNCHANGED vars
  <2>1. UNCHANGED <<found, plan, journal, retained, place, rest, unheard>>
    BY <1>2 DEF LinkBreaks, BrokerNotices, PostAction, SensorsChange, vars, sessionVars, files,
       brokerVars
  <2>2. QED
    BY <2>1 DEF Kept, Originals, Recorded, Covered, GivenBack
<1>3. CASE Return \/ Fail \/ Die
  <2>1. /\ found' = NoPlan /\ plan' = NoPlan /\ UNCHANGED <<journal, retained>>
        /\ place' \in {"start", "ended"}
    BY <1>3 DEF Return, Fail, Die, EndSession, files
  <2>2. QED
    BY <2>1, PlanType DEF Kept, Originals, Recorded, Covered, GivenBack
<1>4. CASE BeginRollback \/ Continue
  <2>1. /\ journal \in Journal /\ plan' = journal.plan
        /\ UNCHANGED <<found, journal, retained>>
        /\ place' \notin {"giveBack", "handBack", "close"}
    BY <1>4 DEF BeginRollback, Continue, RollbackFirst, TypeOK, files, brokerVars
  <2>2. QED
    BY <2>1 DEF Kept, Originals, Recorded, Covered, GivenBack
<1>5. CASE Confirm
  <2>1. journal \in Journal /\ UNCHANGED <<found, plan, retained>> /\ place' = "poll"
    BY <1>5 DEF Confirm, Placed, OwnJournal, brokerVars
  <2>2. journal' \in Journal /\ journal'.phase = "active" /\ journal'.plan = journal.plan
    BY <1>5, <2>1 DEF Confirm, Journal
  <2>3. QED
    BY <2>1, <2>2 DEF Kept, Originals, Recorded, Covered, GivenBack
<1>6. CASE Forget
  <2>1. \A topic \in Topic : retained[topic] # "worker"
    BY <1>6, NothingRetained DEF Forget, Placed, Kept
  <2>2. /\ journal' = None /\ place' = "loop" /\ UNCHANGED <<found, plan, retained>>
    BY <1>6 DEF Forget, sessionVars, brokerVars
  <2>3. QED
    BY <2>1, <2>2, TakeoverAssumption DEF Kept, Originals, Recorded, Covered, GivenBack
<1>7. CASE PublisherAnnounces
  <2>1. PICK r \in measured :
           /\ retained' = [retained EXCEPT ![<<"publisher", r>>] = "publisher"]
           /\ found' = IF place \in {"collect", "recheck"} /\ link = "open"
                       THEN With(found, <<"publisher", r>>, "publisher") ELSE found
    BY <1>7 DEF PublisherAnnounces
  <2>2. UNCHANGED <<plan, journal, place, rest, unheard>>
    BY <1>7 DEF PublisherAnnounces, files
  <2>3. <<"publisher", r>> \in Entity
    BY TakeoverAssumption DEF Entity, Keys, TypeOK
  <2>4. \A topic \in Topic : retained'[topic] = "worker" => retained[topic] = "worker"
    BY <2>1 DEF TypeOK
  <2>5. \A e \in Entity : retained'[e] = retained[e] \/ retained'[e] = Original(e)
    BY <2>1 DEF TypeOK, Topic, Original
  <2>6. retained'[<<"publisher", r>>] = Original(<<"publisher", r>>)
    BY <2>1, <2>3 DEF TypeOK, Topic, Original
  <2>7. DOMAIN found \subseteq Entity /\ DOMAIN plan \subseteq Entity
    BY PlanType DEF TypeOK
  <2>8. Recorded(found)'
    <3>1. CASE found' = found
      BY <2>5, <2>7, <3>1 DEF Recorded, Kept, Originals
    <3>2. CASE found' = With(found, <<"publisher", r>>, "publisher")
      BY <2>5, <2>6, <2>7, <3>2 DEF Recorded, Kept, Originals, With, Original
    <3>3. QED
      BY <2>1, <3>1, <3>2
  <2>9. journal \in Journal => DOMAIN journal.plan \subseteq Entity
    BY PlanType DEF Journal
  <2>10. Originals'
    BY <2>2, <2>5, <2>7, <2>8, <2>9 DEF Kept, Originals, Recorded
  <2>11. QED
    BY <2>2, <2>4, <2>10 DEF Kept, Covered, GivenBack
<1>8. QED
  BY <1>1, <1>2, <1>3, <1>4, <1>5, <1>6, <1>7, CollectKeeps, PublishKeeps, RollbackKeeps
     DEF Next, WorkerStep, Outage
-----------------------------------------------------------------------------
LEMMA PublishedStep ==
    ASSUME TypeOK, Placed, Published, [Next]_vars
    PROVE  Published'
<1>1. CASE Poll
  BY <1>1 DEF Poll, Published
<1>2. CASE Publish
  <2>1. PICK topic \in NextTopics : Retains(topic, "worker") /\ rest' = rest \ {topic}
    BY <1>2 DEF Publish
  <2>2. place = "publish" /\ UNCHANGED <<plan, link>>
    BY <1>2 DEF Publish
  <2>3. DOMAIN plan \subseteq Topic
    BY PlanType DEF TypeOK, Topic
  <2>4. QED
    BY <2>1, <2>2, <2>3 DEF Published, Retains, TypeOK
<1>3. CASE PublisherAnnounces
  <2>1. publisher /\ UNCHANGED <<place, active>>
    BY <1>3 DEF PublisherAnnounces
  <2>2. place' \notin {"publish", "sayOnline"}
    BY <2>1 DEF Placed, Serving
  <2>3. QED
    BY <2>2 DEF Published
<1>4. CASE LinkBreaks \/ BrokerNotices \/ PostAction \/ SensorsChange \/ UNCHANGED vars
  BY <1>4 DEF LinkBreaks, BrokerNotices, PostAction, SensorsChange, vars, sessionVars, brokerVars,
     Published
<1>5. CASE \/ Connect \/ BeginRollback \/ Continue \/ Preview \/ Resume \/ Undo \/ Forget
           \/ CollectionSettles \/ TakeActivate \/ TakeRollback \/ TakeNothing \/ Record
           \/ StopPublisher \/ Confirm \/ SayOnline \/ SayOffline \/ GiveBack \/ HandBack
           \/ Close \/ Return \/ Fail \/ Die \/ StartAgain
  <2>1. place' \notin {"publish", "sayOnline"}
    BY <1>5 DEF Connect, BeginRollback, Continue, Preview, Resume, Undo, Forget,
       CollectionSettles, TakeActivate, TakeRollback, TakeNothing, Record, StopPublisher,
       Confirm, SayOnline, SayOffline, GiveBack, HandBack, Close, Return, EndSession, Fail, Die,
       StartAgain
  <2>2. QED
    BY <2>1 DEF Published
<1>6. QED
  BY <1>1, <1>2, <1>3, <1>4, <1>5 DEF Next, WorkerStep, Outage

LEMMA InitInv == Init => Inv
<1> SUFFICES ASSUME Init PROVE Inv
  OBVIOUS
<1>1. TypeOK
  BY PlanType DEF Init, TypeOK, Content
<1>2. Placed /\ Published
  BY DEF Init, Placed, Published, Serving, RollingBack
<1>3. \A topic \in Topic : retained[topic] # "worker"
  BY DEF Init
<1>4. Covered /\ GivenBack
  BY <1>3 DEF Covered, GivenBack
<1>5. \A e \in Entity : retained[e] \in {Original(e), "empty", "worker"}
  BY DEF Init, Original, Topic, Entity, Keys
<1>6. Originals
  BY <1>5, PlanType, TakeoverAssumption DEF Init, Originals, Recorded
<1>7. QED
  BY <1>1, <1>2, <1>4, <1>6 DEF Inv

\* The invariant holds through broken connections, late wills, sensors that
\* come and go, and a worker that fails or dies anywhere.
THEOREM InvHolds == Spec => []Inv
<1>1. Inv /\ [Next]_vars => Inv'
  <2> SUFFICES ASSUME Inv, [Next]_vars PROVE Inv'
    OBVIOUS
  <2>1. TypeOK' /\ Placed' /\ Published'
    BY TypeStep, PlacedStep, PublishedStep DEF Inv
  <2>2. doubtful' \/ Kept'
    <3>1. CASE doubtful
      <4>1. doubtful'
        BY <3>1 DEF Next, WorkerStep, Outage, Connect, BeginRollback, Continue, Preview, Resume,
           Undo, Forget, CollectionSettles, TakeActivate, TakeRollback, TakeNothing, Record,
           StopPublisher, Confirm, Poll, Publish, SayOnline, SayOffline, GiveBack, HandBack,
           Close, Return, EndSession, Fail, Die, LinkBreaks, BrokerNotices, StartAgain,
           PostAction, PublisherAnnounces, SensorsChange, vars
      <4>2. QED
        BY <4>1
    <3>2. CASE ~doubtful
      BY <3>2, KeptStep DEF Inv, Kept
    <3>3. QED
      BY <3>1, <3>2
  <2>3. QED
    BY <2>1, <2>2 DEF Inv, Kept
<1>2. QED
  BY <1>1, InitInv, PTL DEF Spec

\* Every variable of the takeover keeps a value of its type; a plan never
\* has a record that is not one of telemetry.py.
THEOREM TypeCorrect == Spec => []TypeOK
<1>1. Inv => TypeOK
  BY DEF Inv
<1>2. QED
  BY <1>1, InvHolds, PTL

\* "Preserve existing MQTT sensor identities" (telemetry.py 1): unless the
\* end of a rollback was not heard, an entity of the worker is retained only
\* while the journal of an active migration has its original.
THEOREM OriginalsKeptHolds == Spec => []OriginalsKept
<1>1. Inv => OriginalsKept
  <2> SUFFICES ASSUME Inv, ~doubtful, NEW topic \in Topic, retained[topic] = "worker"
               PROVE  /\ journal # None /\ journal.phase = "active"
                      /\ topic # Mower => /\ topic \in DOMAIN journal.plan
                                          /\ journal.plan[topic] # "worker"
    BY DEF OriginalsKept
  <2>1. journal \in Journal /\ journal.phase = "active"
    BY DEF Inv, Covered
  <2>2. topic # Mower => topic \in DOMAIN journal.plan
    BY DEF Inv, Covered
  <2>3. \A e \in DOMAIN journal.plan : journal.plan[e] # "worker"
    BY <2>1 DEF Inv, Originals, Recorded, Original
  <2>4. QED
    BY <2>1, <2>2, <2>3, TakeoverAssumption
<1>2. QED
  BY <1>1, InvHolds, PTL

\* worker.py restores the publisher (undo of a takeover, rollback) only when
\* the broker has every entity as it was found, unless something that the
\* rollback said was lost.
THEOREM EntitiesBeforePublisherHolds == Spec => EntitiesBeforePublisher
<1>1. ASSUME Inv, [Next]_vars, ~publisher, publisher', ~unheard, ~doubtful
      PROVE  \A e \in DOMAIN journal.plan : retained[e] = journal.plan[e]
  <2>1. Undo \/ HandBack
    BY <1>1 DEF Next, WorkerStep, Outage, Connect, BeginRollback, Continue, Preview, Resume,
       Forget, CollectionSettles, TakeActivate, TakeRollback, TakeNothing, Record,
       StopPublisher, Confirm, Poll, Publish, SayOnline, SayOffline, GiveBack,
       Close, Return, EndSession, Fail, Die, LinkBreaks, BrokerNotices, StartAgain,
       PostAction, PublisherAnnounces, SensorsChange, vars, gateway
  <2>2. journal \in Journal
    BY <1>1, <2>1 DEF Inv, Placed, Undo, HandBack, RollingBack, OwnJournal
  <2>3. \A topic \in Topic : retained[topic] # "worker"
    <3>1. CASE Undo
      BY <1>1, <3>1, NothingRetained DEF Inv, Placed, Undo
    <3>2. CASE HandBack
      BY <1>1, <3>2 DEF Inv, GivenBack, HandBack
    <3>3. QED
      BY <2>1, <3>1, <3>2
  <2>4. DOMAIN journal.plan \subseteq Topic
    BY <2>2, PlanType DEF Journal, Topic
  <2>5. QED
    BY <1>1, <2>2, <2>3, <2>4 DEF Inv, Originals, Recorded
<1>2. Inv /\ [Next]_vars =>
        [~publisher /\ publisher' /\ ~unheard /\ ~doubtful =>
            \A e \in DOMAIN journal.plan : retained[e] = journal.plan[e]]_vars
  BY <1>1
<1>3. QED
  BY <1>2, InvHolds, PTL DEF Spec, EntitiesBeforePublisher

\* worker.py says "online" only after a whole round of publication that the
\* broker has got: every entity of the plan is the worker's then.
THEOREM OnlineWhenPublishedHolds == Spec => OnlineWhenPublished
<1>1. ASSUME Inv, [Next]_vars, availability = "offline", availability' = "online"
      PROVE  \A e \in DOMAIN plan : retained[e] = "worker"
  <2>1. SayOnline
    BY <1>1 DEF Next, WorkerStep, Outage, Connect, BeginRollback, Continue, Preview, Resume,
       Undo, Forget, CollectionSettles, TakeActivate, TakeRollback, TakeNothing, Record,
       StopPublisher, Confirm, Poll, Publish, SayOffline, GiveBack, HandBack, SaysAvailability,
       Close, Return, EndSession, Leave, Fail, Die, LinkBreaks, BrokerNotices, StartAgain,
       PostAction, PublisherAnnounces, SensorsChange, vars, brokerVars
  <2>2. place = "sayOnline" /\ link = "open"
    BY <1>1, <2>1 DEF SayOnline, SaysAvailability
  <2>3. QED
    BY <1>1, <2>2 DEF Inv, Placed, Published
<1>2. Inv /\ [Next]_vars =>
        [availability = "offline" /\ availability' = "online" =>
            \A e \in DOMAIN plan : retained[e] = "worker"]_vars
  BY <1>1
<1>3. QED
  BY <1>2, InvHolds, PTL DEF Spec, OnlineWhenPublished
=============================================================================
