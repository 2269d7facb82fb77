----------------------------- MODULE WorkerLoop -----------------------------
(***************************************************************************)
(* The command loop of the worker (worker.py 178-239) between the broker   *)
(* and the WebSocket API of the gateway (protocol.py).                     *)
(*                                                                         *)
(* A session connects to the broker, opens the gateway, and asks both of   *)
(* its services for their devices.  Then one thread polls sensors, waits   *)
(* for either connection, handles one MQTT packet and one WebSocket frame, *)
(* gives up on old commands, and keeps the MQTT connection alive.  Every   *)
(* call of it may block, up to a limit; the broker drops a client that     *)
(* sent nothing for one and a half keep-alive periods, and the client      *)
(* learns that when it reads.  Time is counted in steps of any length.  A  *)
(* send takes no time of its own: what the loop sends fits into the buffer *)
(* of its socket.                                                          *)
(*                                                                         *)
(* What a takeover does to entities and services is in EntityTakeover and  *)
(* Handover.  There is one mower, as a takeover demands.                   *)
(***************************************************************************)
EXTENDS Integers, Sequences, FiniteSets

CONSTANTS CommandCount,   \* how many commands users give
          Activities,     \* what the mower does
          None,           \* an activity without a name, and "not known"
          MaxPending,     \* MAX_PENDING_COMMANDS
          StreamCapacity, \* messages under way in each direction
          OpenTime,       \* limit of prepare, start_tunnel and the handshake
          DiscoverTime,   \* deadline of discover_mowers
          SelectTime,     \* limit of select
          PacketTime,     \* PACKET_TIMEOUT: a packet that comes in pieces
          SshTime,        \* limit of an ssh call
          CollectTime,    \* limit of collect_existing
          PollPeriod,     \* from one poll to the next
          PingAfter,      \* silence after which the client pings
          Patience        \* of the broker: 1.5 * KEEPALIVE_SECONDS

\* The mower's own service, and the other one.
Services == {"own", "other"}

\* Commands are numbered in the order in which they are given.
Commands == 1 .. CommandCount

\* What the gateway did about a command.
Outcome == {"none", "done", "refused"}

Packet == {<<"other">>, <<"invalid">>} \cup ({"live", "stored"} \X Commands)
Frame == ({"devices"} \X Services \X (Activities \cup {None}))
            \cup ({"update"} \X (Activities \cup {None}))
            \cup ({"result"} \X Commands \X Outcome)

ASSUME LoopAssumption ==
    /\ CommandCount \in Nat
    /\ MaxPending \in Nat \ {0} /\ StreamCapacity \in Nat \ {0}
    /\ {OpenTime, DiscoverTime, SelectTime, PacketTime, SshTime, CollectTime, PollPeriod,
        PingAfter, Patience} \subseteq Nat

\* What the constants of the code have to satisfy for the keep-alive: the
\* longest way from one message to the next, in the loop and in a takeover.
\* The way from CONNECT to the loop is longer than that (OpenTime and on).
ASSUME TimesAssumption ==
    /\ PollPeriod + SelectTime + PacketTime + PingAfter + SshTime <= Patience
    /\ PollPeriod + SelectTime + 2 * PacketTime <= Patience
    /\ CollectTime + 3 * SshTime <= Patience

VARIABLES
    place,       \* where Worker.run is
    active,      \* this worker controls
    asked,       \* services whose devices are still awaited
    known,       \* the activity in mower.data
    readable,    \* connections with something to read, as select said
    pending,     \* commands waiting for an acknowledgement
    late,        \* those whose 30 s are over
    sinceSend,   \* time since the last packet to the broker
    sinceIo,     \* time since mqtt.last_io: a packet in either direction
    toPoll,      \* time until next_poll
    fromBroker,  \* packets under way to the worker
    toGateway,   \* commands under way to the gateway
    fromGateway, \* frames under way to the worker
    outcome,     \* per command: what the gateway did about it
    owes,        \* what the gateway has yet to answer
    real,        \* what the mower does
    shown,       \* the retained .../mower/activity/state
    given,       \* history: the last command given
    forwarded,   \* history: the last command forwarded
    verdict,     \* history: per command, what the worker reported
    overlooked   \* history: an update came between the two answers

clocks == <<sinceSend, sinceIo, toPoll>>
commandVars == <<pending, late, given, forwarded, verdict>>
mower == <<outcome, real>>
streams == <<fromBroker, toGateway, fromGateway, owes>>
vars == <<place, active, asked, known, readable, commandVars, clocks, streams, mower, shown,
          overlooked>>

Loop == {"top", "poll", "wait", "mqtt", "ws", "end"}
-----------------------------------------------------------------------------
(* Time.                                                                   *)

\* Mutant: a poll every two minutes.
LongPeriod == 4 * PollPeriod

NextPoll == PollPeriod

\* Time passes in the worker without a packet from or to the broker ...
Elapse(d) ==
    /\ sinceSend' = sinceSend + d
    /\ sinceIo' = sinceIo + d
    /\ toPoll' = IF toPoll > d THEN toPoll - d ELSE 0

\* ... or ends with one it sends, which helps only if the broker has not
\* lost patience meanwhile ...
SendAfter(d, next) ==
    /\ sinceSend' = IF sinceSend + d <= Patience THEN 0 ELSE sinceSend + d
    /\ sinceIo' = 0 /\ toPoll' = next

\* ... or with one it receives.
ReceiveAfter(d) ==
    /\ sinceSend' = sinceSend + d /\ sinceIo' = 0
    /\ toPoll' = IF toPoll > d THEN toPoll - d ELSE 0

\* The broker has not closed the connection for silence.
Connected == sinceSend <= Patience
-----------------------------------------------------------------------------
(* discover_mowers and the way to the loop.                                *)

\* What passes from CONNECT to the request for devices.  last_io is not looked
\* at before the subscription.
OpenSession ==
    /\ sinceSend' \in 0 .. OpenTime
    /\ sinceIo' = sinceSend' /\ toPoll' = 0

\* Only answers count; updates that come meanwhile are thrown away.  Nothing
\* is sent to the broker, and after the deadline no frame is waited for.
Discover ==
    /\ place = "discover" /\ asked # {} /\ fromGateway # << >>
    /\ sinceSend <= OpenTime + DiscoverTime
    /\ \E d \in 0 .. PacketTime : Elapse(d)
    /\ LET frame == Head(fromGateway)
       IN  IF frame[1] = "devices"
           THEN /\ asked' = asked \ {frame[2]}
                /\ IF frame[2] = "own" THEN known' = frame[3] /\ overlooked' = FALSE
                                       ELSE UNCHANGED <<known, overlooked>>
           ELSE /\ overlooked' = TRUE
                /\ UNCHANGED <<asked, known>>
    /\ fromGateway' = Tail(fromGateway)
    /\ UNCHANGED <<place, active, readable, commandVars, fromBroker, toGateway, owes, mower,
                   shown>>

\* After a snapshot control resumes with one ssh call more, or a preview begins,
\* which may have put the publisher back instead.  Neither sends to the broker
\* before the subscription to commands, which is answered with those that are
\* stored if the broker still knows the client.
EnterLoop ==
    /\ place = "discover" /\ asked = {}
    /\ place' = "top"
    /\ active' \in BOOLEAN
    /\ \E d \in 0 .. 2 * SshTime : SendAfter(d, 0)
    /\ fromBroker' \in {<< >>} \cup {<< <<"stored", c>> >> : c \in 1 .. given}
    /\ ~Connected' => fromBroker' = << >>
    /\ UNCHANGED <<asked, known, readable, commandVars, toGateway, fromGateway, owes, mower,
                   shown, overlooked>>
-----------------------------------------------------------------------------
(* One round of the loop.                                                  *)

\* A takeover: the collection subscribes first and reads what has come,
\* two ssh calls follow, and then sensors are polled at once.
Activate ==
    /\ place = "top" /\ ~active /\ Connected
    /\ sinceSend' \in 0 .. CollectTime + 2 * SshTime
    /\ sinceIo' \in 0 .. sinceSend'
    /\ toPoll' = 0
    /\ fromBroker' = << >>
    /\ active' = TRUE
    /\ place' = "poll"
    /\ UNCHANGED <<asked, known, readable, commandVars, toGateway, fromGateway, owes, mower,
                   shown, overlooked>>

NoRequest ==
    /\ place = "top"
    /\ place' = IF toPoll = 0 THEN "poll" ELSE "wait"
    /\ UNCHANGED <<active, asked, known, readable, commandVars, clocks, streams, mower, shown,
                   overlooked>>

\* publish_activity leaves the topic alone if the activity has no name, and
\* nobody hears a client that the broker has given up.
ShowActivity(activity) == shown' = IF activity = None \/ ~Connected' THEN shown ELSE activity

\* The snapshot takes its time; then everything is published.
Poll ==
    /\ place = "poll"
    /\ \E d \in 0 .. SshTime :
          IF active
          THEN SendAfter(d, NextPoll) /\ ShowActivity(known)
          ELSE /\ sinceSend' = sinceSend + d /\ sinceIo' = sinceIo + d
               /\ toPoll' = NextPoll
               /\ UNCHANGED shown
    /\ place' = "wait"
    /\ UNCHANGED <<active, asked, known, readable, commandVars, streams, mower, overlooked>>

\* A connection that the broker has closed is readable too.
Wait ==
    /\ place = "wait"
    /\ readable' = (IF fromBroker # << >> \/ ~Connected THEN {"mqtt"} ELSE {})
                     \cup (IF fromGateway # << >> THEN {"ws"} ELSE {})
    /\ place' = CASE "mqtt" \in readable' -> "mqtt"
                  [] readable' = {"ws"} -> "ws"
                  [] OTHER -> "end"
    /\ \E d \in 0 .. SelectTime : Elapse(d)
    /\ UNCHANGED <<active, asked, known, commandVars, streams, mower, shown, overlooked>>

\* Mutant: stored commands are carried out.
ForwardsStored(packet) ==
    /\ active
    /\ packet \in {"live", "stored"} \X Commands
    /\ Cardinality(pending) < MaxPending

\* A command is forwarded if this worker controls, the broker did not keep
\* it, and not too many are under way.
Forwards(packet) ==
    /\ active
    /\ packet \in {"live"} \X Commands
    /\ Cardinality(pending) < MaxPending

\* A command the mower does not support ends the round (`continue`).
Refuses(packet) == active /\ packet = <<"invalid">> /\ Cardinality(pending) < MaxPending

ReadMqtt ==
    /\ place = "mqtt" /\ fromBroker # << >>
    /\ \E d \in 0 .. PacketTime : ReceiveAfter(d)
    /\ LET packet == Head(fromBroker)
       IN  /\ IF Forwards(packet)
              THEN /\ Len(toGateway) < StreamCapacity
                   /\ toGateway' = Append(toGateway, packet[2])
                   /\ pending' = pending \cup {packet[2]}
                   /\ forwarded' = packet[2]
              ELSE UNCHANGED <<toGateway, pending, forwarded>>
           /\ place' = CASE Refuses(packet) -> "top"
                         [] "ws" \in readable /\ ~Refuses(packet) -> "ws"
                         [] OTHER -> "end"
    /\ fromBroker' = Tail(fromBroker)
    /\ readable' = readable \cap (IF place' = "ws" THEN {"ws"} ELSE {})
    /\ UNCHANGED <<active, asked, known, late, given, verdict, fromGateway, owes,
                   mower, shown, overlooked>>

\* Mutant: a result settles whatever is pending.
SettlesAny(c) == pending

\* A result settles the command it is about, if that is still pending.
Settled(c) == {c} \cap pending

\* Mutant: the deadline of a command outlives it.
ReportKeepsDeadline(settled, result) ==
    /\ pending' = pending \ settled
    /\ UNCHANGED late
    /\ verdict' = [c \in Commands |-> IF c \in settled THEN result ELSE verdict[c]]

Report(settled, result) ==
    /\ pending' = pending \ settled
    /\ late' = late \ settled
    /\ verdict' = [c \in Commands |-> IF c \in settled THEN result ELSE verdict[c]]

\* Mutant: updates are applied only by a worker in control.
ApplyInControl(activity) == known' = IF active THEN activity ELSE known

Apply(activity) == known' = activity

ReadWebSocket ==
    /\ place = "ws"
    /\ place' = "end" /\ readable' = {}
    /\ LET frame == Head(fromGateway)
       IN  \/ /\ frame[1] = "result"
              /\ Report(Settled(frame[2]), IF frame[3] = "done" THEN "confirmed" ELSE "declined")
              /\ \E d \in 0 .. PacketTime : Elapse(d)
              /\ UNCHANGED <<known, shown, overlooked>>
           \/ /\ frame[1] = "update"
              /\ Apply(frame[2]) /\ overlooked' = FALSE
              /\ \E d \in 0 .. PacketTime :
                    IF active /\ frame[2] # None
                    THEN SendAfter(d, IF toPoll > d THEN toPoll - d ELSE 0)
                         /\ ShowActivity(frame[2])
                    ELSE Elapse(d) /\ UNCHANGED shown
              /\ UNCHANGED <<pending, late, verdict>>
    /\ fromGateway' = Tail(fromGateway)
    /\ UNCHANGED <<active, asked, given, forwarded, fromBroker, toGateway, owes, mower>>

\* Mutants: old commands are reported, but stay pending; or nobody looks.
ExpireAgain ==
    /\ UNCHANGED <<pending, late>>
    /\ verdict' = [c \in Commands |-> IF c \in late THEN "unconfirmed" ELSE verdict[c]]

ExpireNever == UNCHANGED <<pending, late, verdict>>

\* Commands without an answer are given up.
Expire == Report(late, "unconfirmed")

EndRound ==
    /\ place = "end"
    /\ place' = "top"
    /\ Expire
    /\ IF sinceIo > PingAfter THEN SendAfter(0, toPoll) ELSE UNCHANGED clocks
    /\ UNCHANGED <<active, asked, known, readable, given, forwarded, streams, mower, shown,
                   overlooked>>
-----------------------------------------------------------------------------
(* The end of a session: an error, a rollback or the end of the process.   *)
(* Both connections are closed and 15 s later everything begins again.     *)

Fail ==
    /\ place' = "discover"
    /\ active' = FALSE /\ asked' = Services /\ known' = None /\ readable' = {}
    /\ pending' = {} /\ late' = {}
    /\ OpenSession
    /\ fromBroker' = << >> /\ toGateway' = << >> /\ fromGateway' = << >>
    /\ owes' = {"devices"} \X Services
    /\ overlooked' = FALSE
    /\ UNCHANGED <<given, forwarded, verdict, mower, shown>>

\* "MQTT connection closed"
FindsClosed == place = "mqtt" /\ fromBroker = << >> /\ ~Connected /\ Fail
-----------------------------------------------------------------------------
(* The broker, the users, and the gateway with its mower.                  *)

Deliver(packet) ==
    /\ place \in Loop /\ Connected /\ Len(fromBroker) < StreamCapacity
    /\ fromBroker' = Append(fromBroker, packet)

GiveCommand ==
    /\ given < CommandCount
    /\ given' = given + 1
    /\ Deliver(<<"live", given'>>)
    /\ UNCHANGED <<place, active, asked, known, readable, pending, late, forwarded, verdict,
                   clocks, toGateway, fromGateway, owes, mower, shown, overlooked>>

\* A command nobody supports, or a packet that is none of the worker's.
DeliverUseless(packet) ==
    /\ Deliver(packet)
    /\ UNCHANGED <<place, active, asked, known, readable, commandVars, clocks, toGateway,
                   fromGateway, owes, mower, shown, overlooked>>

SendFrame(frame) ==
    /\ Len(fromGateway) < StreamCapacity
    /\ fromGateway' = Append(fromGateway, frame)

\* A command is carried out or refused; the answer comes later or never.
TakeCommand ==
    /\ toGateway # << >>
    /\ LET c == Head(toGateway)
       IN  /\ \E result \in {"done", "refused"} :
                 outcome' = [outcome EXCEPT ![c] = result]
           /\ owes' \in {owes, owes \cup {<<"result", c>>}}
    /\ toGateway' = Tail(toGateway)
    /\ UNCHANGED <<place, active, asked, known, readable, commandVars, clocks, fromBroker,
                   fromGateway, real, shown, overlooked>>

Answer ==
    /\ \E debt \in owes :
          /\ SendFrame(<<debt[1], debt[2],
                         IF debt[1] = "result" THEN outcome[debt[2]]
                         ELSE IF debt[2] = "own" THEN real ELSE None>>)
          /\ owes' = owes \ {debt}
    /\ UNCHANGED <<place, active, asked, known, readable, commandVars, clocks, fromBroker,
                   toGateway, mower, shown, overlooked>>

\* The gateway tells every change as it happens.
MowerChanges ==
    /\ \E a \in Activities \ {real} :
          real' = a /\ SendFrame(<<"update", a>>)
    /\ UNCHANGED <<place, active, asked, known, readable, commandVars, clocks, fromBroker,
                   toGateway, owes, outcome, shown, overlooked>>

\* 30 s are over for a command.
BecomesLate ==
    /\ late # pending
    /\ \E c \in pending \ late : late' = late \cup {c}
    /\ UNCHANGED <<place, active, asked, known, readable, pending, given, forwarded, verdict,
                   clocks, streams, mower, shown, overlooked>>
-----------------------------------------------------------------------------
Init ==
    /\ place = "discover" /\ active = FALSE /\ asked = Services /\ known = None
    /\ readable = {} /\ pending = {} /\ late = {}
    /\ sinceSend \in 0 .. OpenTime /\ sinceIo = sinceSend /\ toPoll = 0
    /\ fromBroker = << >> /\ toGateway = << >> /\ fromGateway = << >>
    /\ owes = {"devices"} \X Services
    /\ outcome = [c \in Commands |-> "none"]
    /\ real \in Activities /\ shown = None
    /\ given = 0 /\ forwarded = 0 /\ verdict = [c \in Commands |-> "none"]
    /\ overlooked = FALSE

WorkerStep ==
    \/ Discover \/ EnterLoop \/ Activate \/ NoRequest \/ Poll \/ Wait
    \/ ReadMqtt \/ ReadWebSocket \/ EndRound \/ FindsClosed

Environment ==
    \/ GiveCommand
    \/ \E packet \in {<<"other">>, <<"invalid">>} : DeliverUseless(packet)
    \/ TakeCommand \/ Answer \/ MowerChanges \/ BecomesLate

Next == WorkerStep \/ Fail \/ Environment

Spec == Init /\ [][Next]_vars

\* The loop goes on, the gateway takes what it is sent, and 30 s pass.
\* Nothing else has to happen: no user, no mower, no answer, no failure.
Fairness ==
    /\ WF_vars(WorkerStep)
    /\ WF_vars(TakeCommand) /\ WF_vars(BecomesLate)

FairSpec == Spec /\ Fairness
-----------------------------------------------------------------------------
TypeOK ==
    /\ place \in Loop \cup {"discover"} /\ active \in BOOLEAN
    /\ asked \subseteq Services
    /\ {known, real, shown} \subseteq Activities \cup {None}
    /\ readable \subseteq {"mqtt", "ws"}
    /\ pending \subseteq Commands /\ late \subseteq pending
    /\ {sinceSend, sinceIo, toPoll} \subseteq Nat
    /\ fromBroker \in Seq(Packet) /\ toGateway \in Seq(Commands)
    /\ fromGateway \in Seq(Frame)
    /\ owes \subseteq ({"devices"} \X Services) \cup ({"result"} \X Commands)
    /\ outcome \in [Commands -> Outcome]
    /\ verdict \in [Commands -> {"none", "confirmed", "declined", "unconfirmed"}]
    /\ {given, forwarded} \subseteq 0 .. CommandCount
    /\ overlooked \in BOOLEAN

\* A worker in control that the broker knows is never given up for silence,
\* which would publish its will, "offline", while it works: the blocking calls
\* of a round and of a takeover fit between two packets to the broker.  One
\* that has resumed control (worker.py 174) when the broker had already lost
\* patience finds that out in its first round, before it forwards a command.
KeepAlive ==
    [][/\ active /\ Connected /\ active' => Connected'
       /\ active' /\ ~Connected' =>
             pending' = {} /\ place' \in {"top", "poll", "wait", "mqtt"}]_vars

\* Commands reach the gateway in the order in which they were given, each at
\* most once, and none that the broker kept from before the session.
ForwardedInOrder == [][forwarded' # forwarded => forwarded' > forwarded]_vars

\* What is reported of a command is what became of it, also if an answer to
\* an earlier command comes after that was given up.
VerdictsTrue ==
    \A c \in Commands :
        /\ verdict[c] = "confirmed" => outcome[c] = "done"
        /\ verdict[c] = "declined" => outcome[c] = "refused"

\* A command is reported once: no answer changes the report "unconfirmed".
VerdictFinal ==
    [][\A c \in Commands :
          verdict[c] # "none" => verdict'[c] = verdict[c] /\ c \notin pending']_vars

\* Users stop giving commands the mower does not support: each of those
\* ends its round early (worker.py 221), before frames, deadlines and ping.
Supported == <>[][fromBroker' # << >> => fromBroker'[Len(fromBroker')] # <<"invalid">>]_vars

\* Every forwarded command is reported on, unless the session ends first.
CommandJudged ==
    Supported => \A c \in Commands :
                    c \in pending ~> verdict[c] # "none" \/ place = "discover"

\* When the mower keeps its activity and the session goes on, the broker
\* shows that activity in the end, whatever was missed before: unless it has
\* no name, or discover_mowers threw its update away.
Calm == <>[][real' = real /\ place' # "discover"]_vars /\ <>[]active

ActivityCatchesUp ==
    Supported /\ Calm => <>[](real \in {shown, None} \/ overlooked)
=============================================================================
