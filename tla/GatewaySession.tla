--------------------------- MODULE GatewaySession ---------------------------
(***************************************************************************)
(* gardena-local.service, the program gateway_runtime/main.go.  It opens a *)
(* WebSocket to the API of the gateway and an MQTT connection to the       *)
(* broker, subscribes to mower commands, and publishes sensors and its     *)
(* availability until anything fails; 15 s later it tries again.           *)
(*                                                                         *)
(* One goroutine runs the session, two read a connection each and pass     *)
(* what they read on through bounded channels.  Readers, connections and   *)
(* what the broker knows of a client outlive the session they belong to:   *)
(* the broker may publish the will of an old connection long after a new   *)
(* session has said "online".  A slot holds one session with all of its    *)
(* leftovers; the number of slots bounds how many overlap.                 *)
(***************************************************************************)
EXTENDS Integers, Sequences, FiniteSets

CONSTANTS Slots,         \* sessions that may overlap
          Commands,      \* commands users publish, each once to a listener
          QueueCapacity, \* of the channels packets and events
          StreamCapacity,\* availability messages under way to the broker
          MaxPending,    \* commands that may wait for an acknowledgement
          None

Links == {"mqtt", "ws"}

\* Mutant: room for the one error that is read.
FailCapacityOne == 1

\* Both readers may fail after nobody takes their error any more.
FailCapacity == 2

ASSUME SessionAssumption ==
    /\ QueueCapacity \in Nat \ {0} /\ StreamCapacity \in Nat \ {0}
    /\ MaxPending \in Nat \ {0}
    /\ None \notin Slots \cup Commands

VARIABLES
    stage,         \* where the main goroutine is, or how the process ended
    slot,          \* the session it is at
    term,          \* SIGTERM was received (ctx is cancelled)
    ready,         \* the "ready" of /run/gardena-local-status.json
    pending,       \* per command: not pending, "waiting", or "late" (30 s)
    link,          \* per slot and connection: the client's side of it
    reader,        \* per slot and connection: the goroutine reading it
    inbox,         \* per slot and connection: received but not yet read
    hand,          \* per slot and connection: what the reader is passing on
    queue,         \* per slot and connection: the channel packets or events
    failed,        \* per slot: errors in the channel fail
    done,          \* per slot: the channel done is closed
    broker,        \* per slot: what the broker knows of the MQTT connection
    toBroker,      \* per slot: availability messages under way
    availability,  \* the broker's retained .../local/availability
    stored,        \* the retained message on the command topic
    live,          \* history: commands published while a session listened
    executed       \* history: how often the API was told a command (0..2)

mainVars == <<stage, slot, term, ready, pending>>
readerVars == <<reader, inbox, hand, queue, failed>>
brokerVars == <<broker, toBroker, availability, stored>>
history == <<live, executed>>
vars == <<mainVars, link, readerVars, done, brokerVars, history>>

Ends == Slots \X Links
Message == [command : Commands, retained : BOOLEAN]

Dead == {"stopped", "crashed"}
NoPending == [c \in Commands |-> "no"]
Pending == {c \in Commands : pending[c] # "no"}
-----------------------------------------------------------------------------
(* The process: systemd, main and run.                                     *)

\* The kernel closes the connections of a process that ends.
ProcessGone ==
    /\ link' = [e \in Ends |-> IF link[e] = "none" THEN "none" ELSE "closed"]
    /\ reader' = [e \in Ends |-> "none"]
    /\ hand' = [e \in Ends |-> None]
    /\ inbox' = [e \in Ends |-> << >>]
    /\ queue' = [e \in Ends |-> << >>]
    /\ failed' = [s \in Slots |-> 0]
    /\ done' = [s \in Slots |-> FALSE]
    /\ slot' = None
    /\ pending' = NoPending

\* The switch script removes the status file before it starts the unit.
ServiceStart ==
    /\ stage = "stopped"
    /\ stage' = "boot" /\ term' = FALSE /\ ready' = FALSE
    /\ UNCHANGED <<slot, pending, link, readerVars, done, brokerVars, history>>

ServiceStop ==
    /\ stage # "stopped" /\ ~term
    /\ IF stage = "crashed" THEN stage' = "stopped" /\ UNCHANGED term
                            ELSE term' = TRUE /\ UNCHANGED stage
    /\ UNCHANGED <<slot, ready, pending, link, readerVars, done, brokerVars, history>>

\* The process dies, or the gateway with it, whose /run is then empty.
Crash ==
    /\ stage \notin Dead
    /\ stage' = IF term THEN "stopped" ELSE "crashed"
    /\ ready' \in {ready, FALSE}
    /\ ProcessGone
    /\ UNCHANGED <<term, brokerVars, history>>

\* Restart=always, 15 s later.
Restart ==
    /\ stage = "crashed"
    /\ stage' = "boot"
    /\ UNCHANGED <<slot, term, ready, pending, link, readerVars, done, brokerVars, history>>

\* run: the next session begins, unless the process was told to end.
Begin ==
    /\ stage \in {"boot", "retry"} /\ ~term
    /\ stage' = "api"
    /\ ready' = FALSE
    /\ UNCHANGED <<slot, term, pending, link, readerVars, done, brokerVars, history>>

Exit ==
    /\ stage \in {"boot", "retry"} /\ term
    /\ stage' = "stopped"
    /\ ProcessGone
    /\ UNCHANGED <<term, ready, brokerVars, history>>
-----------------------------------------------------------------------------
(* session: from the API to the event loop.                                *)

Unused(s) ==
    /\ broker[s] = "gone"
    /\ \A l \in Links : link[<<s, l>>] \in {"none", "closed"} /\ reader[<<s, l>>] = "none"

Open(s, l) == link[<<s, l>>] = "open"
SetLink(s, l, state) == link' = [link EXCEPT ![<<s, l>>] = state]

\* prepareLocalAPI and openLocalWS; a slot is taken that nothing is left in.
OpenWebSocket ==
    /\ stage = "api"
    /\ \E s \in Slots :
          /\ Unused(s)
          /\ slot' = s
          /\ link' = [link EXCEPT ![<<s, "ws">>] = "open", ![<<s, "mqtt">>] = "none"]
          /\ inbox' = [e \in Ends |-> IF e[1] = s THEN << >> ELSE inbox[e]]
          /\ queue' = [e \in Ends |-> IF e[1] = s THEN << >> ELSE queue[e]]
          /\ hand' = [e \in Ends |-> IF e[1] = s THEN None ELSE hand[e]]
          /\ failed' = [failed EXCEPT ![s] = 0]
          /\ done' = [done EXCEPT ![s] = FALSE]
    /\ stage' = "connect"
    /\ UNCHANGED <<term, ready, pending, reader, brokerVars, history>>

\* discover asks over the WebSocket; connectMQTT leaves the broker a will
\* "offline".
ConnectBroker ==
    /\ stage = "connect" /\ Open(slot, "ws")
    /\ stage' = "subscribe"
    /\ SetLink(slot, "mqtt", "open")
    /\ broker' = [broker EXCEPT ![slot] = "connected"]
    /\ UNCHANGED <<slot, term, ready, pending, readerVars, done, toBroker, availability,
                   stored, history>>

Subscribe ==
    /\ stage = "subscribe"
    /\ stage' = "suback"
    /\ broker' = [broker EXCEPT ![slot] = IF Open(slot, "mqtt") THEN "asked" ELSE @]
    /\ UNCHANGED <<slot, term, ready, pending, link, readerVars, done, toBroker,
                   availability, stored, history>>

\* Mutant: the session goes on before the broker has accepted.
AwaitNothing ==
    /\ stage = "suback"
    /\ stage' = "announce"
    /\ UNCHANGED <<slot, term, ready, pending, link, readerVars, done, brokerVars, history>>

\* Whatever precedes the SUBACK is read and thrown away.
AwaitSuback ==
    /\ stage = "suback" /\ broker[slot] = "subscribed"
    /\ stage' = "announce"
    /\ \E n \in 0 .. Len(inbox[<<slot, "mqtt">>]) :
          inbox' = [inbox EXCEPT ![<<slot, "mqtt">>] = SubSeq(@, n + 1, Len(@))]
    /\ UNCHANGED <<slot, term, ready, pending, link, reader, hand, queue, failed, done,
                   brokerVars, history>>

\* A write blocks while the stream is full; on a lost connection it is lost.
CanSay(s) == Open(s, "mqtt") => Len(toBroker[s]) < StreamCapacity
Says(s, what) ==
    toBroker' = [toBroker EXCEPT ![s] = IF Open(s, "mqtt") THEN Append(@, what) ELSE @]

\* publishAll read the sensors and ends with "online"; both readers start.
Announce ==
    /\ stage = "announce" /\ CanSay(slot)
    /\ stage' = "loop"
    /\ Says(slot, "online")
    /\ ready' = TRUE
    /\ reader' = [reader EXCEPT ![<<slot, "mqtt">>] = "reading", ![<<slot, "ws">>] = "reading"]
    /\ UNCHANGED <<slot, term, pending, link, inbox, hand, queue, failed, done, broker,
                   availability, stored, history>>

\* Anything fails on the way to the loop; the deferred calls follow.  The
\* broker may have seen a CONNECT whose answer was lost.
SetupFails ==
    /\ CASE stage = "api" -> stage' = "retry" /\ UNCHANGED <<link, broker>>
         [] stage = "connect" ->
              /\ stage' = "closing"
              /\ \/ UNCHANGED <<link, broker>>
                 \/ /\ SetLink(slot, "mqtt", "closed")
                    /\ broker' = [broker EXCEPT ![slot] = "connected"]
         [] stage \in {"subscribe", "suback", "announce"} ->
              stage' = "leaving" /\ UNCHANGED <<link, broker>>
         [] OTHER -> FALSE
    /\ UNCHANGED <<slot, term, ready, pending, readerVars, done, toBroker, availability,
                   stored, history>>
-----------------------------------------------------------------------------
(* session: the event loop.                                                *)

\* The session returns: its map of pending commands is gone, done is closed.
Leave ==
    /\ stage' = "leaving"
    /\ done' = [done EXCEPT ![slot] = TRUE]
    /\ pending' = NoPending

\* Mutant: an error is taken that nobody has reported.
StopsUnasked ==
    /\ stage = "loop"
    /\ Leave
    /\ failed' = [failed EXCEPT ![slot] = @ - 1]
    /\ UNCHANGED <<slot, term, ready, link, reader, inbox, hand, queue, brokerVars, history>>

\* ctx is cancelled, or a reader has reported an error.
Stops ==
    /\ stage = "loop"
    /\ term \/ failed[slot] > 0
    /\ Leave
    /\ failed' = [failed EXCEPT ![slot] = IF term \/ @ = 0 THEN @ ELSE @ - 1]
    /\ UNCHANGED <<slot, term, ready, link, reader, inbox, hand, queue, brokerVars, history>>

\* A write, a sensor or a packet is faulty.
LoopFails ==
    /\ stage = "loop"
    /\ Leave
    /\ UNCHANGED <<slot, term, ready, link, readerVars, brokerVars, history>>

\* Mutant: only sensors are published again.
PollWithoutAvailability ==
    /\ stage = "loop"
    /\ ready' = TRUE
    /\ UNCHANGED <<stage, slot, term, pending, link, readerVars, done, brokerVars, history>>

\* Every 30 s: publishAll.
Poll ==
    /\ stage = "loop" /\ CanSay(slot)
    /\ Says(slot, "online")
    /\ ready' = TRUE
    /\ UNCHANGED <<stage, slot, term, pending, link, readerVars, done, broker, availability,
                   stored, history>>

\* 30 s have passed since the command was forwarded.
DeadlinePasses(c) ==
    /\ pending[c] = "waiting"
    /\ pending' = [pending EXCEPT ![c] = "late"]
    /\ UNCHANGED <<stage, slot, term, ready, link, readerVars, done, brokerVars, history>>

\* Mutant: a late command keeps its place.
HeartbeatOnly ==
    /\ stage = "loop"
    /\ UNCHANGED vars

\* Every 15 s: pings are sent and late commands forgotten.
Heartbeat ==
    /\ stage = "loop"
    /\ pending' = [c \in Commands |-> IF pending[c] = "late" THEN "no" ELSE pending[c]]
    /\ UNCHANGED <<stage, slot, term, ready, link, readerVars, done, brokerVars, history>>

Takes(l) == queue' = [queue EXCEPT ![<<slot, l>>] = Tail(@)]
First(l) == Head(queue[<<slot, l>>])

\* Mutant: retained commands are not told apart.
AcceptsStored(m) == Cardinality(Pending) < MaxPending
Accepts(m) == ~m.retained /\ Cardinality(Pending) < MaxPending

Executes(c) == executed' = [executed EXCEPT ![c] = IF @ = 2 THEN 2 ELSE @ + 1]

\* A command is forwarded to the API, which may or may not acknowledge it.
TakeCommand ==
    /\ stage = "loop" /\ queue[<<slot, "mqtt">>] # << >>
    /\ LET m == First("mqtt")
       IN  IF Accepts(m)
           THEN /\ Executes(m.command)
                /\ pending' = [pending EXCEPT ![m.command] = "waiting"]
                /\ \/ UNCHANGED inbox
                   \/ inbox' = [inbox EXCEPT ![<<slot, "ws">>] = Append(@, m)]
           ELSE UNCHANGED <<executed, pending, inbox>>
    /\ Takes("mqtt")
    /\ UNCHANGED <<stage, slot, term, ready, link, reader, hand, failed, done, brokerVars, live>>

\* ... or the write fails, with or without the command getting through.
ForwardFails ==
    /\ stage = "loop" /\ queue[<<slot, "mqtt">>] # << >>
    /\ LET m == First("mqtt")
       IN  Accepts(m) /\ (Executes(m.command) \/ UNCHANGED executed)
    /\ Takes("mqtt")
    /\ Leave
    /\ UNCHANGED <<slot, term, ready, link, reader, inbox, hand, failed, brokerVars, live>>

\* An acknowledgement frees the place of its command; others are ignored.
TakeEvent ==
    /\ stage = "loop" /\ queue[<<slot, "ws">>] # << >>
    /\ pending' = [pending EXCEPT ![First("ws").command] = "no"]
    /\ Takes("ws")
    /\ UNCHANGED <<stage, slot, term, ready, link, reader, inbox, hand, failed, done,
                   brokerVars, history>>
-----------------------------------------------------------------------------
(* session: the deferred calls.                                            *)

\* Mutant: the status file is left as it was.
SayOfflineOnly ==
    /\ stage = "leaving"
    /\ stage' = "closing"
    /\ \/ CanSay(slot) /\ Says(slot, "offline")
       \/ UNCHANGED toBroker
    /\ UNCHANGED <<slot, term, ready, pending, link, readerVars, done, broker, availability,
                   stored, history>>

\* status(false), and "offline" if it can be sent.
SayOffline ==
    /\ stage = "leaving"
    /\ stage' = "closing"
    /\ ready' = FALSE
    /\ \/ CanSay(slot) /\ Says(slot, "offline")
       \/ UNCHANGED toBroker
    /\ UNCHANGED <<slot, term, pending, link, readerVars, done, broker, availability,
                   stored, history>>

\* Both connections are closed, without an MQTT DISCONNECT.
Close ==
    /\ stage = "closing"
    /\ stage' = "retry" /\ slot' = None
    /\ link' = [link EXCEPT ![<<slot, "mqtt">>] = IF @ = "none" THEN @ ELSE "closed",
                            ![<<slot, "ws">>] = "closed"]
    /\ inbox' = [e \in Ends |-> IF e[1] = slot THEN << >> ELSE inbox[e]]
    /\ UNCHANGED <<term, ready, pending, reader, hand, queue, failed, done, brokerVars, history>>
-----------------------------------------------------------------------------
(* The reading goroutines of a session.                                    *)

ReaderReads(s, l) ==
    /\ reader[<<s, l>>] = "reading" /\ link[<<s, l>>] \in {"open", "lost"} /\ inbox[<<s, l>>] # << >>
    /\ reader' = [reader EXCEPT ![<<s, l>>] = "passing"]
    /\ hand' = [hand EXCEPT ![<<s, l>>] = Head(inbox[<<s, l>>])]
    /\ inbox' = [inbox EXCEPT ![<<s, l>>] = Tail(@)]
    /\ UNCHANGED <<mainVars, link, queue, failed, done, brokerVars, history>>

ReaderPasses(s, l) ==
    /\ reader[<<s, l>>] = "passing" /\ Len(queue[<<s, l>>]) < QueueCapacity
    /\ queue' = [queue EXCEPT ![<<s, l>>] = Append(@, hand[<<s, l>>])]
    /\ reader' = [reader EXCEPT ![<<s, l>>] = "reading"]
    /\ hand' = [hand EXCEPT ![<<s, l>>] = None]
    /\ UNCHANGED <<mainVars, link, inbox, failed, done, brokerVars, history>>

ReaderIsTold(s, l) ==
    /\ reader[<<s, l>>] = "passing" /\ done[s]
    /\ reader' = [reader EXCEPT ![<<s, l>>] = "none"]
    /\ hand' = [hand EXCEPT ![<<s, l>>] = None]
    /\ UNCHANGED <<mainVars, link, inbox, queue, failed, done, brokerVars, history>>

ReaderFails(s, l) ==
    /\ reader[<<s, l>>] = "reading" /\ link[<<s, l>>] \in {"lost", "closed"}
    /\ reader' = [reader EXCEPT ![<<s, l>>] = "failing"]
    /\ UNCHANGED <<mainVars, link, inbox, hand, queue, failed, done, brokerVars, history>>

ReaderReports(s, l) ==
    /\ reader[<<s, l>>] = "failing" /\ failed[s] < FailCapacity
    /\ failed' = [failed EXCEPT ![s] = @ + 1]
    /\ reader' = [reader EXCEPT ![<<s, l>>] = "none"]
    /\ UNCHANGED <<mainVars, link, inbox, hand, queue, done, brokerVars, history>>
-----------------------------------------------------------------------------
(* The network, the broker and the users.                                  *)

\* Broken, timed out, or ended by the other side.
LinkLost(s, l) ==
    /\ Open(s, l)
    /\ SetLink(s, l, "lost")
    /\ UNCHANGED <<mainVars, readerVars, done, brokerVars, history>>

\* A subscription is answered with the retained message, marked as such.
BrokerSubscribes(s) ==
    /\ broker[s] = "asked"
    /\ broker' = [broker EXCEPT ![s] = "subscribed"]
    /\ inbox' = IF stored # None /\ Open(s, "mqtt")
                THEN [inbox EXCEPT ![<<s, "mqtt">>] =
                        Append(@, [command |-> stored, retained |-> TRUE])]
                ELSE inbox
    /\ UNCHANGED <<mainVars, link, reader, hand, queue, failed, done, toBroker, availability,
                   stored, history>>

BrokerReads(s) ==
    /\ broker[s] # "gone" /\ toBroker[s] # << >>
    /\ availability' = Head(toBroker[s])
    /\ toBroker' = [toBroker EXCEPT ![s] = Tail(@)]
    /\ UNCHANGED <<mainVars, link, readerVars, done, broker, stored, history>>

\* Mutant: connectMQTT leaves no will.
AfterNoWill(current) == current

\* What a client's will makes of the availability.
AfterWill(current) == "offline"

\* The end of a connection without DISCONNECT is noticed at once or after
\* the keep-alive time; what it did not yet deliver is lost.
BrokerNotices(s) ==
    /\ broker[s] # "gone" /\ ~Open(s, "mqtt")
    /\ broker' = [broker EXCEPT ![s] = "gone"]
    /\ toBroker' = [toBroker EXCEPT ![s] = << >>]
    /\ availability' = AfterWill(availability)
    /\ UNCHANGED <<mainVars, link, readerVars, done, stored, history>>

Listening == {s \in Slots : broker[s] = "subscribed"}

\* A user, or Home Assistant, publishes a command, retained or not; those
\* who listen get it as a live one either way.
Publish(c, retain) ==
    /\ executed[c] = 0 /\ c \notin live
    /\ inbox' = [e \in Ends |-> IF e[2] = "mqtt" /\ e[1] \in Listening /\ Open(e[1], e[2])
                                THEN Append(inbox[e], [command |-> c, retained |-> FALSE])
                                ELSE inbox[e]]
    /\ live' = IF Listening # {} THEN live \cup {c} ELSE live
    /\ stored' = IF retain THEN c ELSE stored
    /\ UNCHANGED <<mainVars, link, reader, hand, queue, failed, done, broker, toBroker,
                   availability, executed>>
-----------------------------------------------------------------------------
\* The service is installed but not running; the broker may still hold a
\* connection of the publisher before it, with the same will.
Init ==
    /\ stage = "stopped" /\ slot = None /\ term = FALSE /\ ready = FALSE
    /\ pending = NoPending
    /\ link = [e \in Ends |-> "none"]
    /\ reader = [e \in Ends |-> "none"]
    /\ inbox = [e \in Ends |-> << >>] /\ hand = [e \in Ends |-> None]
    /\ queue = [e \in Ends |-> << >>] /\ failed = [s \in Slots |-> 0]
    /\ done = [s \in Slots |-> FALSE]
    /\ toBroker = [s \in Slots |-> << >>]
    /\ \/ broker = [s \in Slots |-> "gone"] /\ availability = "offline"
       \/ \E old \in Slots : /\ broker = [s \in Slots |-> IF s = old THEN "connected" ELSE "gone"]
                             /\ availability \in {"online", "offline"}
    /\ stored = None
    /\ live = {} /\ executed = [c \in Commands |-> 0]

SetupStep ==
    Begin \/ OpenWebSocket \/ ConnectBroker \/ Subscribe \/ AwaitSuback \/ Announce
TakeStep == TakeCommand \/ TakeEvent
EndStep == Stops \/ SayOffline \/ Close \/ Exit
ReaderStep(s, l) ==
    \/ ReaderReads(s, l) \/ ReaderPasses(s, l) \/ ReaderIsTold(s, l)
    \/ ReaderFails(s, l) \/ ReaderReports(s, l)
BrokerStep(s) == BrokerSubscribes(s) \/ BrokerReads(s) \/ BrokerNotices(s)
Fails == SetupFails \/ LoopFails \/ ForwardFails \/ Crash \/ \E s \in Slots, l \in Links : LinkLost(s, l)

Next ==
    \/ ServiceStart \/ ServiceStop \/ Restart
    \/ SetupStep \/ Poll \/ Heartbeat \/ TakeStep \/ EndStep
    \/ \E c \in Commands : DeadlinePasses(c) \/ \E retain \in BOOLEAN : Publish(c, retain)
    \/ \E s \in Slots : BrokerStep(s) \/ \E l \in Links : ReaderStep(s, l)
    \/ Fails

Spec == Init /\ [][Next]_vars

(* Fairness.  The Go scheduler runs every goroutine that can run, a select *)
(* chooses among ready cases at random, tickers tick, every network call   *)
(* ends with a result or at its deadline, systemd restarts the service,    *)
(* and the broker notices the end of a connection after 90 s.              *)
Fairness ==
    /\ WF_vars(Restart)
    /\ WF_vars(SetupStep \/ SetupFails)
    /\ WF_vars(Poll) /\ WF_vars(Heartbeat) /\ WF_vars(TakeStep) /\ WF_vars(EndStep)
    /\ \A c \in Commands : WF_vars(DeadlinePasses(c))
    /\ \A s \in Slots : /\ WF_vars(BrokerStep(s))
                        /\ \A l \in Links : WF_vars(ReaderStep(s, l))

FairSpec == Spec /\ Fairness
-----------------------------------------------------------------------------
TypeOK ==
    /\ stage \in Dead \cup {"boot", "retry", "api", "connect", "subscribe", "suback",
                            "announce", "loop", "leaving", "closing"}
    /\ slot \in Slots \cup {None}
    /\ term \in BOOLEAN /\ ready \in BOOLEAN
    /\ pending \in [Commands -> {"no", "waiting", "late"}]
    /\ link \in [Ends -> {"none", "open", "lost", "closed"}]
    /\ reader \in [Ends -> {"none", "reading", "passing", "failing"}]
    /\ inbox \in [Ends -> Seq(Message)]
    /\ hand \in [Ends -> Message \cup {None}]
    /\ queue \in [Ends -> Seq(Message)]
    /\ failed \in [Slots -> 0 .. FailCapacity]
    /\ done \in [Slots -> BOOLEAN]
    /\ broker \in [Slots -> {"gone", "connected", "asked", "subscribed"}]
    /\ toBroker \in [Slots -> Seq({"online", "offline"})]
    /\ availability \in {"online", "offline"}
    /\ stored \in Commands \cup {None}
    /\ live \subseteq Commands
    /\ executed \in [Commands -> 0 .. 2]
-----------------------------------------------------------------------------
\* "Stored MQTT commands are not executed" (DOCS.md 64): a mower is told a
\* command once at most, and only one that was published while a session
\* listened, however often the service reconnects.
NoStoredCommand ==
    \A c \in Commands : executed[c] \in {0, 1} /\ (executed[c] = 1 => c \in live)

\* The status file says "ready" to deploy.py's health check only while the
\* session is up: as long as its connection stands, the broker forwards
\* commands to it.  Only a new process may find a stale file of a dead one.
ReadyMeansServing ==
    ready /\ stage \notin Dead \cup {"boot"} =>
        /\ stage \in {"loop", "leaving"}
        /\ Open(slot, "mqtt") => broker[slot] = "subscribed"

\* "Require successful SUBACK before reporting control readiness" (main.go
\* 136): when the broker shows the mowers online, somebody listens.
OnlineMeansListening ==
    [][availability # "online" /\ availability' = "online" => Listening # {}]_vars

\* No goroutine of an ended session stays behind.
ReadersEnd ==
    \A s \in Slots, l \in Links :
        (link[<<s, l>>] = "closed" /\ reader[<<s, l>>] # "none") ~> reader[<<s, l>>] = "none"

\* A command gives back its place among the 32.
PendingDrains == \A c \in Commands : (c \in Pending) ~> (c \notin Pending)

OutagesCease == <>[][~(Fails \/ ServiceStop)]_vars

\* Once nothing fails any more, a running service is shown online for good,
\* although wills of old connections may still arrive late.
AvailabilityHeals ==
    OutagesCease /\ <>[](stage # "stopped") => <>[](availability = "online")

\* "On outages of the broker or the API the service sets the availability to
\* offline" (DOCS.md 63), even if it died and cannot say so itself.
OfflineWhenDown ==
    <>[](stage \notin {"loop", "leaving"}) => <>[](availability = "offline")
=============================================================================
