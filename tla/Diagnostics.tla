----------------------------- MODULE Diagnostics -----------------------------
(***************************************************************************)
(* The connection diagnostics, from the gateway to the page of the app.    *)
(*                                                                         *)
(* The session goroutine of the gateway runtime (main.go) names the stage  *)
(* it is at before it does what may block, and records failures and delays *)
(* in a ring of events (diagnostics.go).  A goroutine of its own copies    *)
(* stage and events under their lock and replaces a file in /run; the app  *)
(* fetches that file over ssh while the gateway is in control              *)
(* (diagnostics.py) and keeps the last one it accepted.                    *)
(*                                                                         *)
(* What a session does otherwise is in GatewaySession.  A process starts   *)
(* with an empty history; /run is emptied when the gateway reboots.        *)
(***************************************************************************)
EXTENDS Integers, Sequences

CONSTANTS SetUp,     \* the stages before sensors are read, in their order
          Mishaps,   \* bound: the operations that may fail, and the delays
          Capacity,  \* of the ring of events: 32
          MaxEvents, \* bound: events of one process
          None

\* What the app accepts.
STAGES == {"starting", "api_enable", "ws_connect", "ws_discover", "mqtt_connect",
           "mqtt_subscribe", "sensor_read", "mqtt_publish", "event_loop", "heartbeat",
           "retry_wait", "mqtt_read", "mqtt_write", "ws_read", "ws_write"}
KINDS == {"failed", "slow", "delayed"}

Event == [stage : STAGES, kind : KINDS]

\* `due' is history: the last events there were when the snapshot was taken.
Snapshot == [stage : STAGES, events : Seq(Event), due : Seq(Event)]

ASSUME DiagnosticsAssumption ==
    /\ SetUp \in Seq({"api_enable", "ws_connect", "ws_discover", "mqtt_connect",
                      "mqtt_subscribe"})
    /\ SetUp # << >>
    /\ Mishaps \subseteq STAGES \cup KINDS
    /\ Capacity \in Nat \ {0} /\ MaxEvents \in Nat
    /\ None \notin STAGES \cup Snapshot

VARIABLES
    stage,   \* state.Stage
    phase,   \* of the session goroutine, or "gone": there is no process
    err,     \* the operation whose error ends the session, or None
    reading, \* the goroutines that read both connections were started
    fail,    \* channel fail: operations of theirs that failed
    events,  \* state.Events
    log,     \* history: all events of this process, as they really were
    draft,   \* the snapshot the recorder is writing, or None
    file,    \* /run/gardena-local-diagnostics.json, or None
    record   \* diagnostics.json of the app

session == <<stage, phase, err, reading, fail>>
history == <<events, log>>
vars == <<session, history, draft, file, record>>
-----------------------------------------------------------------------------
(* The ring.                                                               *)

\* Mutant: the oldest event stays.
KeptAll(ring, event) == Append(ring, event)

\* eventLocked: the oldest of a full ring makes room.
Kept(ring, event) ==
    IF Len(ring) = Capacity THEN Append(Tail(ring), event) ELSE Append(ring, event)

\* The last events of a history.
Window(past) ==
    LET n == IF Len(past) < Capacity THEN Len(past) ELSE Capacity
    IN  [i \in 1 .. n |-> past[Len(past) - n + i]]

\* An event is recorded under the stage `named'; `truth' is what it is about.
Add(named, truth, kind) ==
    /\ Len(log) < MaxEvents
    /\ kind \in Mishaps \cup {"failed"}
    /\ events' = Kept(events, [stage |-> named, kind |-> kind])
    /\ log' = Append(log, [stage |-> truth, kind |-> kind])
-----------------------------------------------------------------------------
(* The session goroutine.                                                  *)

\* run: the first session, or the next one 15 s after a failure.
Begin ==
    /\ phase = "working" /\ stage \in {"starting", "retry_wait"}
    /\ stage' = SetUp[1]
    /\ UNCHANGED <<phase, err, reading, fail, history, draft, file, record>>

\* One stage of the set-up is done.
Proceed ==
    /\ phase = "working"
    /\ \E i \in 1 .. Len(SetUp) :
          /\ stage = SetUp[i]
          /\ stage' = IF i < Len(SetUp) THEN SetUp[i + 1] ELSE "sensor_read"
    /\ UNCHANGED <<phase, err, reading, fail, history, draft, file, record>>

\* measuredSensorValues: a read of more than 5 s is an event, also if it
\* fails in the end.
ReadSensors ==
    /\ phase = "working" /\ stage = "sensor_read"
    /\ phase' = "measured"
    /\ err' \in {None} \cup ({"sensor_read"} \cap Mishaps)
    /\ \/ Add("sensor_read", "sensor_read", "slow")
       \/ UNCHANGED history
    /\ UNCHANGED <<stage, reading, fail, draft, file, record>>

\* A heartbeat that comes more than 30 s after the last one is an event.
Beat ==
    /\ phase = "working" /\ stage = "event_loop"
    /\ phase' = "measured"
    /\ \/ Add("heartbeat", "heartbeat", "delayed")
       \/ UNCHANGED history
    /\ UNCHANGED <<stage, err, reading, fail, draft, file, record>>

\* The measurement is recorded; what it is about goes on, or has failed.
Measured ==
    /\ phase = "measured"
    /\ IF err = None
       THEN /\ phase' = "working"
            /\ stage' = IF stage = "sensor_read" THEN "mqtt_publish" ELSE "heartbeat"
       ELSE phase' = "failing" /\ UNCHANGED stage
    /\ UNCHANGED <<err, reading, fail, history, draft, file, record>>

\* Everything is published, or both pings are sent: back to the loop, which
\* the two readers serve from the first time on.
Return ==
    /\ phase = "working" /\ stage \in {"mqtt_publish", "heartbeat"}
    /\ stage' = "event_loop" /\ reading' = TRUE
    /\ UNCHANGED <<phase, err, fail, history, draft, file, record>>

\* The poll interval is over.
Poll ==
    /\ phase = "working" /\ stage = "event_loop"
    /\ stage' = "sensor_read"
    /\ UNCHANGED <<phase, err, reading, fail, history, draft, file, record>>

\* What can fail at a stage, other than a read of sensors.
Operations(s) ==
    CASE s = "mqtt_publish" -> {"mqtt_write"}
      [] s = "heartbeat" -> {"mqtt_write", "ws_write"}
      [] s = "event_loop" -> {"mqtt_write", "ws_write", "event_loop"}
      [] s \in {"mqtt_connect", "mqtt_subscribe"} -> {s, "mqtt_write"}
      [] s \in {"api_enable", "ws_connect", "ws_discover"} -> {s}
      [] OTHER -> {}

OperationFails ==
    /\ phase = "working"
    /\ \E op \in Operations(stage) \cap Mishaps : err' = op
    /\ phase' = "failing"
    /\ UNCHANGED <<stage, reading, fail, history, draft, file, record>>

\* A reader gives up, whatever the session goroutine is doing ...
ReaderFails ==
    /\ reading
    /\ \E op \in {"mqtt_read", "ws_read"} \cap Mishaps :
          /\ \A i \in 1 .. Len(fail) : fail[i] # op
          /\ fail' = Append(fail, op)
    /\ UNCHANGED <<stage, phase, err, reading, history, draft, file, record>>

\* ... which hears of it in the loop.
HearOfFailure ==
    /\ phase = "working" /\ stage = "event_loop" /\ fail # << >>
    /\ err' = Head(fail) /\ fail' = Tail(fail)
    /\ phase' = "failing"
    /\ UNCHANGED <<stage, reading, history, draft, file, record>>

\* The operations whose errors carry their own stage (atStage).
Wrapped == {"sensor_read", "mqtt_read", "mqtt_write", "ws_read", "ws_write"}

\* Mutant: the errors of the readers come as they are.
BlamedUnwrapped == IF err \in {"sensor_read", "mqtt_write", "ws_write"} THEN err ELSE stage

\* failure: any other error is blamed on the stage the session was at.
Blamed == IF err \in Wrapped THEN err ELSE stage

\* The session is over, and with it the channel of its readers.
Failure ==
    /\ phase = "failing"
    /\ Add(Blamed, err, "failed")
    /\ phase' = "recorded" /\ err' = None
    /\ reading' = FALSE /\ fail' = << >>
    /\ UNCHANGED <<stage, draft, file, record>>

Retry ==
    /\ phase = "recorded"
    /\ phase' = "working" /\ stage' = "retry_wait"
    /\ UNCHANGED <<err, reading, fail, history, draft, file, record>>
-----------------------------------------------------------------------------
(* The recorder, every five seconds.                                       *)

TakeSnapshot ==
    /\ phase # "gone" /\ draft = None
    /\ draft' = [stage |-> stage, events |-> events, due |-> Window(log)]
    /\ UNCHANGED <<session, history, file, record>>

\* Mutant: the session goroutine does the recording when it has nothing else
\* to do.
PublishWhenIdle ==
    /\ draft # None /\ stage \in {"event_loop", "retry_wait"}
    /\ file' = draft /\ draft' = None
    /\ UNCHANGED <<session, history, record>>

\* The file is replaced by another, complete one.
Publish ==
    /\ draft # None
    /\ file' = draft /\ draft' = None
    /\ UNCHANGED <<session, history, record>>

\* /run has no room: the file stays as it is.
WriteFails ==
    /\ draft # None
    /\ draft' = None
    /\ UNCHANGED <<session, history, file, record>>
-----------------------------------------------------------------------------
(* The process and the gateway.                                            *)

Start ==
    /\ phase = "gone"
    /\ phase' = "working" /\ stage' = "starting"
    /\ events' = << >> /\ log' = << >>
    /\ UNCHANGED <<err, reading, fail, draft, file, record>>

\* The process ends or is killed, alone or with the gateway.
Stop ==
    /\ phase # "gone"
    /\ phase' = "gone" /\ err' = None /\ reading' = FALSE /\ fail' = << >>
    /\ draft' = None
    /\ file' \in {file, None}
    /\ UNCHANGED <<stage, history, record>>
-----------------------------------------------------------------------------
(* The app, about every 30 s while a gateway is deployed.  A binding that  *)
(* does not match lets refresh raise before it fetches anything, and       *)
(* changes nothing.                                                        *)

\* sanitize
Accepted(data) ==
    /\ data.stage \in STAGES
    /\ Len(data.events) <= Capacity
    /\ \A i \in 1 .. Len(data.events) : data.events[i] \in Event

\* cat fails if there is no file.  What was fetched before stays, marked as
\* outdated.
Refresh ==
    /\ record' = IF file # None /\ Accepted(file)
                 THEN [data |-> file, error |-> FALSE]
                 ELSE [record EXCEPT !.error = TRUE]
    /\ UNCHANGED <<session, history, draft, file>>

SshFails ==
    /\ record' = [record EXCEPT !.error = TRUE]
    /\ UNCHANGED <<session, history, draft, file>>
-----------------------------------------------------------------------------
Init ==
    /\ stage = "starting" /\ phase = "gone" /\ err = None
    /\ reading = FALSE /\ fail = << >>
    /\ events = << >> /\ log = << >>
    /\ draft = None /\ file = None
    /\ record = [data |-> None, error |-> FALSE]

Session ==
    \/ Begin \/ Proceed \/ ReadSensors \/ Beat \/ Measured \/ Return \/ Poll
    \/ OperationFails \/ ReaderFails \/ HearOfFailure \/ Failure \/ Retry

Trouble == SshFails \/ WriteFails

Next ==
    \/ Session \/ TakeSnapshot \/ Publish \/ Refresh
    \/ Start \/ Stop \/ Trouble

Spec == Init /\ [][Next]_vars

\* Recorder and app go on, each in its own time.  The session goroutine may
\* block for good, which is what the diagnostics are for.
Fairness ==
    /\ WF_vars(TakeSnapshot) /\ WF_vars(Publish) /\ WF_vars(Refresh)

FairSpec == Spec /\ Fairness
-----------------------------------------------------------------------------
TypeOK ==
    /\ stage \in STAGES /\ err \in STAGES \cup {None}
    /\ phase \in {"gone", "working", "measured", "failing", "recorded"}
    /\ reading \in BOOLEAN /\ fail \in Seq({"mqtt_read", "ws_read"})
    /\ events \in Seq(Event) /\ Len(events) <= Capacity
    /\ log \in Seq(Event)
    /\ draft \in Snapshot \cup {None} /\ file \in Snapshot \cup {None}
    /\ record \in [data : Snapshot \cup {None}, error : BOOLEAN]

\* The events on the page and in the file are the last ones there were at
\* one moment, in their order, and every failure is blamed on the operation
\* that failed, whatever the session was doing when it heard of it.
HistoryHonest ==
    \A snapshot \in {draft, file, record.data} \cap Snapshot :
        snapshot.events = snapshot.due

\* A session that is stuck at a stage for good is shown at that stage on the
\* page, and the page is not marked as outdated: unless ssh keeps failing or /run
\* stays full.
StuckStageShown ==
    /\ <>[](phase # "gone") /\ <>[][stage' = stage]_vars
    /\ <>[][~Trouble]_vars
    => <>[](record.data # None /\ record.data.stage = stage /\ ~record.error)
=============================================================================
