# A TLA+ model of GARDENA Local MQTT

GARDENA Local MQTT is a Home Assistant app that takes over sensors and mower
control from a *legacy publisher* on a GARDENA gateway, and can later move that
job to a small Go service on the gateway itself. Two programs that both publish
and control would fight over the mowers, so most of the code is about handing
control over safely while containers restart, SSH calls time out and gateways
reboot. This directory holds TLA+ modules of that behaviour, TLC runs that check
them on small instances, and TLAPS proofs that hold for instances of any size.

Paths below are relative to `src/gardena_local_mqtt/`.

## 1. Inventory

| Component | State it keeps | Operations | Talks to |
|---|---|---|---|
| HTTP interface (`app.py`, `Handler`) | `DEPLOY_LOCK`, one thread per request | `activate`, `rollback`, `install`, `restore`, `cleanup`, status | writes `action.json`, `deployment_action.json`; reads both journals |
| Supervisor (`app.py`, `main`) | the worker child, the pending deployment action | start and restart the worker, run deployment actions | `deploy.py`, `cleanup.py`, worker process |
| Worker (`worker.py`) | `migration.json`, flag `active`, plan, pending commands, deadlines | take over, roll back, recover, resume, publish, forward commands | gateway over SSH, tunnel to its API, MQTT broker |
| Deployment (`deploy.py`) | `gateway_deployment.json` | install, undo, restore, refresh status | gateway over SSH |
| Gateway access (`gateway.py`) | none of its own | scripts of `systemctl` commands, snapshot, API login | the two systemd units |
| Gateway runtime (`gateway_runtime/main.go`, `transport.go`) | session, two readers, pending commands, status file | connect, subscribe, publish, forward commands, retry | local API, MQTT broker |
| Matter cleanup (`cleanup.py`, `cleanup.sh`) | `cleanup.json`, backup directory on the gateway | save, stop, mask and move legacy components | systemd |
| Telemetry plan (`telemetry.py`) | none | parse a snapshot, match existing entities, publish readings | used by the worker |
| Protocol (`protocol.py`, `transport.go`) | two sockets each, time of the last packet | MQTT and WebSocket framing, discovery, updates, mower commands | used by the worker and the runtime |
| Diagnostics (`diagnostics.go`, `diagnostics.py`) | stage, ring of events, a file in `/run`, `diagnostics.json` | record, copy, write, fetch over SSH, check | the runtime, the status page |
| Files and input (`storage.py`, `security.py`) | JSON files under `/data` | atomic replace, host name checks | everything |

What is hard about each, and what makes it correct:

- **Who controls.** HTTP threads check and then post; main and the worker act on
  what was posted, each with its own journal; the gateway executes scripts whose
  client may be gone. Correct means: never two controllers of one gateway, no
  controller without the journal a rollback needs, no journal dropped while its
  service may still start, and a way back at all times.
- **The session of the runtime.** One goroutine runs the event loop, two read; the
  broker publishes the *will* of a dead connection up to 90 s later; a subscription
  is answered with retained messages. Correct means: no stored command is executed,
  readiness and availability are claimed only by a session that listens, the
  availability becomes right in the end, and no goroutine or pending command stays.
- **The cleanup.** A script of dozens of commands, cut off anywhere, repeated, and
  possibly overlapping with its own retry, against units that triggers and old
  hooks start again. Correct means: nothing is lost, programs are moved only from
  stopped services, a completed cleanup lasts, and a cut-off one can be resumed.
- **The entities.** The worker overwrites entities that the broker retains for the
  publisher, and has to be able to put them back although each message is sent
  without acknowledgement, the process may die between any two of them, and the
  gateway may have lost a sensor meanwhile. Correct means: what was there before
  stays on record as long as anything of the worker's is retained, the publisher is
  started again only behind its own entities, `online` is never claimed for entities
  of another, and a rollback needs no sensor.
- **The worker's loop.** One thread polls sensors over SSH, waits for broker and
  gateway, and handles a packet and a frame per round; each of these may block. Answers
  come late, in another order, or never. Correct means: the broker is not kept waiting
  so long that it publishes the will of a worker that controls; a command is forwarded
  once, in order, and not from what the broker stored; what is reported about it is
  true and final; each is reported on; the shown activity is right in the end.
- **The diagnostics.** The session goroutine names its stage and records events while
  another copies them, two readers fail on their own, and the app fetches a file that a
  crash or a reboot may leave behind or remove. Correct means: what the page shows is
  one moment of the process, failures stand under the operation that failed, and a
  session that hangs is shown where it hangs.
- **Framing.** It is sequential; its boundary values are what matters, and that the two
  programs agree.

## 2. Modules

| Module | Models |
|---|---|
| `GatewayServices` | the two systemd units and SSH scripts (`gateway.py`, the scripts in `deploy.py`) |
| `Handover` | HTTP threads, `main`, `deploy.py`, the life of the worker; extends `GatewayServices` |
| `ControlOwnership` | the abstract promise: control of a gateway is given up before it is taken |
| `HandoverInvariants` | the inductive invariants of `Handover` and the assumption some of them need |
| `ControlProofs`, `OwnershipProofs` | TLAPS proofs about `Handover`: types and exclusive control; that it implements `ControlOwnership`, the lock, the restoration of what was found, the way back |
| `EntityProofs`, `SessionProofs`, `CleanupProofs`, `WorkerLoopProofs`, `DiagnosticsProofs`, `FramingProofs` | TLAPS proofs about the module of that name (`EntityProofs`: `EntityTakeover`, `SessionProofs`: `GatewaySession`) |
| `EntityTakeover` | the worker's broker connection, plan, publication and rollback (`worker.py`, `telemetry.py`), retained entities |
| `GatewaySession` | `run` and `session` of `main.go`, its connections, the broker and the users |
| `Cleanup` | `cleanup.py` and `cleanup.sh`, systemd and its triggers |
| `WorkerLoop` | the command loop of `Worker.run` with its clocks, `discover_mowers` and `apply_event` of `protocol.py`, the broker and the gateway's API |
| `Diagnostics` | `diagnostics.go`, the stages of `main.go`, `diagnostics.py` |
| `Framing` | how packets and frames are cut out of a stream (`protocol.py`, `transport.go`); operators only |
| `MCFraming` | `Framing` against the loops of the code as they are written, at the boundaries |
| `MCHandover`, `MCEntityTakeover`, `MCGatewaySession`, `MCCleanup`, `MCWorkerLoop`, `MCDiagnostics` | instances for TLC |

### Handover

The state is the files (`migration`, `gatewayDeployment`, `action`,
`deploymentAction`, `statusMode`), the lock, the place of every HTTP thread, of main
and of the worker, and the gateways' units. A file is replaced atomically by
`storage.write`, so one write is one step. A handler takes one step per file it
reads (`PostControl`, `CheckDeployment`, `CheckLock`, `CheckMigration`, `WriteAction`):
what it checked may have changed when it writes. An SSH call is started by one
action and its result taken by another; between them `RemoteStep` executes the
commands of the script one at a time, any of them may fail, and `Abandon` breaks the
connection with any number of them done. `InstallFails`, `UndoFails` and the other
failure actions are the `except` branches. `AppDown` ends the container at any point and
`AppStart` starts it again with any options, as the user may change them.

`worker.py` is modelled as the steps of `Worker.run` up to and including its command
loop: `WorkerStart` (binding check), `WorkerPrepared`, `WorkerDiscovered` (recovery of a
half-done takeover, or resumption), `WorkerTakesAction`, `Activate...`, `RollbackDone`.
`WorkerFails` is an exception caught in `worker.main`, `WorkerDies` the end of the process.

Two commands of the scripts are questions, and the code reads their answers in
opposite ways. `verify` is `if systemctl is-active --quiet UNIT; then exit 1; fi`: every answer
but "active" passes, also that of a query that fails or of a unit in `activating
(auto-restart)`, which the shipped unit with `Restart=always` comes to. So `running` is what
systemd keeps up, active or waiting for its restart, and `Passes` lets the check pass
beside a running unit wherever `FailingCommands` has `<<"verify", unit>>`; it never makes a
script fail beside a stopped one. `find` is `if systemctl cat UNIT; then stop; disable; fi` of
`stop_publisher`: when it fails, both are skipped without an error and the check is what is
left (`AfterFailure`).

Payloads, plans and hashes are abstracted: a set of options is a member of
`Bindings`, a publisher state a subset of `{"active", "enabled"}`.

### EntityTakeover

`Handover` knows nothing of what the worker sends to the broker; this module knows
nothing of single `systemctl` commands. An entity is a pair of the key under which it
is announced (the publisher's or the worker's own) and a resource; `Content` is whose
configuration its topic retains. `place` walks through `Worker.run`: `Connect`, then
`BeginRollback`, `Continue` (journal found) or `Preview` (none), `CollectionSettles`, the
loop with `TakeActivate`, `TakeRollback`, `TakeNothing` and `Poll`, and from there `activate`
(`Record`, `StopPublisher`, `Confirm`), publication (`Publish` once per topic, `SayOnline`) and
`rollback` (`SayOffline`, `GiveBack` once per topic, `HandBack`, `Close`). What the finally
branch of `run` does is in `EndSession`, which `Return` and `Fail` share.

A message over a working connection is retained at once, and one over a broken `link` is
lost without a word (`Retains`, `SaysAvailability`). What is still on its way to the broker
when the connection breaks is therefore modelled as sent over a broken one: it counts as
unheard, and a rollback of which anything was unheard as `doubtful`. The worker may go on for a while until an error or its keep-alive
tells it (`Fail`), and the broker publishes the will at any later time
(`BrokerNotices`), even into the next session. `CannotServe` names the errors that the
sensors cause: a value that is gone, entities under two keys. A collection may miss
entities (`CollectionSettles` takes any part of what was found), and the publisher may
announce more until it is stopped.

### WorkerLoop

`place` is where `Worker.run` is: in `discover_mowers`, or at one of the statements of the
loop (`top`: read `action.json`, `poll`, `wait`: `select`, `mqtt`, `ws`, `end`: deadlines and
ping). Every call that may block takes a time up to its limit, and the clocks `sinceSend`,
`sinceIo` (`mqtt.last_io`) and `toPoll` (`next_poll`) move by it: `Elapse` if nothing is
exchanged with the broker, `SendAfter` and `ReceiveAfter` if something is. They start with
CONNECT: `OpenSession` takes up to `OpenTime` (login, tunnel, handshake), each frame in
`Discover` up to `PacketTime` until the deadline `DiscoverTime`, and `EnterLoop` two SSH calls
(the snapshot, and `stop_publisher` or a restoration) before it subscribes. All of this may
take longer than the broker waits; the worker learns it when it reads (`FindsClosed`), and what
it sends before is lost. A takeover,
whose effects are in `Handover` and `EntityTakeover`, is one step of limited length
(`Activate`). `ReadMqtt` is the whole branch, with the three conditions for forwarding
and the `continue` of a command the mower does not support; `ReadWebSocket` settles
commands and applies updates; `EndRound` gives up on those in `late`, whose 30 s
(`BecomesLate`) are over. `select` and `ws.sock.pending()` are one step: what TLS has
already buffered counts as readable. `Fail` is any exception, a rollback, or the end of
the process: all of them close both connections.

The gateway carries a command out or refuses it (`TakeCommand`), and answers later, in
any order, or never (`owes`). It reports changes of the activity as they happen
(`MowerChanges`), in a stream of frames of its own. `forwarded`, `verdict` and `overlooked` are
history.

### Diagnostics

`stage` and `events` are the part of `diagnosticState` that can be wrong without a counter
showing it; `phase` is what the session goroutine does between two changes of stage.
Each operation of `session` that may fail does so under the error the code wraps it in
(`Wrapped`, `Blamed`); a reader's error waits in the channel `fail` until the loop hears of it.
`TakeSnapshot` and `Publish` are the two halves of `write`: between them the session goes
on. Adding an event and taking a snapshot are one step each, as both hold the mutex: that
the mutex is held where it has to be is read in the code, not checked. `Stop` may hit between any two steps and may take `/run` along. `Refresh` fetches, checks
(`Accepted`) and stores. `log` and `due` are history: all events as they really were, and
those a snapshot should have.

### Framing

Encoders (`Encoded`, `MqttString`, `Header`) and readers (`LengthEnds`, `Value`, `Parses`,
`HeaderLength`, `FrameLength`) as functions of byte sequences. `AppTakes` and `RuntimeTakes` are
the length loops of the two programs, which look at the packet limit at different
moments.

### GatewaySession

A *slot* holds one session with everything it leaves behind: connections, reader
goroutines, channels, and what the broker knows of it. The main goroutine walks
through `OpenWebSocket`, `ConnectBroker`, `Subscribe`, `AwaitSuback`, `Announce` to the
event loop (`Stops`, `LoopFails`, `Poll`, `Heartbeat`, `TakeCommand`, `TakeEvent`), then the
deferred calls (`Leave` closes `done`, `SayOffline`, `Close`). A reader reads, passes on or
is told to end, and reports at most one error. The broker processes what a client
sent before it died or loses it, and publishes the will when it notices. `link` is
the client's side of a connection; `broker` the other one, which may be stale.

### Cleanup

Every command of the script that touches a unit or an item is an action, with `pc`
and `at` as the position. `disk` is what lies in `/etc/systemd/system`, `loaded` what
systemd has in memory; they differ until `Reload`, a reboot, or until systemd forgets
an idle unit (`Forgets`). `Refuse` is an `exit` or a failing test of the script,
`CommandFails` any other failing command under `set -e`. `LoseClient` is the 180 s
timeout, a broken connection or the end of the app: the script goes on while the app may
start another. `ReportUnhealthy` is the health check of `cleanup.py` that fails after the
script was through. A backup takes three steps: `Save` tests for a copy and compares it,
`Copy` creates the file or truncates the one that another script has made since, `Write`
fills it. A copy is "torn" from its creation until it is written, and stays so if the script is
cut off between, by a reboot or a failing `cp`; it is "overwritten" once a script wrote over
another's, or copied the mask that had taken the place of the file. What was written is
on the disk: a copy that is full survives a reboot. `hooked` is history: an old restore
hook has started a unit. A move within the gateway's file system is a rename and takes
place or not.

## 3. Runs

| Run | Instance | Shows |
|---|---|---|
| `settings` | 2 gateways with options of their own, 1 thread, users who do not wait, publisher in service, any command but `disable gardena-local` may fail, the check of the publisher may pass wrongly | `OneController`, the gateway journal keeps the worker away and is dropped behind a stopped service only, one deployment at a time, and `Handover` implements `ControlOwnership` |
| `recovery` | 1 gateway, publisher found in any state, users who wait for earlier requests, both checks may pass wrongly and the publisher's unit file may not be found, fair | a way back stays open; the publisher is restored as it was found; deployment actions end; a half-done takeover is resolved and control resumes once outages cease |
| `entities` | 2 resources of which one may vanish, fair | originals stay on record, the publisher comes after its entities, truthful availability, a rollback without sensors |
| `session_availability` | 2 overlapping sessions, no commands, fair | readiness and `online` only with a subscription; availability heals, and is offline when the service stays down |
| `session_commands` | 1 session, 1 command, fair | no stored command is executed; readers of a closed connection end; pending commands are given up |
| `worker_loop` | 2 commands, 2 activities, calls that take up to one unit of time, a discovery that may outlast the broker's patience, fair | no will for a worker in control that the broker knows, and one that resumed too late forwards nothing; commands forwarded once and in order, reported truthfully, once, and at all; the shown activity catches up. Also evaluates `MCFraming` |
| `diagnostics` | a ring of one event, two events per process, a set-up of one stage, fair | snapshots of one moment, failures under their own stage, a stuck session shown where it is stuck |
| `cleanup` | 2 units, 1 item, 2 overlapping scripts, torn and overwritten copies, hooks, fair | nothing is lost but by a copy over a copy, items move from stopped units only, a completed cleanup lasts; a cut-off one gets done |

Four more runs end in a counterexample, each against a sentence of the repository:

| Run | Property | The sentence | What happens |
|---|---|---|---|
| `no_way_back` | `ReturnPossible` | DOCS.md 69: restoring HA operation | a rollback posted just before an installation removes `migration.json` under it; `restore` is refused from then on |
| `stale_rollback` | `RestoreReturnsToHA` | `deploy.py` 221: "this returns to the saved HA runtime" | a rollback posted before an installation stays in `action.json` and is executed after the restoration |
| `lingering` | `NoParallelControl` | `deploy.py` 206: "to prevent two controllers" | a switch script that outlived its SSH client starts the runtime after the undo verified it stopped |
| `cleanup_torn_copy` | `PartialRunsResume` | `cleanup.sh` 24: "partial runs can be resumed" | a copy torn by a reboot is never overwritten and refused by every later run |

Of the passing runs `settings` is the largest (1.5 million states, two minutes), then
`cleanup` (1.0 million, three minutes, most of them for liveness), `worker_loop` (0.7 million, three minutes) and
`recovery` (65 thousand, one and a half minutes; its liveness properties take the time).

Some relatives of these are listed as hazards only. TLC finds each of them when the
restriction it names is dropped:

- *A failing `disable` of the runtime.* The undo is judged by its last command, so this
  failure goes unnoticed, and the runtime starts at the next reboot beside the worker.
- *A failing `stop` of the runtime, and a check that passes wrongly.* The undo drops the journal
  beside a running runtime, although `deploy.py` 206 says that it keeps it "if gateway cannot
  be stopped/verified".
- *A failing `systemctl cat`, and a check that passes wrongly.* `stop_publisher` skips stop and
  disable, succeeds, and the worker or the runtime takes control beside the publisher.
- *A unit that a hook starts between its stop and the reload* is masked while it runs; later
  runs skip its stop because it is masked, and refuse because it runs. `CleanupResumes` has
  as its premise that no hook starts a unit (and that no copy is left torn, see
  `cleanup_torn_copy`).
- *A copy over a copy.* Script r2 finds no backup of a unit (`cleanup.sh` 29); r1 saves the file,
  stops, and comes to the masks; the `cp` of r2 (38) truncates the backup, r1 removes the file,
  and the gateway reboots: the original is nowhere, although line 24 says that "existing
  backups are never overwritten". `NothingLost` excepts the overwritten copies, and only these.

### Bounds, and why they are enough

- One gateway shows every interleaving of the parties; two are needed where
  changed options make a journal name another gateway than the options. More
  would only repeat that: the app works on one gateway at a time.
- One HTTP thread already interleaves with main and the worker, and a request of it
  may meet a deployment that main has not finished. Races of several threads are
  covered by the proofs, which hold for any number of them.
- With `PatientUser` a deployment is asked for only when all earlier requests are
  settled, and nothing is asked while a request for a deployment is being answered. This
  separates the findings about overlapping requests from everything else:
  `ReturnPossible` is false without it (`no_way_back`), and so is `RestoreReturnsToHA`
  (`stale_rollback`); with it both are theorems.
- `FailingCommands` and `SshMayLinger` state what the gateway may do. The finding
  `lingering` and its relatives drop one each of the restrictions under which `OneController`
  holds (`ReliableGateway`). In `settings` any command that changes a unit may fail but
  `disable gardena-local`, and the check of the publisher may be blind: with `stop` and `disable`
  as "must" commands before it, exclusive control does not rest on that check. The check of
  the service is exact there, since its `stop` may fail. `recovery` has it the other way
  round: no answer of `systemctl` can be relied on, the publisher's unit file may not be
  found, and `stop gardena-local` works; its properties do not need exclusive control.
- Two resources, of which one may vanish, make partial publication, partial rollback
  and a plan that cannot be served any more all reachable; the two keys make
  entities that cannot be told apart reachable. Resources are interchangeable.
- At most one script lingers: a lingering script and a current one are the two
  that can disagree.
- Two session slots let leftovers of one session overlap with the next. Channels
  hold 1 message instead of 16, one command may be pending instead of 32, the stream
  to the broker holds one message: full and empty are both reached. A command is
  published once, so that a second execution can be told; commands are left out where
  sessions overlap, as they change nothing about availability.
- Two commands are what it takes for a late answer to meet a later command; one may be
  pending instead of 32 and each stream holds one message, so full and empty are both
  reached. Two activities tell a stale one from the right one; both have a name, as
  one without is not shown at all. Select, a packet in pieces and the poll period take one
  unit at most, an SSH call none, and the broker is as impatient as `TimesAssumption`
  allows. A discovery of up to five frames is as long as it takes to outlast that patience. Other proportions are covered by the proof of `KeepAlive`.
- The ring holds one event instead of 32, and a process has two of them: the ring
  overflows. One stage of set-up stands for five that differ by name only. Of the
  operations that may fail (`Mishaps`), a reader's has a stage of its own while the session
  goroutine is anywhere, and a connection's is blamed on the session's stage; slow
  reads and late heartbeats, which end no session, are covered by the proofs only.
- Cleanup has one trigger with its service, one item and two scripts: the current
  one and one that lost its client. Units interact only through triggers.

### Fairness

- `Handover`: the supervisor, the worker except while it idles in its loop, the
  gateway's scripts, HTTP threads and the start of the app. Processes are scheduled,
  SSH calls end by their timeouts, and Home Assistant restarts the app. Nothing
  makes a healthy worker fail.
- `EntityTakeover`: the worker's process runs and each of its calls ends, be it by its
  timeout; the broker notices a dead connection (keep-alive), and the worker too (a
  send or receive fails in the end). Nothing makes users, sensors or the publisher
  act.
- `GatewaySession`: Go schedules runnable goroutines, `select` chooses at random among
  ready cases so each case that stays ready is taken, tickers tick, each network
  call has a deadline, systemd has `Restart=always`, the broker enforces keep-alive.
- `WorkerLoop`: the thread of the loop goes on (each of its calls has a limit), the
  gateway takes what it was sent, and 30 s pass. No answer, packet, update or failure
  has to come.
- `Diagnostics`: the recorder's ticker and the app's refresh go on, and systemd's `/run` and
  SSH work in the end by the premise of `StuckStageShown`. Nothing is assumed of the session
  goroutine, which may block for good: that is what the diagnostics are for.
- `Cleanup`: commands come to an end and the user tries again until it is done. For the scripts
  `Fairness` is weak fairness of `Step(s)` written out: a script infinitely often does not run,
  or infinitely often goes on to another command (`pc[s]`, `at[s]`). `Step(s)` is enabled exactly
  when the script runs, and every other action that moves a running script ends it.

Properties of the form "once outages cease" have `OutagesCease` or its like as their
premise and claim nothing about a network that never recovers. In `Cleanup` a script
that exits by its own test does not count as an outage, even where a failing command
would have had the same effect (`Interrupts`): this is what lets `cleanup_torn_copy` show
retries that refuse for ever. `RollbackWorks` asks for a user who
asks again, since `worker.py` clears a request before it carries it out.

`CommandJudged` and `ActivityCatchesUp` have a premise that the code makes necessary:
that commands the mower does not support cease (`Supported`). The `continue` of such a command
skips frames and deadlines of its round, and a steady stream of them keeps both from
being looked at. `ActivityCatchesUp` also excepts an update that `discover_mowers` threw away
because it came between the two answers (`overlooked`); it is lost until the mower
changes again.

## 4. Proofs

The theorems hold for any values of the constants under the named assumptions
(`HandoverAssumption`, `GatewayAssumption`, `TakeoverAssumption`, `CleanupAssumption`,
`LoopAssumption`, `TimesAssumption`, `DiagnosticsAssumption`, `SessionAssumption`): any sets
of gateways, options, threads, resources, units, items, scripts and activities, any limits and capacities.

### Handover

- `TypeCorrect` (`ControlProofs`): `TypeOK`, with no assumption on the gateway. It
  needs `TakeoverJournaled`, as `ActivateDone` updates the journal it has written.
- `ControlInvariantHolds`, `OneControllerHolds`, `ControlIsJournaledHolds`,
  `JournalDroppedWhenStoppedHolds` (`ControlProofs`): under `ReliableGateway`, which is four facts
  that the code takes for granted: no script outlives its client; `disable gardena-local.service`
  does not fail; `systemctl cat` finds the publisher's unit file if there is one; and stop and
  check of `gardena-local.service` do not both go wrong. Any other command may fail and the
  check of the publisher may pass while it runs. The run `lingering` and the relatives
  described with it show that none of the four can be dropped for exclusive control.
- `JournalBlocksWorkerHolds` (`ControlProofs`) without that assumption, whatever commands
  fail and whatever scripts linger: no worker process exists beside the gateway
  journal once `stop_worker` is through. It rests on the app's files and
  processes alone, by two invariants of their own, `MainHoldsJournal` (at which places
  main has the journal) and `WorkerExcluded`; `ExclusionKept` is their induction step.

`OneController` is not inductive: a state in which main waits for a switch script
while the publisher runs satisfies it, and its next step does not.
`ControlInvariant` adds what each place of main and of the worker knows about the
script it waits for (`CallsAsExpected`; what has been stopped so far counts only where the
script would have ended otherwise, `Decisive`) and how journals, processes and services go
together (`JournalsTellWhoControls`): the runtime never exists without a journal for
its gateway, a worker never beside that journal, and an active worker or a runtime
has displaced the publisher. `ControlProofs` shows first how a script progresses
(`StoppingGoesOn`, `StartingGoesOn`, `RestoringGoesOn`, `RebootKeeps`), then that each step of
main (`MainKeeps`), of the worker (`WorkerKeeps`) and of the rest of the app (`AppKeeps`)
keeps the invariant; most steps fall under one of two frame lemmas, `QuietMove` and
`WorkerlessMove`.

- `ImplementsOwnership` (`OwnershipProofs`): under `ReliableGateway`, `Handover` implements
  `ControlOwnership`. A step of the app changes the owner of one gateway at most
  (`OneHostMoves`), a command or a reboot of a gateway only that of its own
  (`CommandMovesOwner`, `RebootMovesOwner`); that the change passes through "nobody"
  follows from `ControlInvariant` before and after the step.
- `OneDeploymentHolds` (`OwnershipProofs`), without any assumption on the gateway and for any
  number of threads. `OneDeployment` is not inductive, as it says nothing of who has
  `DEPLOY_LOCK`; `LockInv` adds that a thread past the lock, a posted action and main at
  work exclude each other and that each of them means the lock is taken.
- `RestoredAsFoundHolds` and `RecordKeptHolds` (`OwnershipProofs`), under `ReliableGateway`: the
  worker drops `migration.json` only when the publisher's autostart is as it was before
  the takeover and it runs if it did, and nothing changes the record in between. The
  restoration is a script of its own whose answer may come long after, and it is repeated
  after every crash, so `RecordInvariant` has three parts: what a restoration under way has
  reached, and that it restores the record of the journal (`RestoresTheRecord`); that
  nobody else adds autostart to the publisher meanwhile (`NothingAdded`); and that a
  reading of the gateway that is on its way into a new journal is still right, or there is
  a journal already (`ReadingStands`, `NothingOverwritten`).
- `ReturnPossibleHolds`, `RecordedBeforeTouchedHolds` and `RestoreReturnsToHAHolds`
  (`OwnershipProofs`), under `PatientUser`; only the second one needs `ReliableGateway`. The
  inductive invariant is `PatientInvariant`: while a request for a deployment is answered,
  posted or carried out nothing else is asked (`NothingElseAsked`, `AskedAlone`), the
  migration journal stays active as long as there is a gateway journal
  (`JournalStaysActive`), and a worker that recovers has found a half-done takeover
  (`RecoversInterrupted`), so that its rollback cannot hit an active one. For
  `RestoreReturnsToHA` it is joined with `LockInv` and `NothingAskedSince`.

### EntityTakeover

`TypeCorrect`, `OriginalsKeptHolds`, `EntitiesBeforePublisherHolds` and
`OnlineWhenPublishedHolds` (`EntityProofs`) follow from one invariant, `Inv`.
`OriginalsKept` alone is not inductive: it says nothing about the plan that a new
journal is made of. `Originals` adds that what is collected, planned and on record is
what the publisher had announced, and that the broker has nothing but that, the
worker's configuration, or nothing; `Covered` is the property itself, and `GivenBack` says
what of it a rollback has still to do. These three hold unless `doubtful`, that is, as
long as no rollback ended with something unheard. `Placed` says what the journal and
the publisher are at each place of `Worker.run`, and `Published` what a round of
publication has reached; both hold in any case. No assumption is made on connections
or sensors.

### GatewaySession

All results hold for any number of slots, commands and capacities, and need no fairness.

- `TypeCorrect` (`SessionProofs`): `TypeOK` with the capacities of the channels. `Typed` adds
  that a slot is taken exactly while a session is on, and that a reader which passes
  something on holds a message.
- `ReadyMeansServingHolds`: `ReadyAtStage` says at which places of the main goroutine the status
  may be "ready"; `Connections` says which connections are open there, and that only a
  subscribed client has "online" on its stream to the broker. Together they are
  `SaysWhatIs`. What an older session left behind never touches the status file.
- `OnlineMeansListeningHolds`, an action property, from the same invariant.
- `NoStoredCommandHolds`: `NoStoredCommand` looks at what was carried out. `ToldOnce` follows a
  command on its way there, through the stream of the broker, a reader's hand, the
  channel and the loop: a message that is not marked as retained is on one of these at
  most once in all (`Underway`), and is not there any more once it was carried out
  (`ExecutedOnce`). A retained one may be delivered with every subscription and is
  discarded by its mark.
- `ReportsFindRoomHolds`: a reader whose connection failed always finds room for its error
  (the channel `fail` has room for two). `RoomForErrors` counts: the errors in the channel and
  the readers that may still report never exceed its capacity.

### Cleanup

`TypeCorrect`, `NothingLostHolds` and `CompleteIsFinalHolds` (`CleanupProofs`). No step takes
back what was established for a unit or an item (`FactsLast`): a copy that was made is there,
full or overwritten, a unit file never comes back, a unit without a file is not loaded
again, an item stays moved. So what a script has established for the elements before its position
(`Established`) outlasts every other script, and the only facts to prove of a step are
those about its own element. Torn copies, hooks, failing commands and reboots are
all included. A test and the copy after it are apart, and what a script found may be
overtaken by another one: `NothingLost` excepts a copy that was made over a copy, and
`SaveGoesInto` and `SaveEstablishes` show that no other step of a backup gives up a full one.

`MovesWhenStoppedHolds`, the action property that items move from stopped units only, needs
more: a stopped service may be started again by a trigger that runs. `StaysStopped` says
that every unit a script has passed in its loop of stops is still stopped (`Stopped`),
unless a hook started one (`hooked`). It is inductive because the triggers come first in
the list of `cleanup.sh` and activate services only, which `CleanupAssumption` requires of
the list: no trigger runs any more when the first service is stopped. A script that has
come to the items has passed all units.

### WorkerLoop

- `TypeCorrect`: types, with `ReadableOK` (what is about to be read is there).
- `StaysConnected`: `KeepAlive` for all limits that satisfy `TimesAssumption`, and any length of
  the set-up (`OpenTime`, `DiscoverTime`). `Punctual` is the strengthening for a worker in
  control that the broker knows: how long ago the last packet to the broker was at each place
  of the loop, in terms of the time to the next poll. With the values of the code (poll
  30 s, select 1 s, packet 15 s, ping after 15 s, SSH 20 s, collection 10 s and one packet more,
  keep-alive 60 s and a half) the three sums of `TimesAssumption` are 81, 61 and 85 s against
  90 s. The set-up has no such bound: a worker that resumes control sends nothing between
  CONNECT (`worker.py` 148) and the subscription (178), and login, tunnel, handshake, 30 s of
  discovery, snapshot and `stop_publisher` can take more than 90 s in all, so that the will may
  say `offline` while `active` becomes true (174). For such a worker `KeepAlive` says that it
  forwards no command and gets no further than to the first read, which finds the connection
  closed (`TooLate`).
- `ReportsAreTrue`, `ForwardsInOrder`, `ReportsAreFinal`: from `CommandInv`, which follows a command
  from the broker over the gateway to its answer (`BrokerInOrder`, `GatewayInOrder`,
  `AnswersTrue`, `ReportedOnce`).

### Diagnostics

`TypeCorrect` and `HistoryIsHonest` for any capacity and any number of events. The
invariant says that the ring is `Window(log)`; `WindowMoves` is the lemma that dropping the
oldest and appending is what moving the window by one does.

### Framing

`LengthIsKept`, `ReadersAgree`, `PacketsStayApart`, `PublishParses` and `FrameLengthIsKept`
(`FramingProofs`) hold for every length and content, with the limits of the code: what
was encoded is read as it was, by either program, and leaves the reader at the next
packet. They are theorems about operators; the `ASSUME`s of `MCFraming` tie these to the
loops as they are written.

### What is only model-checked

Every invariant and action property of the passing runs is a theorem. What remains with TLC
is liveness: `DeploymentEnds`, `TakeoverResolved`, `ControlResumes`, `RollbackWorks`,
`AvailabilityHeals`, `OfflineWhenDown`, `OfflineWithoutControl`, `ReadersEnd`, `PendingDrains`,
`CommandJudged`, `ActivityCatchesUp`, `StuckStageShown`, `CleanupResumes`. They hold under
fairness, which is defined by ENABLED, and the prover has no rules for it. That `Encoded` is
what the recursive loop of the code computes is evaluated at the boundaries and not proved:
an induction over data is out of the prover's reach.

## 5. Not modelled

- Writes to `/data` are assumed to succeed; a full disk is not modelled (a failing write of
  `deployment_action.json` at `app.py` 126 would keep `DEPLOY_LOCK` for good). Power loss
  between a write and the disk is modelled only as the torn copy of the cleanup.
- Freshness times of the status page, wording, HTML, logs.
- Payloads: sensor values, discovery configurations, the table of mower commands and the
  reading of an activity from the gateway's data. Handshakes of both protocols, UTF-8 and
  the masking of WebSocket frames.
- TLS, passwords, host names and options (`security.py`): checks of single strings and
  fixed SSH options, without state, order or a second actor.
- The counters and durations of the diagnostics, and the kinds of errors. They are
  written under the same lock as the stage and no decision depends on them.
- The HTTP interface's reads (`do_GET`) and its 16 connection slots.
- The worker's will against the availability of its successor; `EntityTakeover` has the
  will, but not a runtime that publishes on the same topic. `deploy.py` stops the worker and the publisher
  before it starts the runtime, whose own session says `online` with every poll.
- The broker keeps its retained messages and its queue order; its own loss of state
  is not modelled. Users publish a command once per run of the model.
- Parsing of the gateway's snapshot, units and templates of entities: a snapshot is the
  set of resources it has values of. A gateway with several devices and no existing
  entities is served the same way, and is not in the instances.
- The staging of a release on the gateway before the journal is written is a single
  step that may fail; it touches nothing that the properties are about.

## 6. Plan

Done: the handover with its refinement, the entities, the runtime's session, the cleanup,
the worker's loop, the diagnostics and the framing, with runs and proofs of all their
safety and action properties.

What is left, in this order:

1. `NoPartialTakeover`: `make_plan` promises "no silent partial takeover"
   (`telemetry.py` 134), but a collection ends after a second of silence, and the
   publisher may announce another sensor before it is stopped. `EntityTakeover` has these
   behaviours; the promise is to be stated over it and shown violated, or
   the premise named under which it holds.
2. Availability across the handover: the worker's will and the runtime's `online` on one
   topic, as a composition of `EntityTakeover` and `GatewaySession` over their broker.
3. The safety half of the liveness properties, where it says something of its own: that
   what fairness has to move is always able to move (`ReportsFindRoomHolds` is one of these).
