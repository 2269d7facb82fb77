------------------------- MODULE HandoverInvariants -------------------------
(***************************************************************************)
(* The inductive invariants of Handover.                                   *)
(*                                                                         *)
(* ControlInvariant is behind OneController and JournalDroppedWhenStopped. *)
(* It says for every place of main and of the worker which script may be   *)
(* under way and what its progress guarantees.                             *)
(*                                                                         *)
(* It needs facts about the gateway that the code takes for granted.  A    *)
(* script dies with its client; `systemctl disable gardena-local.service`  *)
(* does not fail; the publisher's unit file is found if there is one; and  *)
(* when `systemctl stop gardena-local.service` fails, the check after it   *)
(* sees that the service is active.  Where the last one does not hold, the *)
(* undo of a failed handover drops the journal beside a running service.   *)
(***************************************************************************)
EXTENDS Handover

ReliableGateway ==
    /\ SshMayLinger = FALSE
    /\ <<"disable", "runtime">> \notin FailingCommands
    /\ <<"find", "legacy">> \notin FailingCommands
    /\ \/ <<"stop", "runtime">> \notin FailingCommands
       \/ <<"verify", "runtime">> \notin FailingCommands

Silent(h, u) == <<h, u>> \notin running /\ <<h, u>> \notin enabled

\* A call to the gateway of the options in force, with rest as the commands
\* not yet executed.
OnItsWay(c, rest) == remote[c] = Running(host, rest)

\* A script does not go on beside a unit that it was to stop.
Decisive(u, stop) == stop.must \/ <<"stop", u>> \notin FailingCommands
Stopped(u, stop) == Decisive(u, stop) => <<host, u>> \notin running

\* A script that stops a unit u, disables it and verifies.
Stopping(c, u, stop, disable) ==
    \/ remote[c] = Failed
    \/ OnItsWay(c, << stop, disable, Must("verify", u) >>)
    \/ OnItsWay(c, << disable, Must("verify", u) >>) /\ Stopped(u, stop)
    \/ /\ OnItsWay(c, << Must("verify", u) >>)
       /\ Stopped(u, stop) /\ <<host, u>> \notin enabled
    \/ OnItsWay(c, << >>) /\ Silent(host, u)

StoppingLegacy(c) ==
    \/ OnItsWay(c, StopPublisher)
    \/ Stopping(c, "legacy", Must("stop", "legacy"), Must("disable", "legacy"))

RestoringLegacy ==
    \/ remote["worker"] = Failed
    \/ \E rest \in { << Must("enable", "legacy"), Must("start", "legacy") >>,
                     << Must("enable", "legacy") >>, << Must("start", "legacy") >>, << >> } :
          OnItsWay("worker", rest)

StartingRuntime ==
    \/ remote["main"] = Failed
    \/ \E rest \in { SwitchRuntime, << Must("enable", "runtime"), Must("start", "runtime") >>,
                     << Must("start", "runtime") >>, << >> } :
          OnItsWay("main", rest)

\* What main is waiting for, place by place.
MainCalls ==
    /\ mainPc = "stopLegacy" => StoppingLegacy("main")
    /\ mainPc = "switch" => StartingRuntime /\ Silent(host, "legacy")
    /\ mainPc = "undo" =>
         Stopping("main", "runtime", Try("stop", "runtime"), Try("disable", "runtime"))
    /\ mainPc = "restoring" =>
         Stopping("main", "runtime", Must("stop", "runtime"), Must("disable", "runtime"))
    /\ mainPc \notin {"stopLegacy", "switch", "undo", "restoring"} =>
         remote["main"] = NoCall

\* What the worker is waiting for, place by place.
WorkerCalls ==
    /\ workerPc \in {"takeover", "resume"} => StoppingLegacy("worker")
    /\ workerPc \in {"recover", "rollback", "startupRollback"} => RestoringLegacy
    /\ workerPc \notin {"takeover", "resume", "recover", "rollback", "startupRollback"} =>
         remote["worker"] = NoCall

\* While main changes the runtime, the journal names the gateway it is on.
MainHoldsJournal ==
    mainPc \in {"stopWorker", "stopLegacy", "switch", "health", "undo", "restoring"} =>
        gatewayDeployment # NoDeployment /\ gatewayDeployment.binding = config

\* The worker and the gateway journal exclude each other, except on the way
\* from the journal to stop_worker, when there is no runtime yet.
WorkerOrJournal ==
    workerPc # "none" =>
        /\ mainPc # "down"
        /\ gatewayDeployment # NoDeployment => mainPc = "stopWorker"
        /\ Silent(host, "runtime")

\* The part of it that does not depend on what the gateway does.
WorkerExcluded ==
    workerPc # "none" =>
        mainPc # "down" /\ (gatewayDeployment # NoDeployment => mainPc = "stopWorker")

\* Without a journal for its gateway no runtime runs or would be started.
RuntimeJournaled ==
    \A h \in Hosts :
        gatewayDeployment = NoDeployment \/ HostOf[gatewayDeployment.binding] # h
            => Silent(h, "runtime")

\* A runtime that runs or would be started has displaced the publisher.
RuntimeDisplacesLegacy ==
    \A h \in Hosts : Silent(h, "runtime") \/ Silent(h, "legacy")

\* So has an active worker, until it starts a rollback.
WorkerDisplacesLegacy ==
    /\ workerActive => workerPc \in {"loop", "rollback"}
    /\ workerActive /\ workerPc = "loop" => Silent(host, "legacy")

\* Both journals are about the same options, and an installation that passed
\* its check replaces no journal of other ones.
SameBinding ==
    /\ gatewayDeployment # NoDeployment /\ migration # NoMigration =>
          gatewayDeployment.binding = migration.binding
    /\ mainPc = "prepare" =>
          /\ gatewayDeployment # NoDeployment => gatewayDeployment.binding = config
          /\ migration # NoMigration => migration.binding = config

\* A worker that stops the legacy publisher has written its journal before.
TakeoverJournaled == workerPc = "takeover" => migration # NoMigration

\* A worker that controls or is about to resume holds an active journal, and
\* none that got past its first check works on a journal of other options.
WorkerJournal ==
    /\ workerActive \/ workerPc = "resume" => migration.phase = "active"
    /\ /\ workerPc \notin {"none", "exited", "died", "retry", "start"}
       /\ migration # NoMigration
       => migration.binding = config

\* Which commands are on their way ...
CallsAsExpected == lingering = NoCall /\ MainCalls /\ WorkerCalls

\* ... and what the journals, processes and services have to do with each other.
JournalsTellWhoControls ==
    /\ MainHoldsJournal
    /\ WorkerOrJournal
    /\ RuntimeJournaled
    /\ RuntimeDisplacesLegacy
    /\ WorkerDisplacesLegacy
    /\ SameBinding
    /\ WorkerJournal

ControlInvariant ==
    TypeOK /\ TakeoverJournaled /\ CallsAsExpected /\ JournalsTellWhoControls
-----------------------------------------------------------------------------
(* The invariant behind RestoredAsFound: the journal remembers what the    *)
(* publisher was when it was written, and a restore script that is under   *)
(* way has brought back the part of it that its commands stand for.        *)

RestoringTo(previous) ==
    \/ remote["worker"] = Failed
    \/ OnItsWay("worker", RestorePublisher(previous))
    \/ /\ OnItsWay("worker", << Must("start", "legacy") >>)
       /\ previous = {"active", "enabled"} /\ LegacyEnabled(host)
    \/ OnItsWay("worker", << >>) /\ AsFound(host, previous)

\* A restore script brings back what the journal names ...
RestoresTheRecord ==
    workerPc \in {"recover", "rollback", "startupRollback"} =>
        migration # NoMigration /\ RestoringTo(migration.previous)

\* ... and nobody enables a publisher that was found disabled.
NothingAdded ==
    migration # NoMigration /\ "enabled" \notin migration.previous =>
        ~LegacyEnabled(HostOf[migration.binding])

\* What activate() has read is still true when it writes the journal.
ReadingStands ==
    workerPc = "journal" => (LegacyEnabled(host) <=> "enabled" \in observed)

\* A takeover begins only without a journal: it overwrites none.
NothingOverwritten ==
    workerPc \in {"activating", "journal"} \/ (workerPc = "loop" /\ ~workerActive) =>
        migration = NoMigration

RecordInvariant ==
    RestoresTheRecord /\ NothingAdded /\ ReadingStands /\ NothingOverwritten

\* The journal of a takeover keeps its options and what was found, until it
\* is dropped (worker.py: activate, rollback, run).
RecordKept ==
    [][ migration # NoMigration /\ migration' # NoMigration =>
          migration' \in {migration, [migration EXCEPT !.phase = "active"]} ]_vars
-----------------------------------------------------------------------------
(* The invariant behind ReturnPossible, for a patient user: from the post  *)
(* of a deployment request to the release of DEPLOY_LOCK no takeover or    *)
(* rollback is asked for, waiting or under way.                            *)

Deploying == deployLock = "held" \/ \E t \in Handlers : handler[t].op \in DeploymentOps

NothingElseAsked ==
    Deploying =>
        /\ action = "none" /\ workerPc \notin ActivationStages \cup RollbackStages
        /\ \A t \in Handlers :
              ~At(t, ControlOps, "migration") /\ ~At(t, ControlOps, "write")

AskedAlone ==
    \A t \in Handlers : handler[t].op \in DeploymentOps =>
        \A u \in Handlers \ {t} : handler[u] = Free

\* The journal of the takeover is active from _install's check on ...
JournalStaysActive ==
    mainPc = "prepare" \/ gatewayDeployment # NoDeployment => migration.phase = "active"

\* ... because a worker drops only that of an interrupted takeover unasked.
RecoversInterrupted == workerPc = "recover" => migration.phase = "taking_over"

PatientInvariant ==
    NothingElseAsked /\ AskedAlone /\ JournalStaysActive /\ RecoversInterrupted

\* The same quiet lasts after restore_ha until the user asks for something.
NothingAskedSince == restored => action = "none" /\ workerPc \notin RollbackStages
=============================================================================
