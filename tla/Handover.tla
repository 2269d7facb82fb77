------------------------------ MODULE Handover ------------------------------
(***************************************************************************)
(* Who controls the mowers?  The Home Assistant app takes control from the *)
(* legacy publisher (worker.py: activate), gives it back (rollback), moves *)
(* it to a service on the gateway (deploy.py: install) and takes it from   *)
(* there again (restore_ha).  Four parties interleave:                     *)
(*                                                                         *)
(*   handlers  HTTP threads of app.py, which check and then post requests  *)
(*   main      the supervising loop of app.py, running deploy.py           *)
(*   worker    the child process of worker.py                              *)
(*   gateway   systemd and the SSH scripts of module GatewayServices       *)
(*                                                                         *)
(* They share the JSON files of /data (storage.py replaces a file          *)
(* atomically, so one write is one step) and the lock DEPLOY_LOCK.  The    *)
(* container, the worker and the gateway may die at any point, and any     *)
(* network call may fail.                                                  *)
(***************************************************************************)
EXTENDS GatewayServices

CONSTANTS Bindings,     \* sets of app options, as identified by their hash
          HostOf,       \* the gateway each of them names
          Handlers,     \* HTTP threads
          PatientUser   \* TRUE: a deployment is not asked for while another request
                        \* is open, nor anything while one is being answered

ControlOps == {"activate", "rollback"}
DeploymentOps == {"install", "restore", "cleanup"}

ASSUME HandoverAssumption ==
    /\ HostOf \in [Bindings -> Hosts]
    /\ PatientUser \in BOOLEAN

VARIABLES
    migration,          \* migration.json
    gatewayDeployment,  \* gateway_deployment.json
    action,             \* action.json: a request to the worker
    deploymentAction,   \* deployment_action.json: a request to main
    statusMode,         \* status.json: "preview" or any "other" mode
    config,             \* the options the running app was started with
    deployLock,         \* DEPLOY_LOCK
    handler,            \* per thread: the request and the check it is at
    mainPc,             \* where main() and the deploy.py call it makes are
    workerPc,           \* where Worker.run() is, or how the child ended
    workerActive,       \* its flag `active`: it publishes and takes commands
    observed,           \* the publisher state activate() has read
    restored            \* history: HA operation was restored and nothing asked since

files == <<migration, gatewayDeployment, action, deploymentAction, statusMode>>
http == <<deployLock, handler>>
worker == <<workerPc, workerActive, observed>>
vars == <<files, http, worker, mainPc, config, restored, gatewayVars>>

NoMigration == [phase |-> "none"]
Migration == [phase : {"taking_over", "active"}, binding : Bindings,
              previous : SUBSET {"active", "enabled"}]
NoDeployment == [phase |-> "none"]
Deployment == [phase : {"switching", "active"}, binding : Bindings]

host == HostOf[config]
-----------------------------------------------------------------------------
(* HTTP: do_POST.  A refused request (409) leaves its thread free again.   *)

Free == [op |-> "none", at |-> "free"]

ActivationStages == {"activating", "journal", "takeover"}
RollbackStages == {"rollback", "startupRollback", "clearing", "leaving"}

\* No request of any kind is waiting or being carried out.
Settled ==
    /\ \A t \in Handlers : handler[t] = Free
    /\ action = "none" /\ deploymentAction = "none" /\ deployLock = "free"
    /\ workerPc \notin ActivationStages \cup RollbackStages

Advance(t, place) == handler' = [handler EXCEPT ![t].at = place]
Release(t) == handler' = [handler EXCEPT ![t] = Free]
At(t, ops, place) == handler[t].op \in ops /\ handler[t].at = place

\* install, restore and cleanup need a migration journal and the lock.
PostDeployment(t, op) ==
    /\ mainPc # "down"
    /\ handler[t] = Free
    /\ PatientUser => Settled
    /\ migration # NoMigration
    /\ handler' = [handler EXCEPT ![t] = [op |-> op, at |-> "lock"]]
    /\ UNCHANGED <<files, worker, deployLock, mainPc, config, restored, gatewayVars>>

\* Mutant: the lock is set without looking at it.
AcquireLockUnseen(t) ==
    /\ At(t, DeploymentOps, "lock")
    /\ deployLock' = "held" /\ Advance(t, "write")
    /\ UNCHANGED <<files, worker, mainPc, config, restored, gatewayVars>>

AcquireLock(t) ==
    /\ At(t, DeploymentOps, "lock")
    /\ IF deployLock = "free"
       THEN deployLock' = "held" /\ Advance(t, "write")
       ELSE UNCHANGED deployLock /\ Release(t)
    /\ UNCHANGED <<files, worker, mainPc, config, restored, gatewayVars>>

WriteDeploymentAction(t) ==
    /\ At(t, DeploymentOps, "write")
    /\ deploymentAction' = handler[t].op
    /\ Release(t)
    /\ UNCHANGED <<migration, gatewayDeployment, action, statusMode, worker,
                   deployLock, mainPc, config, restored, gatewayVars>>

\* activate and rollback look at the gateway journal, then at the lock, then
\* at what they need; activate has read the status first of all.
PostControl(t, op) ==
    /\ mainPc # "down"
    /\ handler[t] = Free
    /\ PatientUser => \A u \in Handlers : handler[u].op \notin DeploymentOps
    /\ op = "activate" => statusMode = "preview"
    /\ handler' = [handler EXCEPT ![t] = [op |-> op, at |-> "deployment"]]
    /\ UNCHANGED <<files, worker, deployLock, mainPc, config, restored, gatewayVars>>

CheckDeployment(t) ==
    /\ At(t, ControlOps, "deployment")
    /\ IF gatewayDeployment = NoDeployment THEN Advance(t, "lock") ELSE Release(t)
    /\ UNCHANGED <<files, worker, deployLock, mainPc, config, restored, gatewayVars>>

\* Mutant: control requests are accepted during a deployment.
CheckLockNever(t) ==
    /\ At(t, ControlOps, "lock")
    /\ Advance(t, IF handler[t].op = "rollback" THEN "migration" ELSE "write")
    /\ UNCHANGED <<files, worker, deployLock, mainPc, config, restored, gatewayVars>>

CheckLock(t) ==
    /\ At(t, ControlOps, "lock")
    /\ IF deployLock = "held" THEN Release(t)
       ELSE Advance(t, IF handler[t].op = "rollback" THEN "migration" ELSE "write")
    /\ UNCHANGED <<files, worker, deployLock, mainPc, config, restored, gatewayVars>>

CheckMigration(t) ==
    /\ At(t, {"rollback"}, "migration")
    /\ IF migration # NoMigration THEN Advance(t, "write") ELSE Release(t)
    /\ UNCHANGED <<files, worker, deployLock, mainPc, config, restored, gatewayVars>>

WriteAction(t) ==
    /\ At(t, ControlOps, "write")
    /\ action' = handler[t].op
    /\ restored' = FALSE
    /\ Release(t)
    /\ UNCHANGED <<migration, gatewayDeployment, deploymentAction, statusMode,
                   worker, deployLock, mainPc, config, gatewayVars>>

HandlerStep(t) ==
    \/ AcquireLock(t) \/ WriteDeploymentAction(t)
    \/ CheckDeployment(t) \/ CheckLock(t) \/ CheckMigration(t) \/ WriteAction(t)

UserRequest(t) ==
    \/ \E op \in DeploymentOps : PostDeployment(t, op)
    \/ \E op \in ControlOps : PostControl(t, op)
-----------------------------------------------------------------------------
(* main: start, the supervising loop, and the end of the container.        *)

\* stop_worker: the child is gone and its script has lost its client.
WorkerGone == /\ workerPc' = "none" /\ workerActive' = FALSE /\ observed' = {}
              /\ Abandon("worker")

\* Options are read from a file that changes only while the app is stopped.
AppStart(b) ==
    /\ mainPc = "down"
    /\ mainPc' = "loop"
    /\ config' = b
    /\ action' = "none" /\ deploymentAction' = "none" /\ statusMode' = "other"
    /\ UNCHANGED <<migration, gatewayDeployment, http, worker, restored, gatewayVars>>

\* Stopped by the supervisor, killed, or crashed: threads, lock, worker and
\* SSH clients vanish, the files stay.  Only one script can linger.
AppDown ==
    /\ mainPc # "down"
    /\ mainPc' = "down"
    /\ deployLock' = "free"
    /\ handler' = [t \in Handlers |-> Free]
    /\ workerPc' = "none" /\ workerActive' = FALSE /\ observed' = {}
    /\ Abandon("worker") \/ Abandon("main")
    /\ remote' = [c \in Clients |-> NoCall]
    /\ restored' = FALSE
    /\ UNCHANGED <<files, config, running, enabled>>

\* The top of the loop takes a posted deployment action off its file.
TakeDeploymentAction ==
    /\ mainPc = "loop"
    /\ mainPc' = IF deploymentAction = "none" THEN "supervise" ELSE deploymentAction
    /\ deploymentAction' = "none"
    /\ UNCHANGED <<migration, gatewayDeployment, action, statusMode, http, worker,
                   config, restored, gatewayVars>>

\* health(): the answer comes from an active service; whether it is ready and
\* fresh is open.
Healthy == <<host, "runtime">> \in running

\* With a gateway journal no worker may run; the status poll confirms a
\* healthy service, and says so in the journal, or it reports an error.
SuperviseGateway ==
    /\ mainPc = "supervise" /\ gatewayDeployment # NoDeployment
    /\ mainPc' = "loop"
    /\ WorkerGone
    /\ remote' = [remote EXCEPT !["worker"] = NoCall]
    /\ statusMode' \in {statusMode, "other"}
    /\ \/ /\ gatewayDeployment.binding = config /\ Healthy
          /\ gatewayDeployment' = [gatewayDeployment EXCEPT !.phase = "active"]
       \/ UNCHANGED gatewayDeployment
    /\ UNCHANGED <<migration, action, deploymentAction, http, config, restored,
                   running, enabled>>

\* Mutant: a worker that died is not started again.
SuperviseWorkerOnce ==
    /\ mainPc = "supervise" /\ gatewayDeployment = NoDeployment
    /\ mainPc' = IF workerPc = "exited" THEN "blocked" ELSE "loop"
    /\ workerPc' = CASE workerPc = "exited" -> "none"
                     [] workerPc = "none" -> "start"
                     [] OTHER -> workerPc
    /\ UNCHANGED <<files, http, workerActive, observed, config, restored, gatewayVars>>

\* Without one there is a worker: it is started if there is none or if it
\* ended with an error.  After a normal end (rolled back) main waits for
\* SIGTERM and reads no more requests.
SuperviseWorker ==
    /\ mainPc = "supervise" /\ gatewayDeployment = NoDeployment
    /\ mainPc' = IF workerPc = "exited" THEN "blocked" ELSE "loop"
    /\ workerPc' = CASE workerPc = "exited" -> "none"
                     [] workerPc \in {"none", "died"} -> "start"
                     [] OTHER -> workerPc
    /\ UNCHANGED <<files, http, workerActive, observed, config, restored, gatewayVars>>
-----------------------------------------------------------------------------
(* main: deploy.py.  Every way out releases the lock and goes on to        *)
(* supervise; an exception also reports gateway_error.                     *)

Finish ==
    /\ mainPc' = "supervise"
    /\ deployLock' = "free"
    /\ statusMode' = "other"

Asks(script) == remote' = [remote EXCEPT !["main"] = Running(host, script)]
HangsUp == remote' = [remote EXCEPT !["main"] = NoCall]

\* _install reads the migration journal and refuses any but an active one
\* of these options ...
InstallCheck ==
    /\ mainPc = "install"
    /\ IF migration.phase = "active" /\ migration.binding = config
       THEN mainPc' = "prepare" /\ UNCHANGED <<deployLock, statusMode>>
       ELSE Finish
    /\ UNCHANGED <<migration, gatewayDeployment, action, deploymentAction, handler,
                   worker, config, restored, gatewayVars>>

\* Mutant: an exception skips the release of the lock.
InstallPrepareFailsLocked ==
    /\ mainPc = "prepare"
    /\ mainPc' = "supervise" /\ statusMode' = "other"
    /\ UNCHANGED <<migration, gatewayDeployment, action, deploymentAction, http,
                   worker, config, restored, gatewayVars>>

\* ... stages the new release, checks it, and may fail at any of it ...
InstallPrepareFails ==
    /\ mainPc = "prepare"
    /\ Finish
    /\ UNCHANGED <<migration, gatewayDeployment, action, deploymentAction, handler,
                   worker, config, restored, gatewayVars>>

\* Mutant: the journal lacks the binding that restore_ha compares.
InstallJournalUnbound ==
    /\ mainPc = "prepare"
    /\ mainPc' = "stopWorker"
    /\ gatewayDeployment' = [phase |-> "switching"]
    /\ statusMode' = "other"
    /\ UNCHANGED <<migration, action, deploymentAction, http, worker, config,
                   restored, gatewayVars>>

\* ... writes the gateway journal before it touches anything ...
InstallJournal ==
    /\ mainPc = "prepare"
    /\ mainPc' = "stopWorker"
    /\ gatewayDeployment' = [phase |-> "switching", binding |-> config]
    /\ statusMode' = "other"
    /\ UNCHANGED <<migration, action, deploymentAction, http, worker, config,
                   restored, gatewayVars>>

\* Mutants: the worker lives on; the legacy publisher is not stopped again.
InstallKeepsWorker ==
    /\ mainPc = "stopWorker"
    /\ mainPc' = "stopLegacy"
    /\ Asks(StopPublisher)
    /\ UNCHANGED <<files, http, worker, config, restored, running, enabled, lingering>>

InstallTrustsTakeover ==
    /\ mainPc = "stopWorker"
    /\ mainPc' = "switch"
    /\ WorkerGone
    /\ remote' = [worker |-> NoCall, main |-> Running(host, SwitchRuntime)]
    /\ UNCHANGED <<files, http, config, restored, running, enabled>>

\* ... ends the worker, then stops the legacy publisher (again) ...
InstallStopWorker ==
    /\ mainPc = "stopWorker"
    /\ mainPc' = "stopLegacy"
    /\ WorkerGone
    /\ remote' = [worker |-> NoCall, main |-> Running(host, StopPublisher)]
    /\ UNCHANGED <<files, http, config, restored, running, enabled>>

\* ... and switches the service over ...
InstallLegacyStopped ==
    /\ mainPc = "stopLegacy" /\ Replied("main")
    /\ mainPc' = "switch"
    /\ Asks(SwitchRuntime)
    /\ UNCHANGED <<files, http, worker, config, restored, running, enabled, lingering>>

InstallSwitched ==
    /\ mainPc = "switch" /\ Replied("main")
    /\ mainPc' = "health"
    /\ HangsUp
    /\ UNCHANGED <<files, http, worker, config, restored, running, enabled, lingering>>

\* ... and waits up to 120 s for it to be ready.
InstallHealthy ==
    /\ mainPc = "health" /\ Healthy
    /\ gatewayDeployment' = [phase |-> "active", binding |-> config]
    /\ Finish
    /\ UNCHANGED <<migration, action, deploymentAction, handler, worker, config,
                   restored, gatewayVars>>

\* Anything that fails after the worker was ended: undo the switch ...
InstallFails ==
    /\ mainPc \in {"stopLegacy", "switch", "health"}
    /\ mainPc' = "undo"
    /\ Abandon("main")
    /\ Asks(UndoRuntime)
    /\ UNCHANGED <<files, http, worker, config, restored, running, enabled>>

\* ... and drop the journal only if the service is known to be stopped.
UndoVerified ==
    /\ mainPc = "undo" /\ Replied("main")
    /\ gatewayDeployment' = NoDeployment
    /\ Finish
    /\ HangsUp
    /\ UNCHANGED <<migration, action, deploymentAction, handler, worker, config,
                   restored, running, enabled, lingering>>

\* Mutant: the journal is dropped although nothing was verified.
UndoFailsForgetful ==
    /\ mainPc = "undo"
    /\ gatewayDeployment' = NoDeployment
    /\ Finish
    /\ Abandon("main")
    /\ HangsUp
    /\ UNCHANGED <<migration, action, deploymentAction, handler, worker, config,
                   restored, running, enabled>>

UndoFails ==
    /\ mainPc = "undo"
    /\ Finish
    /\ Abandon("main")
    /\ HangsUp
    /\ UNCHANGED <<migration, gatewayDeployment, action, deploymentAction, handler,
                   worker, config, restored, running, enabled>>

\* restore_ha stops the service, then drops the journal.
RestoreCheck ==
    /\ mainPc = "restore"
    /\ IF gatewayDeployment # NoDeployment /\ gatewayDeployment.binding = config
       THEN /\ mainPc' = "restoring"
            /\ Asks(StopRuntime)
            /\ UNCHANGED <<deployLock, statusMode>>
       ELSE Finish /\ UNCHANGED remote
    /\ UNCHANGED <<migration, gatewayDeployment, action, deploymentAction, handler,
                   worker, config, restored, running, enabled, lingering>>

RestoreDone ==
    /\ mainPc = "restoring" /\ Replied("main")
    /\ gatewayDeployment' = NoDeployment
    /\ restored' = TRUE
    /\ Finish
    /\ HangsUp
    /\ UNCHANGED <<migration, action, deploymentAction, handler, worker, config,
                   running, enabled, lingering>>

RestoreFails ==
    /\ mainPc = "restoring"
    /\ Finish
    /\ Abandon("main")
    /\ HangsUp
    /\ UNCHANGED <<migration, gatewayDeployment, action, deploymentAction, handler,
                   worker, config, restored, running, enabled>>

\* cleanup.py: the Matter units it removes are not among the two modelled
\* here, so that what remains is its precondition and the time it takes.
Cleanup ==
    /\ mainPc = "cleanup"
    /\ \/ Finish
       \/ /\ gatewayDeployment.phase = "active"
          /\ gatewayDeployment.binding = config
          /\ Healthy
          /\ mainPc' = "cleaning"
          /\ UNCHANGED <<deployLock, statusMode>>
    /\ UNCHANGED <<migration, gatewayDeployment, action, deploymentAction, handler,
                   worker, config, restored, gatewayVars>>

CleanupEnds ==
    /\ mainPc = "cleaning"
    /\ Finish
    /\ UNCHANGED <<migration, gatewayDeployment, action, deploymentAction, handler,
                   worker, config, restored, gatewayVars>>
-----------------------------------------------------------------------------
(* worker: Worker.run().  It is the only writer of migration.json, so its  *)
(* local `state` is always the file and is not modelled.                   *)

workerFrame == <<gatewayDeployment, deploymentAction, http, mainPc, config, restored>>

WAsks(script) == remote' = [remote EXCEPT !["worker"] = Running(host, script)]
WHangsUp == remote' = [remote EXCEPT !["worker"] = NoCall]

\* A migration begun with other options is left alone.
WorkerStart ==
    /\ workerPc = "start"
    /\ IF migration # NoMigration /\ migration.binding # config
       THEN workerPc' = "retry" /\ statusMode' = "other"
       ELSE workerPc' = "prepare" /\ UNCHANGED statusMode
    /\ UNCHANGED <<workerFrame, migration, action, workerActive, observed, gatewayVars>>

\* Connected to the broker and logged in to the gateway: a rollback that was
\* asked for needs nothing more, everything else needs the mowers and sensors.
WorkerPrepared ==
    /\ workerPc = "prepare"
    /\ IF migration # NoMigration /\ action = "rollback"
       THEN workerPc' = "startupRollback" /\ WAsks(RestorePublisher(migration.previous))
       ELSE workerPc' = "discover" /\ UNCHANGED remote
    /\ UNCHANGED <<workerFrame, migration, action, statusMode, workerActive, observed,
                   running, enabled, lingering>>

\* An interrupted takeover is undone; an active one stops the legacy
\* publisher once more before it is resumed.
WorkerDiscovered ==
    /\ workerPc = "discover"
    /\ CASE migration.phase = "none" ->
              workerPc' = "loop" /\ UNCHANGED remote
         [] migration.phase = "taking_over" ->
              workerPc' = "recover" /\ WAsks(RestorePublisher(migration.previous))
         [] migration.phase = "active" ->
              workerPc' = "resume" /\ WAsks(StopPublisher)
    /\ UNCHANGED <<workerFrame, migration, action, statusMode, workerActive, observed,
                   running, enabled, lingering>>

WorkerRecovered ==
    /\ workerPc = "recover" /\ Replied("worker")
    /\ workerPc' = "loop"
    /\ migration' = NoMigration
    /\ WHangsUp
    /\ UNCHANGED <<workerFrame, action, statusMode, workerActive, observed,
                   running, enabled, lingering>>

\* Mutant: the resumed worker does not set its flag.
WorkerResumedPassive ==
    /\ workerPc = "resume" /\ Replied("worker")
    /\ workerPc' = "loop"
    /\ WHangsUp
    /\ UNCHANGED <<workerFrame, migration, action, statusMode, workerActive, observed,
                   running, enabled, lingering>>

WorkerResumed ==
    /\ workerPc = "resume" /\ Replied("worker")
    /\ workerPc' = "loop"
    /\ workerActive' = TRUE
    /\ WHangsUp
    /\ UNCHANGED <<workerFrame, migration, action, statusMode, observed,
                   running, enabled, lingering>>

\* The 30 s poll: sensors, discovery and the status of the interface.
WorkerPoll ==
    /\ workerPc = "loop"
    /\ statusMode' = IF workerActive THEN "other" ELSE "preview"
    /\ UNCHANGED <<workerFrame, migration, action, workerPc, workerActive, observed,
                   gatewayVars>>

\* A request is taken off its file before it is carried out; one that does
\* not fit the state is dropped.
WorkerTakesAction ==
    /\ workerPc = "loop" /\ action # "none"
    /\ action' = "none"
    /\ CASE action = "activate" /\ ~workerActive ->
              workerPc' = "activating" /\ UNCHANGED remote
         [] action = "rollback" /\ migration # NoMigration ->
              workerPc' = "rollback" /\ WAsks(RestorePublisher(migration.previous))
         [] OTHER -> UNCHANGED <<workerPc, remote>>
    /\ UNCHANGED <<workerFrame, migration, statusMode, workerActive, observed,
                   running, enabled, lingering>>

\* activate: plan again, read what the legacy publisher was, ...
ActivateObserve ==
    /\ workerPc = "activating"
    /\ workerPc' = "journal"
    /\ observed' = PublisherState(host)
    /\ UNCHANGED <<workerFrame, migration, action, statusMode, workerActive, gatewayVars>>

\* ... write that down, stop it ...
ActivateJournal ==
    /\ workerPc = "journal"
    /\ workerPc' = "takeover"
    /\ migration' = [phase |-> "taking_over", binding |-> config, previous |-> observed]
    /\ observed' = {}
    /\ WAsks(StopPublisher)
    /\ UNCHANGED <<workerFrame, action, statusMode, workerActive, running, enabled, lingering>>

\* ... and take control.
ActivateDone ==
    /\ workerPc = "takeover" /\ Replied("worker")
    /\ workerPc' = "loop"
    /\ workerActive' = TRUE
    /\ migration' = [migration EXCEPT !.phase = "active"]
    /\ WHangsUp
    /\ UNCHANGED <<workerFrame, action, statusMode, observed, running, enabled, lingering>>

\* rollback: the legacy publisher is as it was, the journal is dropped.
\* Asked for at startup, its request is only now taken off its file.
RollbackDone ==
    /\ workerPc \in {"rollback", "startupRollback"} /\ Replied("worker")
    /\ workerPc' = IF workerPc = "rollback" THEN "leaving" ELSE "clearing"
    /\ migration' = NoMigration
    /\ workerActive' = FALSE
    /\ WHangsUp
    /\ UNCHANGED <<workerFrame, action, statusMode, observed, running, enabled, lingering>>

WorkerExits ==
    /\ workerPc \in {"clearing", "leaving"}
    /\ workerPc' = "exited"
    /\ action' = IF workerPc = "clearing" THEN "none" ELSE action
    /\ statusMode' = "other"
    /\ UNCHANGED <<workerFrame, migration, workerActive, observed, gatewayVars>>

\* Any exception: control is given up, the error is reported, 15 s later
\* run() starts again.
WorkerFails ==
    /\ workerPc \notin {"none", "exited", "died", "retry"}
    /\ workerPc' = "retry"
    /\ workerActive' = FALSE
    /\ observed' = {}
    /\ statusMode' = "other"
    /\ Abandon("worker")
    /\ WHangsUp
    /\ UNCHANGED <<workerFrame, migration, action, running, enabled>>

WorkerRetry ==
    /\ workerPc = "retry"
    /\ workerPc' = "start"
    /\ UNCHANGED <<workerFrame, migration, action, statusMode, workerActive, observed,
                   gatewayVars>>

\* The child process is killed, or an exception escapes its handler.
WorkerDies ==
    /\ workerPc \notin {"none", "exited", "died"}
    /\ workerPc' = "died"
    /\ workerActive' = FALSE
    /\ observed' = {}
    /\ Abandon("worker")
    /\ WHangsUp
    /\ UNCHANGED <<workerFrame, migration, action, statusMode, running, enabled>>
-----------------------------------------------------------------------------
Init ==
    /\ migration = NoMigration /\ gatewayDeployment = NoDeployment
    /\ action = "none" /\ deploymentAction = "none" /\ statusMode = "other"
    /\ config \in Bindings
    /\ deployLock = "free" /\ handler = [t \in Handlers |-> Free]
    /\ mainPc = "down"
    /\ workerPc = "none" /\ workerActive = FALSE /\ observed = {}
    /\ restored = FALSE
    /\ GatewayInit

MainStep ==
    \/ TakeDeploymentAction \/ SuperviseGateway \/ SuperviseWorker
    \/ InstallCheck \/ InstallJournal \/ InstallStopWorker \/ InstallLegacyStopped
    \/ InstallSwitched \/ InstallHealthy \/ UndoVerified
    \/ RestoreCheck \/ RestoreDone \/ Cleanup \/ CleanupEnds

MainFails == InstallPrepareFails \/ InstallFails \/ UndoFails \/ RestoreFails

WorkerStep ==
    \/ WorkerStart \/ WorkerPrepared \/ WorkerDiscovered \/ WorkerRecovered
    \/ WorkerResumed \/ WorkerTakesAction \/ ActivateObserve \/ ActivateJournal
    \/ ActivateDone \/ RollbackDone \/ WorkerExits \/ WorkerRetry

appVars == <<files, http, worker, mainPc, config, restored>>

GatewayStep ==
    /\ LingeringStep \/ \E c \in Clients : RemoteStep(c)
    /\ UNCHANGED appVars

GatewayFails ==
    /\ (\E c \in Clients : CommandFails(c)) \/ (\E h \in Hosts : Reboot(h))
    /\ UNCHANGED appVars

\* What a reliable network and machine would not do.
Outage == MainFails \/ WorkerFails \/ WorkerDies \/ AppDown \/ GatewayFails

Next ==
    \/ \E t \in Handlers : UserRequest(t) \/ HandlerStep(t)
    \/ \E b \in Bindings : AppStart(b)
    \/ MainStep \/ WorkerStep \/ WorkerPoll \/ GatewayStep
    \/ Outage

Spec == Init /\ [][Next]_vars
-----------------------------------------------------------------------------
(* Fairness.  Processes that can run do run, the gateway works off its     *)
(* scripts, every call ends with a result or its timeout (20 s, 30 s,      *)
(* 120 s), and an app that is down is started again.  Nothing makes a      *)
(* worker fail that waits in its loop.                                     *)

Fairness ==
    /\ WF_vars(MainStep \/ MainFails)
    /\ WF_vars(WorkerStep \/ (workerPc # "loop" /\ WorkerFails))
    /\ WF_vars(GatewayStep)
    /\ \A t \in Handlers : WF_vars(HandlerStep(t))
    /\ WF_vars(\E b \in Bindings : AppStart(b))

FairSpec == Spec /\ Fairness

OutagesCease == <>[][~Outage]_vars
-----------------------------------------------------------------------------
WorkerPlaces ==
    {"none", "exited", "died", "retry", "start", "prepare", "discover", "recover",
     "resume", "loop"} \cup ActivationStages \cup RollbackStages

MainPlaces ==
    {"down", "loop", "supervise", "blocked", "prepare", "stopWorker", "stopLegacy",
     "switch", "health", "undo", "restoring", "cleaning"} \cup DeploymentOps

HandlerPlaces == {"free", "deployment", "lock", "migration", "write"}
Request == [op : {"none"} \cup ControlOps \cup DeploymentOps, at : HandlerPlaces]

\* Every variable holds a value its file, flag or process can hold.
TypeOK ==
    /\ migration \in {NoMigration} \cup Migration
    /\ gatewayDeployment \in {NoDeployment} \cup Deployment
    /\ action \in {"none"} \cup ControlOps
    /\ deploymentAction \in {"none"} \cup DeploymentOps
    /\ statusMode \in {"preview", "other"}
    /\ config \in Bindings
    /\ deployLock \in {"free", "held"}
    /\ handler \in [Handlers -> Request]
    /\ mainPc \in MainPlaces
    /\ workerPc \in WorkerPlaces
    /\ workerActive \in BOOLEAN
    /\ observed \in SUBSET {"active", "enabled"}
    /\ restored \in BOOLEAN
    /\ GatewayTypeOK
-----------------------------------------------------------------------------
(* Safety.                                                                 *)

\* The worker publishes and takes commands only in its command loop.
WorkerControls(h) == workerActive /\ workerPc = "loop" /\ host = h

ControllersOf(h) ==
    (IF WorkerControls(h) THEN {"ha"} ELSE {})
    \cup (IF <<h, "legacy">> \in running THEN {"legacy"} ELSE {})
    \cup (IF <<h, "runtime">> \in running THEN {"gateway"} ELSE {})

\* No gateway is ever controlled by two of the HA worker, the legacy
\* publisher and the gateway runtime, through crashes, reboots and half-done
\* scripts: the reason for both journals (deploy.py 179 and 206).
OneController ==
    \A h \in Hosts : \A c, d \in ControllersOf(h) : c = d

\* "... to prevent two controllers" (deploy.py 206): of the HA worker and the
\* gateway runtime, at most one.
NoParallelControl ==
    \A h \in Hosts : ~({"ha", "gateway"} \subseteq ControllersOf(h))

\* The worker controls only what its journal says it took over, so that a
\* crash at any point leaves what a rollback needs (worker.py 115).
ControlIsJournaled ==
    workerActive => migration.phase = "active" /\ migration.binding = config

\* Between _install's stop_worker and the removal of the gateway journal
\* there is no worker process, whatever happened to the installation.
JournalBlocksWorker ==
    gatewayDeployment # NoDeployment /\ mainPc # "stopWorker" =>
        workerPc = "none"

\* DEPLOY_LOCK admits one deployment request at a time, from the handler
\* that accepts it to the end of the action in main.
OneDeployment ==
    LET writing == {t \in Handlers : At(t, DeploymentOps, "write")}
        pending == IF deploymentAction = "none" \/ mainPc = "down" THEN {} ELSE {"file"}
        busy == IF mainPc \in {"down", "loop", "supervise", "blocked"} THEN {} ELSE {"main"}
        stages == {<<"handler", t>> : t \in writing}
                  \cup {<<"stage", x>> : x \in pending \cup busy}
    IN  /\ stages # {} => deployLock = "held"
        /\ \A x, y \in stages : x = y

\* The way back stays open: restore is refused (409) without a migration
\* journal, so a gateway journal must never outlive it.
ReturnPossible == gatewayDeployment # NoDeployment => migration # NoMigration

\* After restore_ha the saved HA operation goes on: the worker does not roll
\* the takeover back unless the user asks for it again.
RestoreReturnsToHA == restored => workerPc \notin RollbackStages

\* The gateway journal is dropped only when its service neither runs nor
\* starts at boot, and never changes hands to other options.
JournalDroppedWhenStopped ==
    [][ gatewayDeployment # NoDeployment /\ gatewayDeployment' # gatewayDeployment =>
          IF gatewayDeployment' = NoDeployment
          THEN <<HostOf[gatewayDeployment.binding], "runtime">>
                   \notin running' \cup enabled'
          ELSE gatewayDeployment'.binding = gatewayDeployment.binding ]_vars

LegacyEnabled(h) == <<h, "legacy">> \in enabled

\* What the rollback of a takeover leaves: autostart is as it was, and the
\* publisher runs if it did and starts at boot.
AsFound(h, previous) ==
    /\ LegacyEnabled(h) <=> "enabled" \in previous
    /\ {"active", "enabled"} \subseteq previous => <<h, "legacy">> \in running

\* Autostart of the legacy publisher changes only while a migration journal
\* of its gateway remembers what it was (with a patient user: an installation
\* that overtakes a rollback stops the publisher without one) ...
RecordedBeforeTouched ==
    [][ \A h \in Hosts : LegacyEnabled(h)' # LegacyEnabled(h) =>
          migration # NoMigration /\ HostOf[migration.binding] = h ]_vars

\* ... and that journal is dropped only when the publisher is as it was found.
RestoredAsFound ==
    [][ migration # NoMigration /\ migration' = NoMigration =>
          AsFound(HostOf[migration.binding], migration.previous) ]_vars

\* The abstract view: who owns each gateway.
OwnerOf(h) ==
    IF <<h, "runtime">> \in running THEN "gateway"
    ELSE IF <<h, "legacy">> \in running THEN "legacy"
    ELSE IF WorkerControls(h) THEN "ha" ELSE "nobody"

Ownership == INSTANCE ControlOwnership WITH owner <- [h \in Hosts |-> OwnerOf(h)]

\* Every handover of the app is break before make and keeps the app on one
\* gateway: it implements ControlOwnership.
OwnershipSpec == Ownership!Spec
-----------------------------------------------------------------------------
(* Liveness.                                                               *)

\* An accepted deployment action ends and releases the lock.
DeploymentEnds == deployLock = "held" ~> deployLock = "free"

\* Once outages cease, an interrupted takeover is completed or undone.
TakeoverResolved ==
    OutagesCease => (migration.phase = "taking_over" ~> migration.phase # "taking_over")

\* Once outages cease, a taken-over system that is not handed to the gateway
\* is controlled by the worker again.
ControlResumes ==
    OutagesCease =>
      (migration.phase = "active" /\ gatewayDeployment = NoDeployment
         ~> \/ \E h \in Hosts : WorkerControls(h)
            \/ migration.phase # "active" \/ gatewayDeployment # NoDeployment)
=============================================================================
