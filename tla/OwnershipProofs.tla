--------------------------- MODULE OwnershipProofs ---------------------------
(***************************************************************************)
(* More results about Handover for any number of gateways, options and     *)
(* threads: it implements ControlOwnership; DEPLOY_LOCK admits one         *)
(* deployment at a time; a rollback restores what the takeover found; and  *)
(* with a patient user the way back from the gateway stays open.           *)
(*                                                                         *)
(* The refinement rests on ControlInvariant.  A step of the app moves the  *)
(* ownership of at most one gateway, from or to "nobody"; that nobody else *)
(* is in charge for the app follows from the invariant after the step.     *)
(***************************************************************************)
EXTENDS ControlProofs

\* Facts about who controls, as the control invariant has them.
LEMMA WhoControls ==
    ASSUME ControlInvariant
    PROVE  /\ \A h \in Hosts :
                ~(<<h, "runtime">> \in running /\ <<h, "legacy">> \in running \cup enabled)
           /\ \A h \in Hosts :
                ~(<<h, "legacy">> \in running /\ <<h, "runtime">> \in running \cup enabled)
           /\ \A h \in Hosts : WorkerControls(h) => Silent(h, "runtime") /\ Silent(h, "legacy")
BY DEF ControlInvariant, JournalsTellWhoControls, RuntimeDisplacesLegacy, WorkerOrJournal,
       WorkerDisplacesLegacy, WorkerControls, Silent, host

\* The app controls one gateway at most.
LEMMA OneOfTheApp ==
    ASSUME ControlInvariant, NEW g \in Hosts, NEW h \in Hosts,
           OwnerOf(g) \in {"ha", "gateway"}, OwnerOf(h) \in {"ha", "gateway"}
    PROVE  g = h
<1> USE DEF ControlInvariant, JournalsTellWhoControls
<1>1. ASSUME NEW k \in Hosts, OwnerOf(k) = "gateway"
      PROVE  gatewayDeployment # NoDeployment /\ HostOf[gatewayDeployment.binding] = k
  <2>1. <<k, "runtime">> \in running
    BY <1>1 DEF OwnerOf
  <2>2. QED
    BY <2>1 DEF RuntimeJournaled, Silent
<1>2. ASSUME NEW k \in Hosts, OwnerOf(k) = "ha"
      PROVE  host = k /\ (gatewayDeployment # NoDeployment => gatewayDeployment.binding = config)
  <2>1. WorkerControls(k)
    BY <1>2 DEF OwnerOf
  <2>2. workerPc # "none"
    BY <2>1 DEF WorkerControls
  <2>3. gatewayDeployment # NoDeployment => mainPc = "stopWorker"
    BY <2>2 DEF WorkerOrJournal
  <2>4. QED
    BY <2>1, <2>3 DEF WorkerControls, MainHoldsJournal
<1>3. QED
  BY <1>1, <1>2 DEF host

\* The same after a step, in one formula each.
OfApp(h) == OwnerOf(h) \in {"ha", "gateway"}
Exclusive(h) ==
    /\ ~(<<h, "runtime">> \in running /\ <<h, "legacy">> \in running)
    /\ WorkerControls(h) => <<h, "runtime">> \notin running /\ <<h, "legacy">> \notin running

LEMMA OneOfTheAppNow == ControlInvariant => \A k, l \in Hosts : OfApp(k) /\ OfApp(l) => k = l
BY OneOfTheApp DEF OfApp

LEMMA OneOfTheAppNext == ControlInvariant' => (\A k, l \in Hosts : OfApp(k) /\ OfApp(l) => k = l)'
BY OneOfTheAppNow, PTL

LEMMA ControllersNow == ControlInvariant => \A h \in Hosts : Exclusive(h)
BY WhoControls DEF Exclusive, Silent

LEMMA ControllersNext == ControlInvariant' => (\A h \in Hosts : Exclusive(h))'
BY ControllersNow, PTL

\* When at most one gateway changes hands, from or to nobody, and the app has
\* at most one afterwards, that is a step of ControlOwnership or a stutter.
Moves(h) ==
    /\ \A g \in Hosts \ {h} : OwnerOf(g)' = OwnerOf(g)
    /\ "nobody" \in {OwnerOf(h), OwnerOf(h)'} \/ OwnerOf(h)' = OwnerOf(h)

LEMMA OneHostMoves ==
    ASSUME ControlInvariant', NEW h \in Hosts, Moves(h)
    PROVE  [Ownership!Next]_([g \in Hosts |-> OwnerOf(g)])
<1> DEFINE owner == [g \in Hosts |-> OwnerOf(g)]
<1>1. owner' = [g \in Hosts |-> OwnerOf(g)']
  OBVIOUS
<1>2. \A g \in Hosts : OwnerOf(g)' \in {"nobody", "legacy", "ha", "gateway"}
  BY DEF OwnerOf
<1>3. owner' = [owner EXCEPT ![h] = OwnerOf(h)']
  <2>1. \A g \in Hosts : owner'[g] = [owner EXCEPT ![h] = OwnerOf(h)'][g]
    BY <1>1 DEF Moves
  <2>2. QED
    BY <1>1, <2>1
<1>4. CASE OwnerOf(h)' = OwnerOf(h)
  <2>1. owner' = owner
    BY <1>3, <1>4
  <2>2. QED
    BY <2>1
<1>5. CASE OwnerOf(h)' # OwnerOf(h) /\ OwnerOf(h)' = "nobody"
  <2>1. owner' # owner /\ owner[h] # "nobody"
    BY <1>1, <1>5
  <2>2. Ownership!GiveUp(h)
    BY <1>3, <1>5, <2>1 DEF Ownership!GiveUp
  <2>3. QED
    BY <2>1, <2>2 DEF Ownership!Next
<1>6. CASE OwnerOf(h)' # OwnerOf(h) /\ OwnerOf(h) = "nobody"
  <2> DEFINE c == OwnerOf(h)'
  <2>1. owner' # owner /\ owner[h] = "nobody" /\ c \in {"legacy", "ha", "gateway"}
    BY <1>1, <1>2, <1>6
  <2>2. ASSUME c \in {"ha", "gateway"}, NEW g \in Hosts PROVE owner[g] \notin {"ha", "gateway"}
    <3>1. CASE g = h
      BY <3>1, <2>1
    <3>2. CASE g # h
      <4>1. (\A k, l \in Hosts : OfApp(k) /\ OfApp(l) => k = l)'
        BY OneOfTheAppNext
      <4>2. owner[g] = OwnerOf(g)'
        BY <3>2 DEF Moves
      <4>3. QED
        BY <2>2, <3>2, <4>1, <4>2 DEF OfApp
    <3>3. QED
      BY <3>1, <3>2
  <2>3. Ownership!Take(h, c)
    BY <1>3, <2>1, <2>2 DEF Ownership!Take, Ownership!OfTheApp
  <2>4. QED
    BY <2>1, <2>3 DEF Ownership!Next, Ownership!Controllers
<1>7. QED
  BY <1>4, <1>5, <1>6 DEF Moves

\* What the worker does moves its own gateway only.
LEMMA WorkerMovesOwner ==
    ASSUME ControlInvariant, ControlInvariant', UNCHANGED running, UNCHANGED config
    PROVE  \E h \in Hosts : Moves(h)
<1>1. PICK h \in Hosts : h = host
  BY HandoverAssumption DEF ControlInvariant, TypeOK, host
<1>2. \A g \in Hosts \ {h} : ~WorkerControls(g) /\ ~WorkerControls(g)'
  BY <1>1 DEF WorkerControls, host
<1>3. \A g \in Hosts \ {h} : OwnerOf(g)' = OwnerOf(g)
  BY <1>2 DEF OwnerOf
<1>4. "nobody" \in {OwnerOf(h), OwnerOf(h)'} \/ OwnerOf(h)' = OwnerOf(h)
  BY DEF OwnerOf
<1>5. QED
  BY <1>3, <1>4 DEF Moves

\* So does a command, which starts or stops one service.
LEMMA CommandMovesOwner ==
    ASSUME ControlInvariant, ControlInvariant', NEW c \in Clients, RemoteStep(c),
           UNCHANGED appVars
    PROVE  \E h \in Hosts : Moves(h)
<1>1. remote[c] \in [status : {"running"}, host : Hosts, todo : Seq(Command)]
      /\ remote[c].todo # << >>
  BY DEF ControlInvariant, TypeOK, GatewayTypeOK, Call, RemoteStep, HasWork, NoCall, Failed
<1>2. Head(remote[c].todo) \in Command
  BY <1>1
<1>3. PICK h \in Hosts, u \in Units : h = remote[c].host /\ u = Head(remote[c].todo).unit
  BY <1>1, <1>2 DEF Command
<1>4. \/ running' = running
      \/ running' = running \ {<<h, u>>}
      \/ running' = running \cup {<<h, u>>}
  BY <1>3 DEF RemoteStep, Execute
<1>5. \A g \in Hosts : WorkerControls(g)' <=> WorkerControls(g)
  BY DEF WorkerControls, appVars, worker, host
<1>6. \A g \in Hosts \ {h} : OwnerOf(g)' = OwnerOf(g)
  BY <1>4, <1>5 DEF OwnerOf
<1>7. Exclusive(h) /\ Exclusive(h)'
  BY ControllersNow, ControllersNext
<1>8. "nobody" \in {OwnerOf(h), OwnerOf(h)'} \/ OwnerOf(h)' = OwnerOf(h)
  BY <1>4, <1>5, <1>7 DEF OwnerOf, Units, Exclusive
<1>9. QED
  BY <1>6, <1>8 DEF Moves

\* And a reboot, which starts what is enabled and stops everything else.
LEMMA RebootMovesOwner ==
    ASSUME ControlInvariant, NEW h \in Hosts, Reboot(h), UNCHANGED appVars
    PROVE  Moves(h)
<1>1. \A g \in Hosts, u \in Units : <<g, u>> \in running' <=>
          IF g = h THEN <<g, u>> \in enabled ELSE <<g, u>> \in running
  BY DEF Reboot
<1>2. \A g \in Hosts : WorkerControls(g)' <=> WorkerControls(g)
  BY DEF WorkerControls, appVars, worker, host
<1>3. \A g \in Hosts \ {h} : OwnerOf(g)' = OwnerOf(g)
  BY <1>1, <1>2 DEF OwnerOf, Units
<1>4. "nobody" \in {OwnerOf(h), OwnerOf(h)'} \/ OwnerOf(h)' = OwnerOf(h)
  BY <1>1, <1>2, WhoControls DEF OwnerOf, Silent, Units
<1>5. QED
  BY <1>3, <1>4 DEF Moves

\* The options change only while the app is down, and then nobody controls.
LEMMA StartMovesNothing ==
    ASSUME ControlInvariant, NEW b \in Bindings, AppStart(b)
    PROVE  \A h \in Hosts : OwnerOf(h)' = OwnerOf(h)
<1>1. workerPc = "none" /\ workerPc' = "none"
  BY DEF AppStart, ControlInvariant, JournalsTellWhoControls, WorkerOrJournal, worker
<1>2. \A h \in Hosts : ~WorkerControls(h) /\ ~WorkerControls(h)'
  BY <1>1 DEF WorkerControls
<1>3. QED
  BY <1>2 DEF OwnerOf, AppStart, gatewayVars

\* Only commands and reboots start or stop services, and only commands enable them.
LEMMA ServicesKept ==
    ASSUME ReliableGateway, ControlInvariant, [Next]_vars
    PROVE  \/ UNCHANGED <<running, enabled, config>>
           \/ \E b \in Bindings : AppStart(b)
           \/ UNCHANGED appVars /\ \E c \in Clients : RemoteStep(c)
           \/ UNCHANGED appVars /\ \E h \in Hosts : Reboot(h)
<1> USE DEF files, http, worker, workerFrame, gatewayVars, WorkerGone
<1>1. CASE \E t \in Handlers : UserRequest(t) \/ HandlerStep(t)
  <2>1. ASSUME NEW t \in Handlers, UserRequest(t) \/ HandlerStep(t)
        PROVE  UNCHANGED <<running, enabled, config>>
    BY <2>1 DEF UserRequest, HandlerStep, PostDeployment, PostControl, AcquireLock,
                WriteDeploymentAction, CheckDeployment, CheckLock, CheckMigration, WriteAction
  <2>2. QED
    BY <1>1, <2>1
<1>2. CASE MainStep
  BY <1>2 DEF MainStep, TakeDeploymentAction, SuperviseGateway, SuperviseWorker,
              InstallCheck, InstallJournal, InstallStopWorker, InstallLegacyStopped,
              InstallSwitched, InstallHealthy, UndoVerified, RestoreCheck, RestoreDone,
              Cleanup, CleanupEnds
<1>3. CASE MainFails \/ AppDown
  BY <1>3 DEF MainFails, InstallPrepareFails, InstallFails, UndoFails, RestoreFails, AppDown
<1>4. CASE WorkerStep \/ WorkerPoll \/ WorkerFails \/ WorkerDies
  BY <1>4 DEF WorkerStep, WorkerStart, WorkerPrepared, WorkerDiscovered, WorkerRecovered,
              WorkerResumed, WorkerTakesAction, ActivateObserve, ActivateJournal,
              ActivateDone, RollbackDone, WorkerExits, WorkerRetry, WorkerPoll,
              WorkerFails, WorkerDies
<1>5. CASE GatewayStep
  BY <1>5, NothingLingers DEF GatewayStep, ControlInvariant
<1>6. CASE GatewayFails
  <2>1. ASSUME NEW c \in Clients, CommandFails(c), UNCHANGED appVars
        PROVE  UNCHANGED <<running, enabled, config>>
    BY <2>1 DEF CommandFails, appVars
  <2>2. QED
    BY <1>6, <2>1 DEF GatewayFails
<1>7. CASE UNCHANGED vars
  BY <1>7 DEF vars
<1>8. QED
  BY <1>1, <1>2, <1>3, <1>4, <1>5, <1>6, <1>7 DEF Next, Outage

\* Every step of the app, its users and its gateways is a handover between
\* one controller of one gateway and nobody, or no handover at all: the
\* refinement of ControlOwnership.
THEOREM ImplementsOwnership ==
    ASSUME ReliableGateway PROVE Spec => OwnershipSpec
<1>1. Init => Ownership!Init
  <2> SUFFICES ASSUME Init PROVE Ownership!Init
    OBVIOUS
  <2>1. \A h \in Hosts : OwnerOf(h) \in {"nobody", "legacy"}
    BY DEF Init, GatewayInit, OwnerOf, WorkerControls
  <2>2. QED
    BY <2>1 DEF Ownership!Init
<1>2. ASSUME ControlInvariant, ControlInvariant', [Next]_vars
      PROVE  [Ownership!Next]_([h \in Hosts |-> OwnerOf(h)])
  <2>1. CASE UNCHANGED <<running, enabled, config>>
    BY <1>2, <2>1, WorkerMovesOwner, OneHostMoves
  <2>2. CASE \E b \in Bindings : AppStart(b)
    BY <1>2, <2>2, StartMovesNothing
  <2>3. CASE UNCHANGED appVars /\ \E c \in Clients : RemoteStep(c)
    BY <1>2, <2>3, CommandMovesOwner, OneHostMoves
  <2>4. CASE UNCHANGED appVars /\ \E h \in Hosts : Reboot(h)
    BY <1>2, <2>4, RebootMovesOwner, OneHostMoves
  <2>5. QED
    BY <1>2, <2>1, <2>2, <2>3, <2>4, ServicesKept
<1>3. QED
  BY <1>1, <1>2, ControlInvariantHolds, PTL DEF Spec, OwnershipSpec, Ownership!Spec
-----------------------------------------------------------------------------
\* DEPLOY_LOCK: a request is being written, is on file, or is carried out.
Writing(t) == At(t, DeploymentOps, "write")
Waiting == deploymentAction # "none" /\ mainPc # "down"
Busy == mainPc \notin {"down", "loop", "supervise", "blocked"}

\* Whichever it is, the lock is held and it is the only one; the threads die
\* with the app.
LockInv ==
    /\ \A t \in Handlers : Writing(t) =>
          /\ deployLock = "held" /\ ~Waiting /\ ~Busy
          /\ \A u \in Handlers : Writing(u) => u = t
    /\ Waiting => deployLock = "held" /\ ~Busy
    /\ Busy => deployLock = "held"
    /\ mainPc = "down" => \A t \in Handlers : handler[t] = Free

LEMMA LockImplies == LockInv => OneDeployment
<1> SUFFICES ASSUME LockInv PROVE OneDeployment
  OBVIOUS
<1> DEFINE writing == {t \in Handlers : At(t, DeploymentOps, "write")}
           pending == IF deploymentAction = "none" \/ mainPc = "down" THEN {} ELSE {"file"}
           busy == IF mainPc \in {"down", "loop", "supervise", "blocked"} THEN {} ELSE {"main"}
           stages == {<<"handler", t>> : t \in writing}
                     \cup {<<"stage", x>> : x \in pending \cup busy}
<1>1. ASSUME NEW x \in stages
      PROVE  \/ \E t \in Handlers : Writing(t) /\ x = <<"handler", t>>
             \/ Waiting /\ x = <<"stage", "file">>
             \/ Busy /\ x = <<"stage", "main">>
  BY DEF Writing, Waiting, Busy
<1>2. stages # {} => deployLock = "held"
  BY <1>1 DEF LockInv
<1>3. ASSUME NEW x \in stages, NEW y \in stages PROVE x = y
  <2> HIDE DEF stages
  <2>1. CASE \E t \in Handlers : Writing(t)
    <3>1. PICK t \in Handlers : Writing(t)
      BY <2>1
    <3>2. \A z \in stages : z = <<"handler", t>>
      BY <1>1, <3>1 DEF LockInv
    <3>3. QED
      BY <3>2
  <2>2. CASE ~\E t \in Handlers : Writing(t)
    BY <1>1, <2>2 DEF LockInv
  <2>3. QED
    BY <2>1, <2>2
<1>4. QED
  BY <1>2, <1>3 DEF OneDeployment

\* The steps of a request thread.
LEMMA RequestsKeepLock ==
    ASSUME TypeOK, LockInv, NEW t \in Handlers, UserRequest(t) \/ HandlerStep(t)
    PROVE  LockInv'
<1> USE DEF LockInv, Writing, Waiting, Busy, At, TypeOK, ControlOps, DeploymentOps, files, http
<1>1. mainPc' = mainPc
  BY DEF UserRequest, HandlerStep, PostDeployment, PostControl, AcquireLock,
         WriteDeploymentAction, CheckDeployment, CheckLock, CheckMigration, WriteAction
<1>2. mainPc # "down"
  BY DEF UserRequest, HandlerStep, PostDeployment, PostControl, AcquireLock, Free,
         WriteDeploymentAction, CheckDeployment, CheckLock, CheckMigration, WriteAction
<1>3. ASSUME \A u \in Handlers : Writing(u)' => Writing(u),
             UNCHANGED <<deployLock, deploymentAction>>
      PROVE  LockInv'
  BY <1>1, <1>2, <1>3
<1>4. CASE AcquireLock(t)
  <2>1. CASE deployLock = "free"
    <3>1. \A u \in Handlers : ~Writing(u)
      BY <2>1
    <3>2. \A u \in Handlers : Writing(u)' => u = t
      BY <1>4, <2>1, <3>1 DEF AcquireLock, Advance
    <3>3. deployLock' = "held" /\ deploymentAction' = deploymentAction
      BY <1>4, <2>1 DEF AcquireLock
    <3>4. ~Waiting /\ ~Busy
      BY <2>1
    <3>5. QED
      BY <1>1, <1>2, <3>2, <3>3, <3>4
  <2>2. CASE deployLock # "free"
    BY <1>3, <1>4, <2>2 DEF AcquireLock, Release, Free
  <2>3. QED
    BY <2>1, <2>2
<1>5. CASE WriteDeploymentAction(t)
  <2>1. Writing(t)
    BY <1>5 DEF WriteDeploymentAction
  <2>2. \A u \in Handlers : ~Writing(u)'
    BY <1>5, <2>1 DEF WriteDeploymentAction, Release, Free
  <2>3. deployLock' = "held" /\ ~Busy
    BY <1>5, <2>1 DEF WriteDeploymentAction
  <2>4. QED
    BY <1>1, <1>2, <2>2, <2>3
<1>6. CASE CheckDeployment(t) \/ CheckLock(t) \/ CheckMigration(t)
  <2>1. handler[t].op \in ControlOps
    BY <1>6 DEF CheckDeployment, CheckLock, CheckMigration
  <2>2. /\ handler'[t].op \in ControlOps \cup {"none"}
        /\ \A u \in Handlers \ {t} : handler'[u] = handler[u]
    <3>1. CASE \E place : Advance(t, place)
      BY <2>1, <3>1 DEF Advance, Request
    <3>2. CASE Release(t)
      BY <3>2 DEF Release, Free
    <3>3. QED
      BY <1>6, <3>1, <3>2 DEF CheckDeployment, CheckLock, CheckMigration
  <2>3. \A u \in Handlers : Writing(u)' => Writing(u)
    BY <2>2
  <2>4. QED
    BY <1>3, <1>6, <2>3 DEF CheckDeployment, CheckLock, CheckMigration
<1>7. CASE WriteAction(t)
  BY <1>3, <1>7 DEF WriteAction, Release, Free
<1>8. CASE UserRequest(t)
  <2>1. \A u \in Handlers : Writing(u)' => Writing(u)
    BY <1>8 DEF UserRequest, PostDeployment, PostControl
  <2>2. QED
    BY <1>3, <1>8, <2>1 DEF UserRequest, PostDeployment, PostControl
<1>9. QED
  BY <1>4, <1>5, <1>6, <1>7, <1>8 DEF HandlerStep

\* Every other step.
LEMMA LockKept ==
    ASSUME TypeOK, LockInv, [Next]_vars PROVE LockInv'
<1> USE DEF LockInv, Writing, Waiting, Busy, At, files, http, worker, workerFrame, Finish
<1>1. CASE \E t \in Handlers : UserRequest(t) \/ HandlerStep(t)
  BY <1>1, RequestsKeepLock
<1>2. CASE \E b \in Bindings : AppStart(b)
  BY <1>2 DEF AppStart, Free, DeploymentOps
<1>3. CASE AppDown
  BY <1>3 DEF AppDown, Free, DeploymentOps
<1>4. CASE TakeDeploymentAction
  BY <1>4 DEF TakeDeploymentAction, TypeOK, DeploymentOps
<1>5. CASE SuperviseGateway \/ SuperviseWorker
  BY <1>5 DEF SuperviseGateway, SuperviseWorker
<1>6. CASE InstallCheck \/ InstallJournal \/ InstallStopWorker \/ InstallLegacyStopped
           \/ InstallSwitched \/ InstallFails \/ InstallPrepareFails
  BY <1>6 DEF InstallCheck, InstallJournal, InstallStopWorker, InstallLegacyStopped,
              InstallSwitched, InstallFails, InstallPrepareFails
<1>7. CASE InstallHealthy \/ UndoVerified \/ UndoFails \/ RestoreDone \/ RestoreFails
           \/ CleanupEnds
  BY <1>7 DEF InstallHealthy, UndoVerified, UndoFails, RestoreDone, RestoreFails, CleanupEnds
<1>8. CASE RestoreCheck \/ Cleanup
  BY <1>8 DEF RestoreCheck, Cleanup
<1>9. CASE WorkerStep \/ WorkerPoll \/ WorkerFails \/ WorkerDies
  <2>1. UNCHANGED <<deploymentAction, deployLock, handler, mainPc>>
    BY <1>9 DEF WorkerStep, WorkerStart, WorkerPrepared, WorkerDiscovered, WorkerRecovered,
                WorkerResumed, WorkerTakesAction, ActivateObserve, ActivateJournal,
                ActivateDone, RollbackDone, WorkerExits, WorkerRetry, WorkerPoll,
                WorkerFails, WorkerDies
  <2>2. QED
    BY <2>1
<1>10. CASE GatewayStep \/ GatewayFails \/ UNCHANGED vars
  BY <1>10 DEF GatewayStep, GatewayFails, appVars, vars
<1>11. QED
  BY <1>1, <1>2, <1>3, <1>4, <1>5, <1>6, <1>7, <1>8, <1>9, <1>10
     DEF Next, Outage, MainStep, MainFails

\* At most one deployment request is under way, from the thread that accepts
\* it to the end of the action, for any number of request threads.
THEOREM OneDeploymentHolds == Spec => []OneDeployment
<1>1. Init => LockInv
  BY DEF Init, LockInv, Writing, Waiting, Busy, At, Free, DeploymentOps
<1>2. TypeOK /\ LockInv /\ [Next]_vars => LockInv'
  BY LockKept
<1>3. QED
  BY <1>1, <1>2, LockImplies, TypeCorrect, PTL DEF Spec
-----------------------------------------------------------------------------
(* What a takeover finds, a rollback leaves.                               *)

\* A command on the way, for one of the two clients: which gateway and which
\* unit it is for.
LEMMA CommandsOfMain ==
    ASSUME ReliableGateway, ControlInvariant, RemoteStep("main"), UNCHANGED appVars
    PROVE  /\ workerPc = "none"
           /\ mainPc \in {"stopLegacy", "switch", "undo", "restoring"}
           /\ enabled' \subseteq enabled \/ Elsewhere(host, "runtime")
<1> USE DEF ControlInvariant
<1> "main" \in Clients /\ GatewayTypeOK /\ config' = config
  BY DEF Clients, TypeOK, appVars
<1>1. workerPc = "none" /\ mainPc \in {"stopLegacy", "switch", "undo", "restoring"}
  BY OneCaller DEF RemoteStep, HasWork, NoCall, CallsAsExpected, MainCalls
<1>2. CASE mainPc = "switch"
  BY <1>1, <1>2, StartingGoesOn DEF CallsAsExpected, MainCalls
<1>3. CASE mainPc = "stopLegacy"
  <2>1. StoppingLegacy("main")
    BY <1>3 DEF CallsAsExpected, MainCalls
  <2>2. enabled' \subseteq enabled
    BY <2>1, StoppingLegacyGoesOn
  <2>3. QED
    BY <1>1, <2>2
<1>4. CASE mainPc = "undo"
  <2>1. Stopping("main", "runtime", Try("stop", "runtime"), Try("disable", "runtime"))
    BY <1>4 DEF CallsAsExpected, MainCalls
  <2>2. enabled' \subseteq enabled
    BY <2>1, StoppingGoesOn DEF ReliableGateway, Decisive, Try, Units
  <2>3. QED
    BY <1>1, <2>2
<1>5. CASE mainPc = "restoring"
  <2>1. Stopping("main", "runtime", Must("stop", "runtime"), Must("disable", "runtime"))
    BY <1>5 DEF CallsAsExpected, MainCalls
  <2>2. enabled' \subseteq enabled
    BY <2>1, StoppingGoesOn DEF Decisive, Must, Units
  <2>3. QED
    BY <1>1, <2>2
<1>6. QED
  BY <1>1, <1>2, <1>3, <1>4, <1>5

\* A restore script brings the publisher closer to what was found.
LEMMA RestoringToGoesOn ==
    ASSUME GatewayTypeOK, NEW previous \in SUBSET {"active", "enabled"},
           RestoringTo(previous), "enabled" \notin previous => ~LegacyEnabled(host),
           RemoteStep("worker") \/ CommandFails("worker"), config' = config
    PROVE  /\ RestoringTo(previous)'
           /\ "enabled" \notin previous => ~LegacyEnabled(host)'
<1> DEFINE enable == Must("enable", "legacy")
           start == Must("start", "legacy")
<1> "worker" \in Clients /\ host' = host
  BY DEF Clients, host
<1>1. HasWork(remote["worker"])
  BY DEF RemoteStep, CommandFails
<1>2. ASSUME NEW cmd, NEW rest, NEW script, script # << >>, Head(script) = cmd,
             Tail(script) = rest, cmd.must, OnItsWay("worker", script)
      PROVE  \/ Execute(host, cmd) /\ remote'["worker"] = Running(host, rest)
             \/ remote'["worker"] = Failed /\ UNCHANGED <<running, enabled>>
  <2>1. /\ remote["worker"].host = host /\ remote["worker"].todo = script
        /\ "worker" \in DOMAIN remote
    BY <1>2 DEF OnItsWay, Running, GatewayTypeOK
  <2>2. CASE RemoteStep("worker")
    BY <1>2, <2>1, <2>2 DEF RemoteStep
  <2>3. CASE CommandFails("worker")
    BY <1>2, <2>1, <2>3 DEF CommandFails
  <2>4. QED
    BY <2>2, <2>3
<1>3. /\ enable.do = "enable" /\ enable.unit = "legacy" /\ enable.must
      /\ start.do = "start" /\ start.unit = "legacy" /\ start.must
  BY DEF Must
<1>4. /\ Execute(host, enable) => LegacyEnabled(host)'
      /\ Execute(host, start) => enabled' = enabled /\ <<host, "legacy">> \in running'
  BY <1>3 DEF Execute, LegacyEnabled
<1>5. /\ Head(<< enable, start >>) = enable /\ Tail(<< enable, start >>) = << start >>
      /\ << enable, start >> # << >>
      /\ \A x : Head(<< x >>) = x /\ Tail(<< x >>) = << >> /\ << x >> # << >>
  OBVIOUS
<1> HIDE DEF enable, start
<1>6. ASSUME remote'["worker"] = Failed, UNCHANGED <<running, enabled>>
      PROVE  RestoringTo(previous)' /\ ("enabled" \notin previous => ~LegacyEnabled(host)')
  BY <1>6 DEF RestoringTo, LegacyEnabled
<1>7. CASE OnItsWay("worker", << start >>) /\ ("enabled" \in previous => LegacyEnabled(host))
  <2>1. CASE Execute(host, start) /\ remote'["worker"] = Running(host, << >>)
    <3>1. LegacyEnabled(host)' <=> LegacyEnabled(host)
      BY <1>4, <2>1 DEF LegacyEnabled
    <3>2. AsFound(host, previous)'
      BY <1>4, <1>7, <2>1, <3>1 DEF AsFound
    <3>3. QED
      BY <1>7, <2>1, <3>1, <3>2 DEF RestoringTo, OnItsWay
  <2>2. QED
    BY <1>2, <1>3, <1>5, <1>6, <1>7, <2>1
<1>8. CASE previous = {"active", "enabled"} /\ OnItsWay("worker", << enable, start >>)
  <2>1. CASE Execute(host, enable) /\ remote'["worker"] = Running(host, << start >>)
    BY <1>4, <1>8, <2>1 DEF RestoringTo, OnItsWay, start
  <2>2. QED
    BY <1>2, <1>3, <1>5, <1>6, <1>8, <2>1
<1>9. CASE previous = {"enabled"} /\ OnItsWay("worker", << enable >>)
  <2>1. CASE Execute(host, enable) /\ remote'["worker"] = Running(host, << >>)
    BY <1>4, <1>9, <2>1 DEF RestoringTo, OnItsWay, AsFound
  <2>2. QED
    BY <1>2, <1>3, <1>5, <1>6, <1>9, <2>1
<1>10. ~OnItsWay("worker", << >>) /\ remote["worker"] # Failed
  BY <1>1 DEF OnItsWay, HasWork, Running, Failed
<1>11. \/ previous = {"active", "enabled"} /\ RestorePublisher(previous) = << enable, start >>
       \/ previous = {"enabled"} /\ RestorePublisher(previous) = << enable >>
       \/ previous = {"active"} /\ RestorePublisher(previous) = << start >>
       \/ previous = {} /\ RestorePublisher(previous) = << >>
  BY DEF RestorePublisher, enable, start
<1>12. QED
  BY <1>7, <1>8, <1>9, <1>10, <1>11 DEF RestoringTo, start

\* What a place without a record to look after leaves true, and what does not
\* concern the worker.
Recording == {"activating", "journal", "loop", "recover", "rollback", "startupRollback"}

LEMMA RecordFrame ==
    ASSUME RecordInvariant, UNCHANGED <<migration, enabled>>,
           \/ workerPc' \notin Recording
           \/ /\ UNCHANGED <<workerPc, workerActive, observed, config, running>>
              /\ remote'["worker"] = remote["worker"]
    PROVE  RecordInvariant'
BY DEF RecordInvariant, Recording, RestoresTheRecord, RestoringTo, NothingAdded, ReadingStands,
       NothingOverwritten, OnItsWay, AsFound, LegacyEnabled, host

LEMMA CommandsKeepRecord ==
    ASSUME ReliableGateway, ControlInvariant, RecordInvariant, UNCHANGED appVars,
           NEW c \in Clients, RemoteStep(c) \/ CommandFails(c)
    PROVE  RecordInvariant'
<1> USE DEF ControlInvariant
<1> GatewayTypeOK /\ "worker" \in Clients /\ host' = host /\ host \in Hosts
  BY HandoverAssumption DEF TypeOK, Clients, appVars, host
<1>0. UNCHANGED <<migration, workerPc, workerActive, observed, config>>
  BY DEF appVars, files, worker
<1>1. ASSUME NothingAdded', workerPc \notin {"recover", "rollback", "startupRollback"},
             workerPc # "journal"
      PROVE  RecordInvariant'
  BY <1>0, <1>1 DEF RecordInvariant, RestoresTheRecord, ReadingStands, NothingOverwritten
<1>2. CASE c = "main" /\ RemoteStep(c)
  <2>1. /\ workerPc = "none"
        /\ enabled' \subseteq enabled \/ Elsewhere(host, "runtime")
    BY <1>2, CommandsOfMain
  <2>2. \A h \in Hosts : LegacyEnabled(h)' => LegacyEnabled(h)
    BY <2>1 DEF LegacyEnabled, Elsewhere, Units
  <2>3. migration # NoMigration => HostOf[migration.binding] \in Hosts
    BY HandoverAssumption DEF TypeOK, Migration
  <2>4. NothingAdded'
    BY <1>0, <2>2, <2>3 DEF RecordInvariant, NothingAdded
  <2>5. QED
    BY <1>1, <2>1, <2>4
<1>3. CASE c = "main" /\ CommandFails(c)
  <2>1. remote'["worker"] = remote["worker"] /\ UNCHANGED <<running, enabled>>
    BY <1>3 DEF CommandFails, GatewayTypeOK
  <2>2. QED
    BY <1>0, <2>1, RecordFrame
<1>4. CASE c = "worker"
  <2>1. workerPc \in {"takeover", "resume", "recover", "rollback", "startupRollback"}
    BY <1>4 DEF RemoteStep, CommandFails, HasWork, NoCall, CallsAsExpected, WorkerCalls
  <2>2. CASE workerPc \in {"takeover", "resume"}
    <3>1. StoppingLegacy("worker")
      BY <2>2 DEF CallsAsExpected, WorkerCalls
    <3>2. RemoteStep("worker") => enabled' \subseteq enabled
      BY <1>0, <3>1, StoppingLegacyGoesOn
    <3>3. CommandFails("worker") => enabled' = enabled
      BY DEF CommandFails
    <3>4. NothingAdded'
      BY <1>0, <1>4, <3>2, <3>3 DEF RecordInvariant, NothingAdded, LegacyEnabled
    <3>5. QED
      BY <1>1, <2>2, <3>4
  <2>3. CASE workerPc \in {"recover", "rollback", "startupRollback"}
    <3>1. /\ migration # NoMigration /\ RestoringTo(migration.previous)
          /\ migration \in Migration /\ HostOf[migration.binding] = host
      BY <2>3 DEF RecordInvariant, RestoresTheRecord, TypeOK, JournalsTellWhoControls,
                  WorkerJournal, host
    <3>2. migration.previous \in SUBSET {"active", "enabled"}
      BY <3>1 DEF Migration
    <3>3. "enabled" \notin migration.previous => ~LegacyEnabled(host)
      BY <3>1 DEF RecordInvariant, NothingAdded
    <3> DEFINE found == migration.previous
    <3>4. found' = found
      BY <1>0
    <3> HIDE DEF found
    <3>5. /\ RestoringTo(found)'
          /\ "enabled" \notin found => ~LegacyEnabled(host)'
      <4>1. ASSUME NEW previous \in SUBSET {"active", "enabled"}, previous = found
            PROVE  /\ RestoringTo(previous)'
                   /\ "enabled" \notin previous => ~LegacyEnabled(host)'
        BY <1>0, <1>4, <3>1, <3>3, <4>1, RestoringToGoesOn DEF found
      <4>2. QED
        BY <3>2, <3>4, <4>1 DEF found, RestoringTo, OnItsWay, AsFound, RestorePublisher
    <3>6. QED
      BY <1>0, <2>3, <3>1, <3>4, <3>5
         DEF RecordInvariant, RestoresTheRecord, NothingAdded, ReadingStands,
             NothingOverwritten, found
  <2>4. QED
    BY <2>1, <2>2, <2>3
<1>5. QED
  BY <1>2, <1>3, <1>4 DEF Clients

\* A reboot ends the worker's script before it can claim anything.
LEMMA RebootKeepsRecord ==
    ASSUME ControlInvariant, RecordInvariant, UNCHANGED appVars, NEW h \in Hosts, Reboot(h)
    PROVE  RecordInvariant'
<1> "worker" \in Clients /\ host' = host
  BY DEF Clients, appVars, host
<1>1. UNCHANGED <<migration, workerPc, workerActive, observed, config, enabled>>
  BY DEF appVars, files, worker, Reboot
<1>2. NothingAdded' /\ ReadingStands' /\ NothingOverwritten'
  BY <1>1 DEF RecordInvariant, NothingAdded, ReadingStands, NothingOverwritten, LegacyEnabled
<1>3. ASSUME NEW previous, RestoringTo(previous) PROVE RestoringTo(previous)'
  <2>1. CASE remote'["worker"] = Failed
    BY <2>1 DEF RestoringTo
  <2>2. CASE remote'["worker"] # Failed
    <3>1. remote'["worker"] = remote["worker"]
      BY <2>2 DEF Reboot
    <3>2. \A rest : OnItsWay("worker", rest) => h # host /\ OnItsWay("worker", rest)'
      BY <2>2, <3>1 DEF Reboot, OnItsWay, Running
    <3>3. h # host => (<<host, "legacy">> \in running' <=> <<host, "legacy">> \in running)
      BY DEF Reboot
    <3>4. QED
      BY <1>1, <1>3, <2>2, <3>1, <3>2, <3>3 DEF RestoringTo, AsFound, LegacyEnabled
  <2>3. QED
    BY <2>1, <2>2
<1>4. RestoresTheRecord'
  BY <1>1, <1>3 DEF RecordInvariant, RestoresTheRecord
<1>5. QED
  BY <1>2, <1>4 DEF RecordInvariant

\* Main and the container leave the worker alone or end it; a new worker
\* starts without anything to look after.
LEMMA MainKeepsRecord ==
    ASSUME ControlInvariant, RecordInvariant,
           MainStep \/ MainFails \/ AppDown \/ \E b \in Bindings : AppStart(b)
    PROVE  RecordInvariant'
<1> USE DEF files, worker, gatewayVars, WorkerGone, Recording
<1> DEFINE Ended == workerPc' \in {"none", "start"}
           Alone == UNCHANGED <<workerPc, workerActive, observed, config, running>>
                    /\ remote'["worker"] = remote["worker"]
<1> remote \in [Clients -> Call] /\ "worker" \in Clients
  BY DEF ControlInvariant, TypeOK, GatewayTypeOK, Clients
<1>1. UNCHANGED <<migration, enabled>>
  BY DEF MainStep, MainFails, AppDown, AppStart, TakeDeploymentAction, SuperviseGateway,
         SuperviseWorker, InstallCheck, InstallJournal, InstallStopWorker,
         InstallLegacyStopped, InstallSwitched, InstallHealthy, UndoVerified, RestoreCheck,
         RestoreDone, Cleanup, CleanupEnds, InstallPrepareFails, InstallFails, UndoFails,
         RestoreFails
<1>2. CASE TakeDeploymentAction \/ InstallCheck \/ InstallJournal \/ InstallHealthy
           \/ Cleanup \/ CleanupEnds \/ InstallPrepareFails
  <2>1. Alone
    BY <1>2 DEF TakeDeploymentAction, InstallCheck, InstallJournal, InstallHealthy, Cleanup,
                CleanupEnds, InstallPrepareFails
  <2>2. QED
    BY <1>1, <2>1, RecordFrame
<1>3. CASE SuperviseGateway \/ InstallStopWorker \/ AppDown \/ \E b \in Bindings : AppStart(b)
  <2>1. Ended
    BY <1>3 DEF SuperviseGateway, InstallStopWorker, AppDown, AppStart, ControlInvariant,
                JournalsTellWhoControls, WorkerOrJournal
  <2>2. QED
    BY <1>1, <2>1, RecordFrame
<1>4. CASE SuperviseWorker
  <2>1. Ended \/ Alone
    BY <1>4 DEF SuperviseWorker
  <2>2. QED
    BY <1>1, <2>1, RecordFrame
<1>5. CASE InstallLegacyStopped \/ InstallSwitched \/ UndoVerified \/ RestoreCheck
           \/ RestoreDone \/ InstallFails \/ UndoFails \/ RestoreFails
  <2>1. Alone
    BY <1>5 DEF InstallLegacyStopped, InstallSwitched, UndoVerified, RestoreCheck, RestoreDone,
                InstallFails, UndoFails, RestoreFails, Asks, HangsUp
  <2>2. QED
    BY <1>1, <2>1, RecordFrame
<1>6. QED
  BY <1>2, <1>3, <1>4, <1>5 DEF MainStep, MainFails

LEMMA WorkerKeepsRecord ==
    ASSUME ControlInvariant, RecordInvariant,
           WorkerStep \/ WorkerPoll \/ WorkerFails \/ WorkerDies
    PROVE  RecordInvariant'
<1> USE DEF workerFrame, gatewayVars, WAsks, WHangsUp
<1> remote \in [Clients -> Call] /\ "worker" \in Clients
  BY DEF ControlInvariant, TypeOK, GatewayTypeOK, Clients
<1>1. UNCHANGED <<config, running, enabled>> /\ host' = host
  BY DEF WorkerStep, WorkerPoll, WorkerFails, WorkerDies, WorkerStart, WorkerPrepared,
         WorkerDiscovered, WorkerRecovered, WorkerResumed, WorkerTakesAction, ActivateObserve,
         ActivateJournal, ActivateDone, RollbackDone, WorkerExits, WorkerRetry, host
<1>2. CASE WorkerStart \/ WorkerExits \/ WorkerRetry \/ WorkerPoll \/ WorkerFails \/ WorkerDies
  <2>1. migration' = migration
    BY <1>2 DEF WorkerStart, WorkerExits, WorkerRetry, WorkerPoll, WorkerFails, WorkerDies
  <2>2. \/ workerPc' \notin Recording
        \/ /\ UNCHANGED <<workerPc, workerActive, observed, config, running>>
           /\ remote'["worker"] = remote["worker"]
    BY <1>2 DEF WorkerStart, WorkerExits, WorkerRetry, WorkerPoll, WorkerFails, WorkerDies,
                Recording
  <2>3. QED
    BY <1>1, <2>1, <2>2, RecordFrame
\* A restore script is asked for with what the journal names.
<1>3. ASSUME migration # NoMigration, migration' = migration,
             workerPc' \in {"recover", "rollback", "startupRollback"},
             remote' = [remote EXCEPT !["worker"] = Running(host, RestorePublisher(migration.previous))]
      PROVE  RecordInvariant'
  <2>1. remote'["worker"] = Running(host, RestorePublisher(migration.previous))
    BY <1>3
  <2>2. RestoresTheRecord'
    BY <1>1, <1>3, <2>1 DEF RestoresTheRecord, RestoringTo, OnItsWay
  <2>3. QED
    BY <1>1, <1>3, <2>2
       DEF RecordInvariant, NothingAdded, ReadingStands, NothingOverwritten, LegacyEnabled
\* A place without a restore script or a reading.
<1>4. ASSUME \/ migration' = migration
             \/ migration' = NoMigration
             \/ migration = NoMigration /\ NothingAdded'
             \/ migration \in Migration /\ migration' = [migration EXCEPT !.phase = "active"],
             workerPc' \notin {"recover", "rollback", "startupRollback", "journal"},
             \/ workerPc' \notin Recording
             \/ workerActive' /\ workerPc' = "loop"
             \/ migration' = NoMigration
      PROVE  RecordInvariant'
  <2>1. RestoresTheRecord' /\ ReadingStands' /\ NothingOverwritten'
    BY <1>4 DEF RestoresTheRecord, ReadingStands, NothingOverwritten, Recording
  <2>2. NothingAdded'
    <3>1. CASE migration \in Migration /\ migration' = [migration EXCEPT !.phase = "active"]
      <4>1. migration # NoMigration /\ migration'.previous = migration.previous
            /\ migration'.binding = migration.binding
        BY <3>1 DEF Migration, NoMigration
      <4>2. QED
        BY <1>1, <4>1 DEF RecordInvariant, NothingAdded, LegacyEnabled
    <3>2. QED
      BY <1>1, <1>4, <3>1 DEF RecordInvariant, NothingAdded, LegacyEnabled
  <2>3. QED
    BY <2>1, <2>2 DEF RecordInvariant
<1>5. CASE WorkerPrepared
  BY <1>3, <1>4, <1>5 DEF WorkerPrepared, Recording
<1>6. CASE WorkerDiscovered
  <2>1. CASE migration = NoMigration
    BY <1>4, <1>6, <2>1 DEF WorkerDiscovered, NoMigration
  <2>2. CASE migration # NoMigration
    <3>1. migration.phase \in {"taking_over", "active"}
      BY <2>2 DEF ControlInvariant, TypeOK, Migration
    <3>2. CASE migration.phase = "taking_over"
      BY <1>3, <1>6, <2>2, <3>2 DEF WorkerDiscovered
    <3>3. CASE migration.phase = "active"
      BY <1>4, <1>6, <2>2, <3>3 DEF WorkerDiscovered, Recording
    <3>4. QED
      BY <3>1, <3>2, <3>3
  <2>3. QED
    BY <2>1, <2>2
<1>7. CASE WorkerRecovered \/ WorkerResumed \/ RollbackDone
  BY <1>4, <1>7 DEF WorkerRecovered, WorkerResumed, RollbackDone
<1>8. CASE WorkerTakesAction
  <2>1. workerPc = "loop" /\ UNCHANGED <<migration, workerActive, observed>>
    BY <1>8 DEF WorkerTakesAction
  <2>2. ~workerActive => migration = NoMigration
    BY <2>1 DEF RecordInvariant, NothingOverwritten
  <2>3. CASE action = "activate" /\ ~workerActive
    BY <1>4, <1>8, <2>2, <2>3 DEF WorkerTakesAction
  <2>4. CASE action = "rollback" /\ migration # NoMigration
    BY <1>3, <1>8, <2>4 DEF WorkerTakesAction
  <2>5. CASE ~(action = "activate" /\ ~workerActive) /\ ~(action = "rollback" /\ migration # NoMigration)
    <3>1. UNCHANGED <<workerPc, remote>>
      BY <1>8, <2>5 DEF WorkerTakesAction
    <3>2. QED
      BY <1>1, <2>1, <3>1, RecordFrame
  <2>6. QED
    BY <2>3, <2>4, <2>5
<1>9. CASE ActivateObserve
  <2>1. workerPc = "activating" /\ workerPc' = "journal" /\ migration' = migration
        /\ observed' = PublisherState(host)
    BY <1>9 DEF ActivateObserve
  <2>2. migration = NoMigration
    BY <2>1 DEF RecordInvariant, NothingOverwritten
  <2>3. ReadingStands'
    BY <1>1, <2>1 DEF ReadingStands, PublisherState, LegacyEnabled
  <2>4. QED
    BY <2>1, <2>2, <2>3 DEF RecordInvariant, RestoresTheRecord, NothingAdded, NothingOverwritten
<1>10. CASE ActivateJournal
  <2>1. /\ workerPc = "journal" /\ workerPc' = "takeover"
        /\ migration' = [phase |-> "taking_over", binding |-> config, previous |-> observed]
    BY <1>10 DEF ActivateJournal
  <2>2. migration = NoMigration /\ (LegacyEnabled(host) <=> "enabled" \in observed)
    BY <2>1 DEF RecordInvariant, NothingOverwritten, ReadingStands
  <2>3. NothingAdded'
    BY <1>1, <2>1, <2>2 DEF NothingAdded, LegacyEnabled, host
  <2>4. QED
    BY <1>4, <2>1, <2>2, <2>3 DEF Recording
<1>11. CASE ActivateDone
  <2>1. migration \in Migration
    BY <1>11 DEF ActivateDone, ControlInvariant, TakeoverJournaled, TypeOK
  <2>2. QED
    BY <1>4, <1>11, <2>1 DEF ActivateDone
<1>12. QED
  BY <1>2, <1>5, <1>6, <1>7, <1>8, <1>9, <1>10, <1>11 DEF WorkerStep

LEMMA RecordKeeps ==
    ASSUME ReliableGateway, ControlInvariant, RecordInvariant, [Next]_vars
    PROVE  RecordInvariant'
<1>1. CASE \E t \in Handlers : UserRequest(t) \/ HandlerStep(t)
  <2>1. ASSUME NEW t \in Handlers, UserRequest(t) \/ HandlerStep(t)
        PROVE  UNCHANGED <<migration, worker, config, gatewayVars>>
    BY <2>1 DEF UserRequest, HandlerStep, PostDeployment, PostControl, AcquireLock, files,
                WriteDeploymentAction, CheckDeployment, CheckLock, CheckMigration, WriteAction
  <2>2. QED
    BY <1>1, <2>1, RecordFrame DEF worker, gatewayVars
<1>2. CASE MainStep \/ MainFails \/ AppDown \/ \E b \in Bindings : AppStart(b)
  BY <1>2, MainKeepsRecord
<1>3. CASE WorkerStep \/ WorkerPoll \/ WorkerFails \/ WorkerDies
  BY <1>3, WorkerKeepsRecord
<1>4. CASE GatewayStep \/ GatewayFails
  <2>1. ~LingeringStep
    BY NothingLingers DEF ControlInvariant
  <2>2. UNCHANGED appVars
    BY <1>4 DEF GatewayStep, GatewayFails
  <2>3. \/ \E c \in Clients : RemoteStep(c) \/ CommandFails(c)
        \/ \E h \in Hosts : Reboot(h)
    BY <1>4, <2>1 DEF GatewayStep, GatewayFails
  <2>4. QED
    BY <2>2, <2>3, CommandsKeepRecord, RebootKeepsRecord
<1>5. CASE UNCHANGED vars
  BY <1>5, RecordFrame DEF vars, files, worker, gatewayVars
<1>6. QED
  BY <1>1, <1>2, <1>3, <1>4, <1>5 DEF Next, Outage

LEMMA RecordInvariantHolds ==
    ASSUME ReliableGateway PROVE Spec => []RecordInvariant
<1>1. Init => RecordInvariant
  BY DEF Init, RecordInvariant, RestoresTheRecord, NothingAdded, ReadingStands,
         NothingOverwritten, ActivationStages, RollbackStages
<1>2. ControlInvariant /\ RecordInvariant /\ [Next]_vars => RecordInvariant'
  BY RecordKeeps
<1>3. QED
  BY <1>1, <1>2, ControlInvariantHolds, PTL DEF Spec

\* Only the worker touches its journal, at four places.
LEMMA MigrationMoves ==
    ASSUME [Next]_vars, migration' # migration
    PROVE  WorkerRecovered \/ ActivateJournal \/ ActivateDone \/ RollbackDone
<1> USE DEF files, workerFrame, appVars
<1>1. \A t \in Handlers : ~UserRequest(t) /\ ~HandlerStep(t)
  BY DEF UserRequest, HandlerStep, PostDeployment, PostControl, AcquireLock,
         WriteDeploymentAction, CheckDeployment, CheckLock, CheckMigration, WriteAction
<1>2. ~(MainStep \/ MainFails \/ AppDown \/ \E b \in Bindings : AppStart(b))
  BY DEF MainStep, MainFails, AppDown, AppStart, TakeDeploymentAction, SuperviseGateway,
         SuperviseWorker, InstallCheck, InstallJournal, InstallStopWorker,
         InstallLegacyStopped, InstallSwitched, InstallHealthy, UndoVerified, RestoreCheck,
         RestoreDone, Cleanup, CleanupEnds, InstallPrepareFails, InstallFails, UndoFails,
         RestoreFails
<1>3. ~(WorkerPoll \/ WorkerFails \/ WorkerDies \/ GatewayStep \/ GatewayFails \/ UNCHANGED vars)
  BY DEF WorkerPoll, WorkerFails, WorkerDies, GatewayStep, GatewayFails, vars
<1>4. ~(WorkerStart \/ WorkerPrepared \/ WorkerDiscovered \/ WorkerResumed \/ WorkerTakesAction
        \/ ActivateObserve \/ WorkerExits \/ WorkerRetry)
  BY DEF WorkerStart, WorkerPrepared, WorkerDiscovered, WorkerResumed, WorkerTakesAction,
         ActivateObserve, WorkerExits, WorkerRetry
<1>5. QED
  BY <1>1, <1>2, <1>3, <1>4 DEF Next, Outage, WorkerStep

\* A restore script that has been answered has done its work.
LEMMA RestoredWhenReplied ==
    ASSUME ControlInvariant, RecordInvariant, Replied("worker"), migration # NoMigration,
           workerPc \in {"recover", "rollback", "startupRollback"}
    PROVE  AsFound(HostOf[migration.binding], migration.previous)
<1>1. migration \in Migration /\ HostOf[migration.binding] = host
  BY DEF ControlInvariant, TypeOK, JournalsTellWhoControls, WorkerJournal, host
<1>2. "enabled" \notin migration.previous => ~LegacyEnabled(host)
  BY <1>1 DEF RecordInvariant, NothingAdded
<1>3. RestoringTo(migration.previous)
  BY DEF RecordInvariant, RestoresTheRecord
<1>4. CASE OnItsWay("worker", RestorePublisher(migration.previous))
  <2>1. RestorePublisher(migration.previous) = << >>
    BY <1>4 DEF Replied, OnItsWay, Running
  <2>2. migration.previous = {}
    BY <1>1, <2>1 DEF RestorePublisher, Migration
  <2>3. QED
    BY <1>1, <1>2, <2>2 DEF AsFound
<1>5. ~OnItsWay("worker", << Must("start", "legacy") >>) /\ remote["worker"] # Failed
  BY DEF Replied, OnItsWay, Running, Failed
<1>6. QED
  BY <1>1, <1>3, <1>4, <1>5 DEF RestoringTo

\* The journal of a takeover is dropped only when the publisher is back as it
\* was found (worker.py: rollback, and run after an interrupted takeover),
\* through any crash, reboot, failed command or lost connection.
THEOREM RestoredAsFoundHolds ==
    ASSUME ReliableGateway PROVE Spec => RestoredAsFound
<1>1. ControlInvariant /\ RecordInvariant /\ [Next]_vars =>
        [ migration # NoMigration /\ migration' = NoMigration =>
            AsFound(HostOf[migration.binding], migration.previous) ]_vars
  <2> SUFFICES ASSUME ControlInvariant, RecordInvariant, [Next]_vars,
                      migration # NoMigration, migration' = NoMigration
               PROVE  AsFound(HostOf[migration.binding], migration.previous)
    OBVIOUS
  <2>1. CASE WorkerRecovered \/ RollbackDone
    BY <2>1, RestoredWhenReplied DEF WorkerRecovered, RollbackDone
  <2>2. ~ActivateJournal
    BY DEF ActivateJournal, NoMigration
  <2>3. ~ActivateDone
    BY DEF ActivateDone, ControlInvariant, TypeOK, Migration, NoMigration
  <2>4. QED
    BY <2>1, <2>2, <2>3, MigrationMoves
<1>2. QED
  BY <1>1, ControlInvariantHolds, RecordInvariantHolds, PTL DEF Spec, RestoredAsFound

\* No second takeover overwrites what the first one found (worker.py: run,
\* activate): the journal keeps it until it is dropped.
THEOREM RecordKeptHolds ==
    ASSUME ReliableGateway PROVE Spec => RecordKept
<1>1. ControlInvariant /\ RecordInvariant /\ [Next]_vars =>
        [ migration # NoMigration /\ migration' # NoMigration =>
            migration' \in {migration, [migration EXCEPT !.phase = "active"]} ]_vars
  BY MigrationMoves DEF WorkerRecovered, ActivateJournal, ActivateDone, RollbackDone,
                        RecordInvariant, NothingOverwritten
<1>2. QED
  BY <1>1, ControlInvariantHolds, RecordInvariantHolds, PTL DEF Spec, RecordKept
-----------------------------------------------------------------------------
(* With a patient user the way back stays open.                            *)

\* A request thread finds nothing else under way once it deploys, and what
\* it writes for the worker meets no deployment.
LEMMA RequestsKeepPatience ==
    ASSUME PatientUser, TypeOK, PatientInvariant, NEW t \in Handlers,
           UserRequest(t) \/ HandlerStep(t)
    PROVE  PatientInvariant'
<1> USE DEF files, worker, http, At, ControlOps, DeploymentOps, Free
<1>1. UNCHANGED <<migration, gatewayDeployment, mainPc, workerPc>>
  BY DEF UserRequest, HandlerStep, PostDeployment, PostControl, AcquireLock,
         WriteDeploymentAction, CheckDeployment, CheckLock, CheckMigration, WriteAction
<1>2. JournalStaysActive' /\ RecoversInterrupted'
  BY <1>1 DEF PatientInvariant, JournalStaysActive, RecoversInterrupted
<1>3. \A u \in Handlers \ {t} : handler'[u] = handler[u]
  BY DEF UserRequest, HandlerStep, PostDeployment, PostControl, AcquireLock, Advance, Release,
         WriteDeploymentAction, CheckDeployment, CheckLock, CheckMigration, WriteAction, TypeOK
\* The thread deploys on, or ends.
<1>4. ASSUME action' = action, ~Deploying => deployLock' = "free",
             \/ handler'[t] = Free
             \/ handler[t].op \in DeploymentOps /\ handler'[t].op = handler[t].op
      PROVE  PatientInvariant'
  <2>1. DeploymentOps \cap ControlOps = {} /\ Free.op \notin DeploymentOps \cup ControlOps
    OBVIOUS
  <2>2. Deploying' => Deploying
    BY <1>3, <1>4, <2>1 DEF Deploying
  <2>3. NothingElseAsked'
    BY <1>1, <1>3, <1>4, <2>2 DEF PatientInvariant, NothingElseAsked
  <2>4. AskedAlone'
    BY <1>3, <1>4 DEF PatientInvariant, AskedAlone
  <2>5. QED
    BY <1>2, <2>3, <2>4 DEF PatientInvariant
\* The thread goes on with a control request.
<1>5. ASSUME action' = action, deployLock' = deployLock,
             handler[t] # Free \/ \A u \in Handlers : handler[u].op \notin DeploymentOps,
             handler[t].op \notin DeploymentOps, handler'[t].op \in ControlOps,
             handler'[t].at \in {"migration", "write"} => deployLock = "free" \/ ~Deploying
      PROVE  PatientInvariant'
  <2>1. \A u \in Handlers : handler[u].op \notin DeploymentOps
    BY <1>5 DEF PatientInvariant, AskedAlone
  <2>2. \A u \in Handlers : handler'[u].op \notin DeploymentOps
    BY <1>3, <1>5, <2>1
  <2>3. (Deploying' <=> Deploying) /\ (Deploying => deployLock = "held")
    BY <1>5, <2>1, <2>2 DEF Deploying
  <2>4. NothingElseAsked'
    BY <1>1, <1>3, <1>5, <2>3 DEF PatientInvariant, NothingElseAsked
  <2>5. QED
    BY <1>2, <2>2, <2>4 DEF PatientInvariant, AskedAlone
<1>6. CASE \E op \in DeploymentOps : PostDeployment(t, op)
  <2>1. /\ Settled /\ UNCHANGED <<action, deployLock>>
        /\ handler'[t].op \in DeploymentOps
    BY <1>6 DEF PostDeployment, TypeOK
  <2>2. NothingElseAsked'
    BY <1>1, <1>3, <2>1 DEF Settled, NothingElseAsked
  <2>3. AskedAlone'
    BY <1>3, <2>1 DEF Settled, AskedAlone
  <2>4. QED
    BY <1>2, <2>2, <2>3 DEF PatientInvariant
<1>7. CASE \E op \in ControlOps : PostControl(t, op)
  <2>1. /\ \A u \in Handlers : handler[u].op \notin DeploymentOps
        /\ UNCHANGED <<action, deployLock>>
        /\ handler'[t].op \in ControlOps /\ handler'[t].at = "deployment"
    BY <1>7 DEF PostControl, TypeOK
  <2>2. QED
    BY <1>5, <2>1
<1>8. CASE AcquireLock(t)
  <2>1. action' = action /\ handler[t].op \in DeploymentOps
    BY <1>8 DEF AcquireLock
  <2>2. Deploying
    BY <2>1 DEF Deploying
  <2>3. handler'[t] = Free \/ handler'[t].op = handler[t].op
    BY <1>8 DEF AcquireLock, Advance, Release, TypeOK, Request
  <2>4. QED
    BY <1>4, <2>1, <2>2, <2>3
<1>9. CASE WriteDeploymentAction(t)
  BY <1>4, <1>9 DEF WriteDeploymentAction, Release, Deploying, TypeOK
<1>10. CASE CheckDeployment(t) \/ CheckLock(t) \/ CheckMigration(t)
  <2>1. /\ UNCHANGED <<action, deployLock>> /\ handler[t].op \in ControlOps
        /\ handler[t].at \in {"deployment", "lock", "migration"}
    BY <1>10 DEF CheckDeployment, CheckLock, CheckMigration
  <2>2. \/ handler'[t] = Free
        \/ /\ handler'[t].op = handler[t].op
           /\ \/ handler'[t].at = "lock"
              \/ handler[t].at = "lock" /\ deployLock = "free"
              \/ handler[t].at = "migration"
    BY <1>10, <2>1 DEF CheckDeployment, CheckLock, CheckMigration, Advance, Release, TypeOK,
                       Request
  <2>3. handler[t].at = "migration" => ~Deploying
    BY <2>1 DEF PatientInvariant, NothingElseAsked
  <2>4. CASE handler'[t] = Free
    BY <1>4, <2>1, <2>4 DEF Deploying, TypeOK
  <2>5. CASE handler'[t] # Free
    BY <1>5, <2>1, <2>2, <2>3, <2>5
  <2>6. QED
    BY <2>4, <2>5
<1>11. CASE WriteAction(t)
  <2>1. /\ handler[t].op \in ControlOps /\ handler[t].at = "write"
        /\ handler'[t] = Free /\ deployLock' = deployLock
    BY <1>11 DEF WriteAction, Release, TypeOK
  <2>2. ~Deploying
    BY <2>1 DEF PatientInvariant, NothingElseAsked
  <2>3. ~Deploying'
    BY <1>3, <2>1, <2>2 DEF Deploying
  <2>4. AskedAlone'
    BY <2>3 DEF AskedAlone, Deploying
  <2>5. QED
    BY <1>2, <2>3, <2>4 DEF PatientInvariant, NothingElseAsked
<1>12. QED
  BY <1>6, <1>7, <1>8, <1>9, <1>10, <1>11 DEF UserRequest, HandlerStep

\* From the check of an installation to the end of its journal the worker
\* neither takes over nor rolls back, so the journal of the takeover stays.
LEMMA PatienceKept ==
    ASSUME PatientUser, TypeOK, LockInv, MainHoldsJournal, WorkerExcluded, PatientInvariant,
           [Next]_vars
    PROVE  PatientInvariant'
<1> USE DEF files, http, worker, workerFrame, Finish, ActivationStages, RollbackStages
<1>1. CASE \E t \in Handlers : UserRequest(t) \/ HandlerStep(t)
  BY <1>1, RequestsKeepPatience
\* A step that asks for nothing and does not take the worker to a stage.
<1>2. ASSUME ~Deploying => ~Deploying', handler' = handler,
             action' \in {action, "none"}, migration' = migration,
             \/ workerPc' = workerPc
             \/ workerPc' \notin ActivationStages \cup RollbackStages \cup {"recover"},
             \/ mainPc' # "prepare" /\ gatewayDeployment' = NoDeployment
             \/ mainPc = "prepare" \/ gatewayDeployment # NoDeployment
             \/ migration.phase = "active"
      PROVE  PatientInvariant'
  BY <1>2 DEF PatientInvariant, NothingElseAsked, AskedAlone, JournalStaysActive,
              RecoversInterrupted, At
<1>3. deployLock' \in {deployLock, "free"} /\ handler' = handler => (~Deploying => ~Deploying')
  BY DEF Deploying, TypeOK
<1>4. CASE AppDown \/ \E b \in Bindings : AppStart(b)
  <2>1. \A t \in Handlers : handler'[t] = Free
    BY <1>4 DEF AppDown, AppStart, LockInv
  <2>2. /\ workerPc' = "none"
        /\ UNCHANGED <<migration, gatewayDeployment>> /\ mainPc' \in {"down", "loop"}
        /\ deployLock' = "free" \/ action' = "none"
    BY <1>4 DEF AppDown, AppStart, WorkerExcluded
  <2>3. NothingElseAsked' /\ AskedAlone'
    BY <2>1, <2>2
       DEF NothingElseAsked, AskedAlone, Deploying, Free, At, DeploymentOps, ControlOps
  <2>4. JournalStaysActive' /\ RecoversInterrupted'
    BY <2>2 DEF PatientInvariant, JournalStaysActive, RecoversInterrupted
  <2>5. QED
    BY <2>3, <2>4 DEF PatientInvariant
<1>5. CASE MainStep \/ MainFails
  <2>1. UNCHANGED <<migration, action, handler>> /\ deployLock' \in {deployLock, "free"}
    BY <1>5 DEF MainStep, MainFails, TakeDeploymentAction, SuperviseGateway, SuperviseWorker,
         InstallCheck, InstallJournal, InstallStopWorker, InstallLegacyStopped,
         InstallSwitched, InstallHealthy, UndoVerified, RestoreCheck, RestoreDone, Cleanup,
         CleanupEnds, InstallPrepareFails, InstallFails, UndoFails, RestoreFails
  <2>2. workerPc' \in {workerPc, "none", "start"}
    BY <1>5 DEF MainStep, MainFails, TakeDeploymentAction, SuperviseGateway, SuperviseWorker,
         InstallCheck, InstallJournal, InstallStopWorker, InstallLegacyStopped,
         InstallSwitched, InstallHealthy, UndoVerified, RestoreCheck, RestoreDone, Cleanup,
         CleanupEnds, InstallPrepareFails, InstallFails, UndoFails, RestoreFails, WorkerGone
  <2>3. gatewayDeployment' \notin {gatewayDeployment, NoDeployment} =>
           mainPc = "prepare" \/ gatewayDeployment # NoDeployment
    BY <1>5 DEF MainStep, MainFails, TakeDeploymentAction, SuperviseGateway, SuperviseWorker,
         InstallCheck, InstallJournal, InstallStopWorker, InstallLegacyStopped,
         InstallSwitched, InstallHealthy, UndoVerified, RestoreCheck, RestoreDone, Cleanup,
         CleanupEnds, InstallPrepareFails, InstallFails, UndoFails, RestoreFails,
         MainHoldsJournal
  <2>4. mainPc' = "prepare" => migration.phase = "active"
    BY <1>5 DEF MainStep, MainFails, TakeDeploymentAction, SuperviseGateway, SuperviseWorker,
         InstallCheck, InstallJournal, InstallStopWorker, InstallLegacyStopped,
         InstallSwitched, InstallHealthy, UndoVerified, RestoreCheck, RestoreDone, Cleanup,
         CleanupEnds, InstallPrepareFails, InstallFails, UndoFails, RestoreFails, TypeOK,
         DeploymentOps
  <2>5. QED
    BY <1>2, <1>3, <2>1, <2>2, <2>3, <2>4
<1>6. CASE WorkerStep \/ WorkerPoll \/ WorkerFails \/ WorkerDies
  <2>1. workerPc # "none" /\ UNCHANGED <<gatewayDeployment, mainPc, handler, deployLock>>
        /\ action' \in {action, "none"}
    BY <1>6 DEF WorkerStep, WorkerStart, WorkerPrepared, WorkerDiscovered, WorkerRecovered,
                WorkerResumed, WorkerTakesAction, ActivateObserve, ActivateJournal,
                ActivateDone, RollbackDone, WorkerExits, WorkerRetry, WorkerPoll,
                WorkerFails, WorkerDies
  <2>2. (Deploying' <=> Deploying) /\ AskedAlone'
    BY <2>1 DEF Deploying, PatientInvariant, AskedAlone
  <2>3. mainPc = "prepare" \/ gatewayDeployment # NoDeployment => Deploying
    BY <2>1 DEF WorkerExcluded, LockInv, Busy, Deploying
  <2>4. migration.phase \in {"none", "taking_over", "active"}
    BY DEF TypeOK, Migration, NoMigration
  <2>5. workerPc' \in ActivationStages \cup RollbackStages =>
           workerPc \in ActivationStages \cup RollbackStages \/ action # "none"
    BY <1>6, <2>4
       DEF WorkerStep, WorkerStart, WorkerPrepared, WorkerDiscovered, WorkerRecovered,
                WorkerResumed, WorkerTakesAction, ActivateObserve, ActivateJournal,
                ActivateDone, RollbackDone, WorkerExits, WorkerRetry, WorkerPoll,
                WorkerFails, WorkerDies
  <2>6. NothingElseAsked'
    BY <2>1, <2>2, <2>5 DEF PatientInvariant, NothingElseAsked, At
  <2>7. CASE migration' = migration
    <3>1. workerPc' = "recover" => migration.phase = "taking_over"
      BY <1>6, <2>4, <2>7
            DEF WorkerStep, WorkerStart, WorkerPrepared, WorkerDiscovered, WorkerRecovered,
                WorkerResumed, WorkerTakesAction, ActivateObserve, ActivateJournal,
                ActivateDone, RollbackDone, WorkerExits, WorkerRetry, WorkerPoll,
                WorkerFails, WorkerDies
    <3>2. QED
      BY <2>1, <2>2, <2>6, <2>7, <3>1
         DEF PatientInvariant, JournalStaysActive, RecoversInterrupted
  <2>8. CASE migration' # migration
    <3>1. WorkerRecovered \/ ActivateJournal \/ ActivateDone \/ RollbackDone
      BY <2>8, MigrationMoves
    <3>2. \/ workerPc \in ActivationStages \cup RollbackStages
          \/ workerPc = "recover" /\ migration.phase # "active"
      BY <3>1 DEF WorkerRecovered, ActivateJournal, ActivateDone, RollbackDone,
                  PatientInvariant, RecoversInterrupted
    <3>3. ~(mainPc = "prepare" \/ gatewayDeployment # NoDeployment)
      BY <2>3, <3>2 DEF PatientInvariant, NothingElseAsked, JournalStaysActive
    <3>4. workerPc' # "recover"
      BY <3>1 DEF WorkerRecovered, ActivateJournal, ActivateDone, RollbackDone
    <3>5. QED
      BY <2>1, <2>2, <2>6, <3>3, <3>4
         DEF PatientInvariant, JournalStaysActive, RecoversInterrupted
  <2>9. QED
    BY <2>7, <2>8
<1>7. CASE GatewayStep \/ GatewayFails \/ UNCHANGED vars
  <2>1. UNCHANGED appVars
    BY <1>7 DEF GatewayStep, GatewayFails, appVars, vars
  <2>2. QED
    BY <1>2, <1>3, <2>1 DEF appVars
<1>8. QED
  BY <1>1, <1>4, <1>5, <1>6, <1>7 DEF Next, Outage

LEMMA PatientInvariantHolds ==
    ASSUME PatientUser PROVE Spec => []PatientInvariant
<1>1. Init => LockInv /\ MainHoldsJournal /\ WorkerExcluded /\ PatientInvariant
  BY DEF Init, LockInv, Writing, Waiting, Busy, At, Free, DeploymentOps, MainHoldsJournal,
         WorkerExcluded, PatientInvariant, NothingElseAsked, AskedAlone, Deploying,
         JournalStaysActive, RecoversInterrupted
<1>2. /\ TypeOK /\ LockInv /\ MainHoldsJournal /\ WorkerExcluded /\ PatientInvariant
      /\ [Next]_vars
      => LockInv' /\ MainHoldsJournal' /\ WorkerExcluded' /\ PatientInvariant'
  BY LockKept, ExclusionKept, PatienceKept
<1>3. QED
  BY <1>1, <1>2, TypeCorrect, PTL DEF Spec

\* The gateway journal never outlives the journal of the takeover, so that
\* restore is not refused (app.py: do_POST), if the user waits for each request
\* to be settled before asking for a deployment; no gateway need be reliable.
THEOREM ReturnPossibleHolds ==
    ASSUME PatientUser PROVE Spec => []ReturnPossible
<1>1. PatientInvariant => ReturnPossible
  BY DEF PatientInvariant, JournalStaysActive, ReturnPossible, NoMigration
<1>2. QED
  BY <1>1, PatientInvariantHolds, PTL

\* A command that changes autostart is for the gateway whose publisher was
\* taken over.
LEMMA CommandTouchesOne ==
    ASSUME ReliableGateway, ControlInvariant, RecordInvariant, ReturnPossible,
           NEW c \in Clients, RemoteStep(c), UNCHANGED appVars, NEW h \in Hosts,
           LegacyEnabled(h)' # LegacyEnabled(h)
    PROVE  migration # NoMigration /\ HostOf[migration.binding] = h
<1> USE DEF ControlInvariant, JournalsTellWhoControls
<1>1. remote[c].host = h /\ Head(remote[c].todo).unit = "legacy"
  BY DEF RemoteStep, Execute, LegacyEnabled
<1>2. CASE c = "worker"
  <2>1. workerPc \in {"takeover", "resume", "recover", "rollback", "startupRollback"}
    BY <1>2 DEF RemoteStep, HasWork, NoCall, CallsAsExpected, WorkerCalls
  <2>2. migration # NoMigration
    BY <2>1 DEF TakeoverJournaled, WorkerJournal, NoMigration, RecordInvariant,
                RestoresTheRecord
  <2>3. remote["worker"].host = host
    BY <1>2, <2>1 DEF CallsAsExpected, WorkerCalls, StoppingLegacy, Stopping, RestoringLegacy,
                      OnItsWay, Running, RemoteStep, HasWork, Failed
  <2>4. QED
    BY <1>1, <1>2, <2>1, <2>2, <2>3 DEF WorkerJournal, host
<1>3. CASE c = "main"
  <2>1. mainPc \in {"stopLegacy", "switch", "undo", "restoring"}
    BY <1>3, CommandsOfMain
  <2>2. gatewayDeployment # NoDeployment /\ gatewayDeployment.binding = config
    BY <2>1 DEF MainHoldsJournal
  <2>3. migration # NoMigration /\ migration.binding = config
    BY <2>2 DEF ReturnPossible, SameBinding
  <2>4. remote["main"].host = host
    BY <1>3, <2>1 DEF CallsAsExpected, MainCalls, StoppingLegacy, Stopping, StartingRuntime,
                      OnItsWay, Running, RemoteStep, HasWork, Failed
  <2>5. QED
    BY <1>1, <1>3, <2>3, <2>4 DEF host
<1>4. QED
  BY <1>2, <1>3 DEF Clients

\* And autostart of the legacy publisher is touched only while the journal of
\* a takeover of its gateway remembers what it was (worker.py: activate writes
\* it before it stops the publisher; deploy.py: _install relies on it).
THEOREM RecordedBeforeTouchedHolds ==
    ASSUME ReliableGateway, PatientUser PROVE Spec => RecordedBeforeTouched
<1>1. ControlInvariant /\ RecordInvariant /\ ReturnPossible /\ [Next]_vars =>
        [ \A h \in Hosts : LegacyEnabled(h)' # LegacyEnabled(h) =>
            migration # NoMigration /\ HostOf[migration.binding] = h ]_vars
  <2> SUFFICES ASSUME ControlInvariant, RecordInvariant, ReturnPossible, [Next]_vars,
                      NEW h \in Hosts, LegacyEnabled(h)' # LegacyEnabled(h)
               PROVE  migration # NoMigration /\ HostOf[migration.binding] = h
    OBVIOUS
  <2>1. enabled' # enabled
    BY DEF LegacyEnabled
  <2>2. UNCHANGED appVars /\ \E c \in Clients : RemoteStep(c)
    BY <2>1, ServicesKept DEF AppStart, Reboot, gatewayVars
  <2>3. QED
    BY <2>2, CommandTouchesOne
<1>2. QED
  BY <1>1, ControlInvariantHolds, RecordInvariantHolds, ReturnPossibleHolds, PTL
     DEF Spec, RecordedBeforeTouched

\* Quiet when restore_ha ends, it stays quiet until a request is written.
LEMMA QuietKept ==
    ASSUME TypeOK, LockInv, PatientInvariant, NothingAskedSince, [Next]_vars
    PROVE  NothingAskedSince'
<1> USE DEF files, http, worker, workerFrame, Finish, ActivationStages, RollbackStages,
            NothingAskedSince
<1>1. ASSUME restored' \in {restored, FALSE}, action' \in {action, "none"},
             workerPc' \in RollbackStages =>
                workerPc \in RollbackStages \/ action = "rollback"
      PROVE  NothingAskedSince'
  BY <1>1
<1>2. ASSUME NEW t \in Handlers, UserRequest(t) \/ HandlerStep(t)
      PROVE  UNCHANGED <<restored, action, workerPc>> \/ restored' = FALSE
  BY <1>2 DEF UserRequest, HandlerStep, PostDeployment, PostControl, AcquireLock,
              WriteDeploymentAction, CheckDeployment, CheckLock, CheckMigration, WriteAction
<1>3. CASE \E t \in Handlers : UserRequest(t) \/ HandlerStep(t)
  BY <1>2, <1>3
<1>4. CASE AppDown \/ \E b \in Bindings : AppStart(b)
  BY <1>4 DEF AppDown, AppStart
<1>5. CASE RestoreDone
  <2>1. Deploying
    BY <1>5 DEF RestoreDone, LockInv, Busy, Deploying
  <2>2. action = "none" /\ workerPc \notin RollbackStages
    BY <2>1 DEF PatientInvariant, NothingElseAsked
  <2>3. QED
    BY <1>5, <2>2 DEF RestoreDone
<1>6. CASE (MainStep /\ ~RestoreDone) \/ MainFails
  <2>1. UNCHANGED <<restored, action>> /\ workerPc' \in {workerPc, "none", "start"}
    BY <1>6 DEF MainStep, MainFails, TakeDeploymentAction, SuperviseGateway, SuperviseWorker,
         InstallCheck, InstallJournal, InstallStopWorker, InstallLegacyStopped,
         InstallSwitched, InstallHealthy, UndoVerified, RestoreCheck, Cleanup,
         CleanupEnds, InstallPrepareFails, InstallFails, UndoFails, RestoreFails, WorkerGone
  <2>2. QED
    BY <1>1, <2>1
<1>7. CASE WorkerStep \/ WorkerPoll \/ WorkerFails \/ WorkerDies
  <2>1. migration.phase \in {"none", "taking_over", "active"}
    BY DEF TypeOK, Migration, NoMigration
  <2>2. restored' = restored /\ action' \in {action, "none"}
    BY <1>7 DEF WorkerStep, WorkerStart, WorkerPrepared, WorkerDiscovered, WorkerRecovered,
                WorkerResumed, WorkerTakesAction, ActivateObserve, ActivateJournal,
                ActivateDone, RollbackDone, WorkerExits, WorkerRetry, WorkerPoll,
                WorkerFails, WorkerDies
  <2>3. workerPc' \in RollbackStages => workerPc \in RollbackStages \/ action = "rollback"
    BY <1>7, <2>1
       DEF WorkerStep, WorkerStart, WorkerPrepared, WorkerDiscovered, WorkerRecovered,
                WorkerResumed, WorkerTakesAction, ActivateObserve, ActivateJournal,
                ActivateDone, RollbackDone, WorkerExits, WorkerRetry, WorkerPoll,
                WorkerFails, WorkerDies
  <2>4. QED
    BY <1>1, <2>2, <2>3
<1>8. CASE GatewayStep \/ GatewayFails \/ UNCHANGED vars
  BY <1>1, <1>8 DEF GatewayStep, GatewayFails, appVars, vars
<1>9. QED
  BY <1>3, <1>4, <1>5, <1>6, <1>7, <1>8 DEF Next, Outage

\* After restore_ha (deploy.py: restore_ha) the worker resumes and does not
\* roll back unasked: what the stale rollback of an impatient user breaks.
THEOREM RestoreReturnsToHAHolds ==
    ASSUME PatientUser PROVE Spec => []RestoreReturnsToHA
<1>1. Init => LockInv /\ NothingAskedSince
  BY DEF Init, LockInv, Writing, Waiting, Busy, At, Free, DeploymentOps, NothingAskedSince
<1>2. TypeOK /\ LockInv /\ PatientInvariant /\ NothingAskedSince /\ [Next]_vars
      => LockInv' /\ NothingAskedSince'
  BY LockKept, QuietKept
<1>3. NothingAskedSince => RestoreReturnsToHA
  BY DEF NothingAskedSince, RestoreReturnsToHA
<1>4. QED
  BY <1>1, <1>2, <1>3, TypeCorrect, PatientInvariantHolds, PTL DEF Spec
=============================================================================
