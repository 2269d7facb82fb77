---------------------------- MODULE ControlProofs ----------------------------
(***************************************************************************)
(* Proofs about Handover for any number of gateways, options and HTTP      *)
(* threads.  First the types, with no assumption on the gateway.  Then     *)
(* ControlInvariant, which is inductive on a reliable gateway and yields   *)
(* OneController and the exclusion of the worker by the gateway journal.   *)
(***************************************************************************)
EXTENDS HandoverInvariants, Naturals, TLAPS

-----------------------------------------------------------------------------
(* Types.                                                                  *)


\* The scripts are sequences of commands.
LEMMA CommandTypes ==
    \A verb \in Verbs, unit \in Units :
        Must(verb, unit) \in Command /\ Try(verb, unit) \in Command
BY DEF Must, Try, Command

LEMMA ScriptTypes ==
    /\ StopPublisher \in Seq(Command) /\ SwitchRuntime \in Seq(Command)
    /\ StopRuntime \in Seq(Command) /\ UndoRuntime \in Seq(Command)
    /\ \A previous : RestorePublisher(previous) \in Seq(Command)
<1>1. StopPublisher \in Seq(Command) /\ SwitchRuntime \in Seq(Command)
  <2>1. /\ Try("find", "legacy") \in Command /\ Must("stop", "legacy") \in Command
        /\ Must("disable", "legacy") \in Command /\ Must("verify", "legacy") \in Command
    BY CommandTypes DEF Verbs, Units
  <2>2. StopPublisher \in Seq(Command)
    BY <2>1 DEF StopPublisher
  <2>3. SwitchRuntime \in Seq(Command)
    BY CommandTypes DEF SwitchRuntime, Verbs, Units
  <2>4. QED
    BY <2>2, <2>3
<1>2. StopRuntime \in Seq(Command) /\ UndoRuntime \in Seq(Command)
  BY CommandTypes DEF StopRuntime, UndoRuntime, Verbs, Units
<1>3. ASSUME NEW previous PROVE RestorePublisher(previous) \in Seq(Command)
  <2>1. Must("enable", "legacy") \in Command /\ Must("start", "legacy") \in Command
    BY CommandTypes DEF Verbs, Units
  <2>2. QED
    BY <2>1 DEF RestorePublisher
<1>4. QED
  BY <1>1, <1>2, <1>3

\* What a client may wait for.
LEMMA CallTypes ==
    /\ NoCall \in Call /\ Failed \in Call
    /\ \A h \in Hosts, script \in Seq(Command) : Running(h, script) \in Call
BY DEF Call, NoCall, Failed, Running

\* An absent journal is not one of the journals.
LEMMA NoJournal == NoMigration \notin Migration /\ NoDeployment \notin Deployment
<1>1. ASSUME NoMigration \in Migration PROVE FALSE
  <2>1. NoMigration.phase = "none"
    BY DEF NoMigration
  <2>2. NoMigration.phase \in {"taking_over", "active"}
    BY <1>1 DEF Migration
  <2>3. QED
    BY <2>1, <2>2
<1>2. ASSUME NoDeployment \in Deployment PROVE FALSE
  <2>1. NoDeployment.phase = "none"
    BY DEF NoDeployment
  <2>2. NoDeployment.phase \in {"switching", "active"}
    BY <1>2 DEF Deployment
  <2>3. QED
    BY <2>1, <2>2
<1>3. QED
  BY <1>1, <1>2

\* Whoever stops waiting leaves a proper call behind, or none.
LEMMA AbandonType ==
    ASSUME GatewayTypeOK, NEW c \in Clients, Abandon(c) PROVE lingering' \in Call
BY DEF GatewayTypeOK, Abandon

\* The steps of a request.
LEMMA HandlerTypes ==
    ASSUME handler \in [Handlers -> Request], NEW t \in Handlers
    PROVE  /\ Release(t) => handler' \in [Handlers -> Request]
           /\ \A place \in HandlerPlaces : Advance(t, place) => handler' \in [Handlers -> Request]
           /\ \A op \in ControlOps \cup DeploymentOps, place \in HandlerPlaces :
                [handler EXCEPT ![t] = [op |-> op, at |-> place]] \in [Handlers -> Request]
           /\ [u \in Handlers |-> Free] \in [Handlers -> Request]
<1>1. Free \in Request
  BY DEF Free, Request, HandlerPlaces
<1>2. Release(t) => handler' \in [Handlers -> Request]
  BY <1>1 DEF Release
<1>3. ASSUME NEW place \in HandlerPlaces, Advance(t, place)
      PROVE  handler' \in [Handlers -> Request]
  <2>1. handler' = [handler EXCEPT ![t] = [handler[t] EXCEPT !.at = place]]
    BY <1>3 DEF Advance
  <2>2. [handler[t] EXCEPT !.at = place] \in Request
    BY DEF Request
  <2>3. QED
    BY <2>1, <2>2
<1>4. ASSUME NEW op \in ControlOps \cup DeploymentOps, NEW place \in HandlerPlaces
      PROVE  [handler EXCEPT ![t] = [op |-> op, at |-> place]] \in [Handlers -> Request]
  BY DEF Request
<1>5. QED
  BY <1>1, <1>2, <1>3, <1>4

\* A call with work left: its command, the rest of it and the command's effect
\* stay within the types.
LEMMA CallSteps ==
    ASSUME GatewayTypeOK, NEW call \in Call, HasWork(call)
    PROVE  /\ Running(call.host, Tail(call.todo)) \in Call
           /\ Running(call.host, AfterFailure(call.todo)) \in Call
           /\ Execute(call.host, Head(call.todo)) =>
                running' \subseteq Hosts \X Units /\ enabled' \subseteq Hosts \X Units
<1>1. call \in [status : {"running"}, host : Hosts, todo : Seq(Command)]
  BY DEF HasWork, Call, NoCall, Failed
<1>2. Tail(call.todo) \in Seq(Command) /\ Head(call.todo) \in Command
  BY <1>1 DEF HasWork
<1>3. call.host \in Hosts /\ Head(call.todo).unit \in Units
  BY <1>1, <1>2 DEF Command
<1>4. <<call.host, Head(call.todo).unit>> \in Hosts \X Units
  BY <1>3
<1>5. ASSUME Execute(call.host, Head(call.todo))
      PROVE  running' \subseteq Hosts \X Units /\ enabled' \subseteq Hosts \X Units
  <2>1. running' \subseteq running \cup {<<call.host, Head(call.todo).unit>>}
    BY <1>5 DEF Execute
  <2>2. enabled' \subseteq enabled \cup {<<call.host, Head(call.todo).unit>>}
    BY <1>5 DEF Execute
  <2>3. QED
    BY <1>4, <2>1, <2>2 DEF GatewayTypeOK
<1>6. AfterFailure(call.todo) \in Seq(Command)
  <2>1. Len(call.todo) \in 1 .. Len(call.todo)
    BY <1>1 DEF HasWork
  <2>2. call.todo[Len(call.todo)] \in Command
    BY <1>1, <2>1
  <2>3. << call.todo[Len(call.todo)] >> \in Seq(Command)
    BY <2>2
  <2>4. QED
    BY <1>2, <2>3 DEF AfterFailure
<1>7. QED
  BY <1>2, <1>3, <1>5, <1>6, CallTypes

\* Every variable keeps the values its file, flag or process can hold.  The
\* migration journal can be advanced to "active" because there is one.
THEOREM TypeCorrect == Spec => [](TypeOK /\ TakeoverJournaled)
<1> USE HandoverAssumption, GatewayAssumption
<1>1. Init => TypeOK /\ TakeoverJournaled
  <2> SUFFICES ASSUME Init PROVE TypeOK /\ TakeoverJournaled
    OBVIOUS
  <2>1. GatewayTypeOK
    BY CallTypes DEF Init, GatewayInit, GatewayTypeOK, Units
  <2>2. handler \in [Handlers -> Request]
    BY DEF Init, Free, Request, HandlerPlaces
  <2>3. QED
    BY <2>1, <2>2 DEF Init, TypeOK, TakeoverJournaled, MainPlaces, WorkerPlaces
<1>2. ASSUME TypeOK, TakeoverJournaled, [Next]_vars
      PROVE  TypeOK' /\ TakeoverJournaled'
  <2> DEFINE Goal == TypeOK' /\ TakeoverJournaled'
  <2> USE TypeOK, TakeoverJournaled
      DEF TypeOK, TakeoverJournaled, GatewayTypeOK, MainPlaces, WorkerPlaces,
          ActivationStages, RollbackStages, ControlOps, DeploymentOps, files, http,
          worker, gatewayVars, workerFrame, At, host, Finish, Asks, WAsks, HangsUp,
          WHangsUp, WorkerGone, Clients
  <2>1. ASSUME NEW t \in Handlers, UserRequest(t) PROVE Goal
    <3>1. ASSUME NEW op \in DeploymentOps, PostDeployment(t, op) PROVE Goal
      <4>1. handler' \in [Handlers -> Request]
        BY <3>1, HandlerTypes DEF PostDeployment, HandlerPlaces
      <4>2. QED
        BY <3>1, <4>1 DEF PostDeployment
    <3>2. ASSUME NEW op \in ControlOps, PostControl(t, op) PROVE Goal
      <4>1. handler' \in [Handlers -> Request]
        BY <3>2, HandlerTypes DEF PostControl, HandlerPlaces
      <4>2. QED
        BY <3>2, <4>1 DEF PostControl
    <3>3. QED
      BY <2>1, <3>1, <3>2 DEF UserRequest
  <2>2. ASSUME NEW t \in Handlers, HandlerStep(t) PROVE Goal
    <3>1. CASE AcquireLock(t)
      BY <3>1, HandlerTypes DEF AcquireLock, HandlerPlaces
    <3>2. CASE WriteDeploymentAction(t)
      BY <3>2, HandlerTypes DEF WriteDeploymentAction
    <3>3. CASE CheckDeployment(t)
      BY <3>3, HandlerTypes DEF CheckDeployment, HandlerPlaces
    <3>4. CASE CheckLock(t)
      BY <3>4, HandlerTypes DEF CheckLock, HandlerPlaces
    <3>5. CASE CheckMigration(t)
      BY <3>5, HandlerTypes DEF CheckMigration, HandlerPlaces
    <3>6. CASE WriteAction(t)
      <4>1. handler' \in [Handlers -> Request]
        BY <3>6, HandlerTypes DEF WriteAction
      <4>2. action' \in ControlOps
        BY <3>6 DEF WriteAction
      <4>3. /\ restored' = FALSE
            /\ UNCHANGED <<migration, gatewayDeployment, deploymentAction, statusMode,
                           worker, deployLock, mainPc, config, gatewayVars>>
        BY <3>6 DEF WriteAction
      <4>4. UNCHANGED <<migration, gatewayDeployment, deploymentAction, statusMode,
                        workerPc, workerActive, observed, deployLock, mainPc, config>>
        BY <4>3
      <4>5. GatewayTypeOK' /\ restored' \in BOOLEAN
        BY <4>3
      <4>6. TypeOK'
        BY <4>1, <4>2, <4>4, <4>5
      <4>7. TakeoverJournaled'
        BY <4>4
      <4>8. QED
        BY <4>6, <4>7
    <3>7. QED
      BY <2>2, <3>1, <3>2, <3>3, <3>4, <3>5, <3>6 DEF HandlerStep
  <2>3. ASSUME NEW b \in Bindings, AppStart(b) PROVE Goal
    BY <2>3 DEF AppStart
  <2>4. CASE TakeDeploymentAction
    BY <2>4 DEF TakeDeploymentAction
  <2>5. CASE SuperviseGateway
    <3>1. lingering' \in Call
      BY <2>5, AbandonType DEF SuperviseGateway
    <3>2. remote' \in [Clients -> Call]
      BY <2>5, CallTypes DEF SuperviseGateway
    <3>3. GatewayTypeOK'
      BY <2>5, <3>1, <3>2 DEF SuperviseGateway
    <3>4. gatewayDeployment' \in Deployment
      BY <2>5 DEF SuperviseGateway, Deployment
    <3>5. QED
      BY <2>5, <3>3, <3>4 DEF SuperviseGateway
  <2>6. CASE SuperviseWorker
    BY <2>6 DEF SuperviseWorker
  <2>7. CASE InstallCheck
    BY <2>7 DEF InstallCheck
  <2>8. CASE InstallJournal
    BY <2>8, NoJournal DEF InstallJournal, Deployment
  <2>9. CASE InstallStopWorker
    <3>1. lingering' \in Call
      BY <2>9, AbandonType DEF InstallStopWorker
    <3>2. remote' \in [Clients -> Call]
      BY <2>9, CallTypes, ScriptTypes DEF InstallStopWorker
    <3>3. GatewayTypeOK'
      BY <2>9, <3>1, <3>2 DEF InstallStopWorker
    <3>4. QED
      BY <2>9, <3>3 DEF InstallStopWorker
  <2>10. CASE InstallLegacyStopped
    BY <2>10, CallTypes, ScriptTypes DEF InstallLegacyStopped
  <2>11. CASE InstallSwitched
    BY <2>11, CallTypes DEF InstallSwitched
  <2>12. CASE InstallHealthy
    BY <2>12 DEF InstallHealthy, Deployment
  <2>13. CASE UndoVerified
    BY <2>13, CallTypes DEF UndoVerified
  <2>14. CASE RestoreCheck
    BY <2>14, CallTypes, ScriptTypes DEF RestoreCheck
  <2>15. CASE RestoreDone
    BY <2>15, CallTypes DEF RestoreDone
  <2>16. CASE Cleanup
    BY <2>16 DEF Cleanup
  <2>17. CASE CleanupEnds
    BY <2>17 DEF CleanupEnds
  <2>18. CASE InstallPrepareFails
    BY <2>18 DEF InstallPrepareFails
  <2>19. CASE InstallFails
    BY <2>19, AbandonType, CallTypes, ScriptTypes DEF InstallFails
  <2>20. CASE UndoFails
    BY <2>20, AbandonType, CallTypes DEF UndoFails
  <2>21. CASE RestoreFails
    BY <2>21, AbandonType, CallTypes DEF RestoreFails
  <2>22. CASE WorkerStart
    BY <2>22 DEF WorkerStart
  <2>23. CASE WorkerPrepared
    <3>1. workerPc' \in {"startupRollback", "discover"}
      BY <2>23 DEF WorkerPrepared
    <3>2. remote' \in [Clients -> Call]
      <4>1. CASE workerPc' = "startupRollback"
        <5>1. WAsks(RestorePublisher(migration.previous))
          BY <2>23, <4>1 DEF WorkerPrepared
        <5>2. QED
          BY <5>1, CallTypes, ScriptTypes DEF WAsks
      <4>2. CASE workerPc' = "discover"
        BY <2>23, <4>2 DEF WorkerPrepared
      <4>3. QED
        BY <3>1, <4>1, <4>2
    <3>3. UNCHANGED <<workerFrame, migration, action, statusMode, workerActive,
                      observed, running, enabled, lingering>>
      BY <2>23 DEF WorkerPrepared
    <3>4. QED
      BY <3>1, <3>2, <3>3
  <2>24. CASE WorkerDiscovered
    <3>1. migration.phase \in {"none", "taking_over", "active"}
      BY DEF Migration, NoMigration
    <3>2. workerPc' \in {"loop", "recover", "resume"}
      BY <2>24, <3>1 DEF WorkerDiscovered
    <3>3. remote' \in [Clients -> Call]
      <4>1. CASE migration.phase = "none"
        BY <2>24, <4>1 DEF WorkerDiscovered
      <4>2. CASE migration.phase = "taking_over"
        <5>1. WAsks(RestorePublisher(migration.previous))
          BY <2>24, <4>2 DEF WorkerDiscovered
        <5>2. QED
          BY <5>1, CallTypes, ScriptTypes DEF WAsks
      <4>3. CASE migration.phase = "active"
        <5>1. WAsks(StopPublisher)
          BY <2>24, <4>3 DEF WorkerDiscovered
        <5>2. QED
          BY <5>1, CallTypes, ScriptTypes DEF WAsks
      <4>4. QED
        BY <3>1, <4>1, <4>2, <4>3
    <3>4. UNCHANGED <<workerFrame, migration, action, statusMode, workerActive,
                      observed, running, enabled, lingering>>
      BY <2>24 DEF WorkerDiscovered
    <3>5. QED
      BY <3>2, <3>3, <3>4
  <2>25. CASE WorkerRecovered
    BY <2>25, CallTypes DEF WorkerRecovered
  <2>26. CASE WorkerResumed
    BY <2>26, CallTypes DEF WorkerResumed
  <2>27. CASE WorkerTakesAction
    BY <2>27, CallTypes, ScriptTypes DEF WorkerTakesAction
  <2>28. CASE ActivateObserve
    BY <2>28 DEF ActivateObserve, PublisherState
  <2>29. CASE ActivateJournal
    <3>1. migration' \in Migration
      BY <2>29 DEF ActivateJournal, Migration
    <3>2. GatewayTypeOK'
      BY <2>29, CallTypes, ScriptTypes DEF ActivateJournal
    <3>3. QED
      BY <2>29, <3>1, <3>2, NoJournal DEF ActivateJournal
  <2>30. CASE ActivateDone
    BY <2>30, CallTypes, NoJournal DEF ActivateDone, Migration
  <2>31. CASE RollbackDone
    <3>1. GatewayTypeOK'
      BY <2>31, CallTypes DEF RollbackDone
    <3>2. workerPc' \in {"leaving", "clearing"}
      BY <2>31 DEF RollbackDone
    <3>3. /\ migration' = NoMigration /\ workerActive' = FALSE
          /\ UNCHANGED <<workerFrame, action, statusMode, observed>>
      BY <2>31 DEF RollbackDone
    <3>4. UNCHANGED <<gatewayDeployment, deploymentAction, deployLock, handler, mainPc,
                      config, restored, action, statusMode, observed>>
      BY <3>3
    <3>5. workerPc' \in WorkerPlaces /\ workerActive' \in BOOLEAN
      BY <3>2, <3>3
    <3>6. TypeOK'
      BY <3>1, <3>3, <3>4, <3>5
    <3>7. TakeoverJournaled'
      BY <3>2
    <3>8. QED
      BY <3>6, <3>7
  <2>32. CASE WorkerExits
    BY <2>32 DEF WorkerExits
  <2>33. CASE WorkerRetry
    BY <2>33 DEF WorkerRetry
  <2>34. CASE WorkerPoll
    BY <2>34 DEF WorkerPoll
  <2>35. CASE WorkerFails
    <3>1. lingering' \in Call
      BY <2>35, AbandonType DEF WorkerFails
    <3>2. remote' \in [Clients -> Call]
      BY <2>35, CallTypes DEF WorkerFails
    <3>3. GatewayTypeOK'
      BY <2>35, <3>1, <3>2 DEF WorkerFails
    <3>4. /\ workerPc' = "retry" /\ workerActive' = FALSE /\ observed' = {}
          /\ statusMode' = "other"
          /\ UNCHANGED <<workerFrame, migration, action>>
      BY <2>35 DEF WorkerFails
    <3>5. /\ workerPc' \in WorkerPlaces /\ workerActive' \in BOOLEAN
          /\ observed' \in SUBSET {"active", "enabled"} /\ statusMode' \in {"preview", "other"}
      BY <3>4
    <3>6. UNCHANGED <<gatewayDeployment, deploymentAction, deployLock, handler, mainPc,
                      config, restored, migration, action>>
      BY <3>4
    <3>7. TypeOK'
      BY <3>3, <3>5, <3>6
    <3>8. TakeoverJournaled'
      BY <3>4
    <3>9. QED
      BY <3>7, <3>8
  <2>36. CASE WorkerDies
    <3>1. lingering' \in Call
      BY <2>36, AbandonType DEF WorkerDies
    <3>2. remote' \in [Clients -> Call]
      BY <2>36, CallTypes DEF WorkerDies
    <3>3. GatewayTypeOK'
      BY <2>36, <3>1, <3>2 DEF WorkerDies
    <3>4. /\ workerPc' = "died" /\ workerActive' = FALSE /\ observed' = {}
          /\ UNCHANGED <<workerFrame, migration, action, statusMode>>
      BY <2>36 DEF WorkerDies
    <3>5. /\ workerPc' \in WorkerPlaces /\ workerActive' \in BOOLEAN
          /\ observed' \in SUBSET {"active", "enabled"}
      BY <3>4
    <3>6. UNCHANGED <<gatewayDeployment, deploymentAction, deployLock, handler, mainPc,
                      config, restored, migration, action, statusMode>>
      BY <3>4
    <3>7. TypeOK'
      BY <3>3, <3>5, <3>6
    <3>8. TakeoverJournaled'
      BY <3>4
    <3>9. QED
      BY <3>7, <3>8
  <2>37. CASE AppDown
    BY <2>37, AbandonType, CallTypes, HandlerTypes DEF AppDown
  <2>38. ASSUME NEW c \in Clients, RemoteStep(c), UNCHANGED appVars PROVE Goal
    BY <2>38, CallSteps DEF RemoteStep, appVars
  <2>39. ASSUME NEW c \in Clients, CommandFails(c), UNCHANGED appVars PROVE Goal
    BY <2>39, CallSteps, CallTypes DEF CommandFails, appVars
  <2>40. ASSUME LingeringStep, UNCHANGED appVars PROVE Goal
    BY <2>40, CallSteps, CallTypes DEF LingeringStep, appVars
  <2>41. ASSUME NEW h \in Hosts, Reboot(h), UNCHANGED appVars PROVE Goal
    BY <2>41, CallTypes DEF Reboot, appVars
  <2>42. CASE UNCHANGED vars
    BY <2>42 DEF vars
  <2>43. QED
    BY <1>2, <2>1, <2>2, <2>3, <2>4, <2>5, <2>6, <2>7, <2>8, <2>9, <2>10, <2>11, <2>12,
       <2>13, <2>14, <2>15, <2>16, <2>17, <2>18, <2>19, <2>20, <2>21, <2>22, <2>23, <2>24,
       <2>25, <2>26, <2>27, <2>28, <2>29, <2>30, <2>31, <2>32, <2>33, <2>34, <2>35, <2>36,
       <2>37, <2>38, <2>39, <2>40, <2>41, <2>42
    DEF Next, MainStep, MainFails, WorkerStep, GatewayStep, GatewayFails, Outage
<1>3. QED
  BY <1>1, <1>2, PTL DEF Spec

-----------------------------------------------------------------------------
(* The control invariant.                                                  *)


\* The variables the invariant is about.
controlVars == <<migration, gatewayDeployment, config, mainPc, workerPc, workerActive,
                 gatewayVars>>

LEMMA ControlFrame ==
    ASSUME CallsAsExpected, JournalsTellWhoControls, UNCHANGED controlVars
    PROVE  CallsAsExpected' /\ JournalsTellWhoControls'
BY DEF controlVars, gatewayVars, CallsAsExpected, JournalsTellWhoControls, MainCalls,
       WorkerCalls, MainHoldsJournal, WorkerOrJournal, RuntimeJournaled,
       RuntimeDisplacesLegacy, WorkerDisplacesLegacy, SameBinding, WorkerJournal,
       Silent, OnItsWay, Stopping, Stopped, StoppingLegacy, RestoringLegacy, StartingRuntime, host

\* Only one of the two clients waits for a script.
LEMMA OneCaller ==
    ASSUME CallsAsExpected, JournalsTellWhoControls
    PROVE  remote["main"] = NoCall \/ (remote["worker"] = NoCall /\ workerPc = "none")
BY DEF CallsAsExpected, MainCalls, WorkerCalls, JournalsTellWhoControls,
       MainHoldsJournal, WorkerOrJournal

\* A stopping script stays one, whether its next command succeeds: the check
\* proves that the unit is down, unless it is blind and stop was not decisive
\* either ...
LEMMA StoppingGoesOn ==
    ASSUME NEW c \in Clients, NEW u \in Units, NEW stop, NEW disable,
           stop.do = "stop", stop.unit = u, disable.do = "disable", disable.unit = u,
           Decisive(u, stop) \/ <<"verify", u>> \notin FailingCommands,
           Stopping(c, u, stop, disable), GatewayTypeOK, RemoteStep(c), config' = config
    PROVE  /\ Stopping(c, u, stop, disable)'
           /\ running' \subseteq running /\ enabled' \subseteq enabled
<1> DEFINE verify == Must("verify", u)
<1>1. HasWork(remote[c])
  BY DEF RemoteStep
<1>2. verify.do = "verify" /\ verify.unit = u
  BY DEF Must
<1>3. ASSUME NEW rest, OnItsWay(c, rest)
      PROVE  /\ rest # << >> /\ Execute(host, Head(rest))
             /\ remote'[c] = Running(host, Tail(rest))
  BY <1>3 DEF OnItsWay, RemoteStep, Running, HasWork, GatewayTypeOK
<1>4. host' = host
  BY DEF host
<1>5. CASE OnItsWay(c, << stop, disable, verify >>)
  <2>1. Tail(<< stop, disable, verify >>) = << disable, verify >>
    OBVIOUS
  <2>2. Head(<< stop, disable, verify >>) = stop
    OBVIOUS
  <2>3. Execute(host, stop) /\ remote'[c] = Running(host, << disable, verify >>)
    BY <1>3, <1>5, <2>1, <2>2
  <2>4. /\ <<host, u>> \notin running'
        /\ running' \subseteq running /\ enabled' \subseteq enabled
    BY <2>3 DEF Execute
  <2>5. QED
    BY <1>4, <2>3, <2>4 DEF Stopping, Stopped, OnItsWay
<1>6. CASE OnItsWay(c, << disable, verify >>) /\ Stopped(u, stop)
  <2>1. Head(<< disable, verify >>) = disable /\ Tail(<< disable, verify >>) = << verify >>
    OBVIOUS
  <2>2. Execute(host, disable) /\ remote'[c] = Running(host, << verify >>)
    BY <1>3, <1>6, <2>1
  <2>3. /\ <<host, u>> \notin enabled'
        /\ running' = running /\ enabled' \subseteq enabled
    BY <2>2 DEF Execute
  <2>4. Stopped(u, stop)'
    BY <1>4, <1>6, <2>3 DEF Stopped, Decisive
  <2>5. QED
    BY <1>4, <2>2, <2>3, <2>4 DEF Stopping, OnItsWay
<1>7. CASE OnItsWay(c, << verify >>) /\ Stopped(u, stop) /\ <<host, u>> \notin enabled
  <2>1. Head(<< verify >>) = verify /\ Tail(<< verify >>) = << >>
    OBVIOUS
  <2>2. Execute(host, verify) /\ remote'[c] = Running(host, << >>)
    BY <1>3, <1>7, <2>1
  <2>3. <<host, u>> \notin running /\ running' = running /\ enabled' = enabled
    BY <1>2, <1>7, <2>2 DEF Execute, Passes, Stopped
  <2>4. Silent(host, u)'
    BY <1>4, <1>7, <2>3 DEF Silent
  <2>5. QED
    BY <1>4, <2>2, <2>3, <2>4 DEF Stopping, OnItsWay
<1>8. CASE remote[c] = Failed
  BY <1>1, <1>8 DEF HasWork, Failed
<1>9. CASE OnItsWay(c, << >>)
  BY <1>3, <1>9
<1>10. QED
  BY <1>5, <1>6, <1>7, <1>8, <1>9 DEF Stopping

\* ... or fails, provided disabling the runtime does not.
LEMMA StoppingFails ==
    ASSUME NEW c \in Clients, NEW u \in Units, NEW stop \in Command, NEW disable \in Command,
           stop.do = "stop", stop.unit = u, disable.do = "disable", disable.unit = u,
           <<"disable", u>> \in FailingCommands => disable.must,
           Stopping(c, u, stop, disable), GatewayTypeOK, CommandFails(c), config' = config
    PROVE  Stopping(c, u, stop, disable)'
<1> DEFINE verify == Must("verify", u)
<1>1. HasWork(remote[c])
  BY DEF CommandFails
<1>2. verify.do = "verify" /\ verify.unit = u /\ verify.must
  BY DEF Must
<1>3. ASSUME NEW rest, OnItsWay(c, rest)
      PROVE  /\ rest # << >> /\ MayFail(host, Head(rest))
             /\ remote'[c] = IF Head(rest).must THEN Failed
                             ELSE Running(host, AfterFailure(rest))
  BY <1>3 DEF OnItsWay, CommandFails, Running, HasWork, GatewayTypeOK
<1>4. host' = host /\ UNCHANGED <<running, enabled>>
  BY DEF host, CommandFails
<1>5. CASE OnItsWay(c, << stop, disable, verify >>)
  <2>1. /\ Head(<< stop, disable, verify >>) = stop
        /\ Tail(<< stop, disable, verify >>) = << disable, verify >>
    OBVIOUS
  <2>2. AfterFailure(<< stop, disable, verify >>) = << disable, verify >>
    BY <2>1 DEF AfterFailure
  <2>3. MayFail(host, stop)
    BY <1>3, <1>5, <2>1
  <2>4. stop.must \/ ~Decisive(u, stop)
    BY <2>3 DEF MayFail, Decisive
  <2>5. \/ remote'[c] = Failed
        \/ remote'[c] = Running(host, << disable, verify >>) /\ ~Decisive(u, stop)
    BY <1>3, <1>5, <2>1, <2>2, <2>4
  <2>6. Decisive(u, stop)' <=> Decisive(u, stop)
    BY DEF Decisive
  <2>7. QED
    BY <1>4, <2>5, <2>6 DEF Stopping, Stopped, OnItsWay
<1>6. CASE OnItsWay(c, << disable, verify >>)
  <2>1. Head(<< disable, verify >>) = disable
    OBVIOUS
  <2>2. MayFail(host, disable)
    BY <1>3, <1>6, <2>1
  <2>3. disable.must
    BY <2>2 DEF MayFail
  <2>4. remote'[c] = Failed
    BY <1>3, <1>6, <2>1, <2>3
  <2>5. QED
    BY <2>4 DEF Stopping
<1>7. CASE OnItsWay(c, << verify >>)
  <2>1. Head(<< verify >>) = verify
    OBVIOUS
  <2>2. remote'[c] = Failed
    BY <1>2, <1>3, <1>7, <2>1
  <2>3. QED
    BY <2>2 DEF Stopping
<1>8. CASE remote[c] = Failed
  BY <1>1, <1>8 DEF HasWork, Failed
<1>9. CASE OnItsWay(c, << >>)
  BY <1>3, <1>9
<1>10. QED
  BY <1>5, <1>6, <1>7, <1>8, <1>9 DEF Stopping

\* The same of the script that stops the publisher, which looks for its unit
\* file first.
LEMMA StoppingLegacyGoesOn ==
    ASSUME NEW c \in Clients, StoppingLegacy(c), GatewayTypeOK, RemoteStep(c),
           config' = config
    PROVE  /\ StoppingLegacy(c)'
           /\ running' \subseteq running /\ enabled' \subseteq enabled
<1> DEFINE find == Try("find", "legacy")
           stop == Must("stop", "legacy")
           disable == Must("disable", "legacy")
           verify == Must("verify", "legacy")
<1>1. CASE OnItsWay(c, StopPublisher)
  <2>1. Head(<< find, stop, disable, verify >>) = find
    OBVIOUS
  <2>2. Tail(<< find, stop, disable, verify >>) = << stop, disable, verify >>
    OBVIOUS
  <2>3. Execute(host, find) /\ remote'[c] = Running(host, << stop, disable, verify >>)
    BY <1>1, <2>1, <2>2 DEF StopPublisher, OnItsWay, RemoteStep, Running, GatewayTypeOK
  <2>4. running' = running /\ enabled' = enabled
    BY <2>3 DEF Execute, Try
  <2>5. QED
    BY <2>3, <2>4 DEF StoppingLegacy, Stopping, OnItsWay, host
<1>2. CASE Stopping(c, "legacy", stop, disable)
  <2>1. Decisive("legacy", stop) /\ stop.do = "stop" /\ stop.unit = "legacy"
    BY DEF Decisive, Must
  <2>2. disable.do = "disable" /\ disable.unit = "legacy" /\ "legacy" \in Units
    BY DEF Must, Units
  <2>3. QED
    BY <1>2, <2>1, <2>2, StoppingGoesOn DEF StoppingLegacy
<1>3. QED
  BY <1>1, <1>2 DEF StoppingLegacy

LEMMA StoppingLegacyFails ==
    ASSUME NEW c \in Clients, StoppingLegacy(c), GatewayTypeOK, CommandFails(c),
           config' = config, <<"find", "legacy">> \notin FailingCommands
    PROVE  StoppingLegacy(c)'
<1> DEFINE find == Try("find", "legacy")
           stop == Must("stop", "legacy")
           disable == Must("disable", "legacy")
           verify == Must("verify", "legacy")
<1>1. CASE OnItsWay(c, StopPublisher)
  <2>1. Head(<< find, stop, disable, verify >>) = find
    OBVIOUS
  <2>2. MayFail(host, find)
    BY <1>1, <2>1 DEF StopPublisher, OnItsWay, CommandFails, Running
  <2>3. QED
    BY <2>2 DEF MayFail, Try
<1>2. CASE Stopping(c, "legacy", stop, disable)
  <2>1. /\ stop \in Command /\ stop.do = "stop" /\ stop.unit = "legacy"
        /\ disable \in Command /\ disable.do = "disable" /\ disable.unit = "legacy"
        /\ disable.must
    BY CommandTypes DEF Must, Units, Verbs
  <2>2. QED
    BY <1>2, <2>1, StoppingFails DEF StoppingLegacy, Units
<1>3. QED
  BY <1>1, <1>2 DEF StoppingLegacy

\* A command changes one unit of one gateway.
Elsewhere(h, u) ==
    \A g \in Hosts, v \in Units :
        <<g, v>> # <<h, u>> =>
            /\ <<g, v>> \in running' <=> <<g, v>> \in running
            /\ <<g, v>> \in enabled' <=> <<g, v>> \in enabled

LEMMA ExecuteIsLocal ==
    ASSUME NEW h, NEW cmd, Execute(h, cmd) PROVE Elsewhere(h, cmd.unit)
BY DEF Execute, Elsewhere

\* Scripts that restore the publisher or start the runtime stay within their
\* unit, and what is left of them is one of the remainders they may have.
LEMMA RestoringGoesOn ==
    ASSUME RestoringLegacy, GatewayTypeOK, config' = config,
           RemoteStep("worker") \/ CommandFails("worker")
    PROVE  RestoringLegacy' /\ Elsewhere(host, "legacy")
<1> DEFINE enable == Must("enable", "legacy")
           start == Must("start", "legacy")
           Remainders == { << enable, start >>, << enable >>, << start >>, << >> }
<1> "worker" \in Clients
  BY DEF Clients
<1>1. PICK rest \in Remainders : OnItsWay("worker", rest)
  BY DEF RestoringLegacy, RemoteStep, CommandFails, HasWork, Failed
<1>2. rest # << >>
  BY <1>1 DEF OnItsWay, RemoteStep, CommandFails, HasWork, Running
<1>3. Head(rest) \in {enable, start} /\ Tail(rest) \in Remainders
  <2>1. Head(<< enable, start >>) = enable /\ Tail(<< enable, start >>) = << start >>
    OBVIOUS
  <2>2. \A x : Head(<< x >>) = x /\ Tail(<< x >>) = << >>
    OBVIOUS
  <2>3. QED
    BY <1>1, <1>2, <2>1, <2>2
<1>4. Head(rest).unit = "legacy" /\ Head(rest).must
  BY <1>3 DEF Must
<1>5. host' = host
  BY DEF host
<1>6. CASE RemoteStep("worker")
  <2>1. Execute(host, Head(rest)) /\ remote'["worker"] = Running(host, Tail(rest))
    BY <1>1, <1>6 DEF OnItsWay, RemoteStep, Running, GatewayTypeOK
  <2>2. RestoringLegacy'
    BY <1>3, <1>5, <2>1 DEF RestoringLegacy, OnItsWay
  <2>3. QED
    BY <1>4, <2>1, <2>2, ExecuteIsLocal
<1>7. CASE CommandFails("worker")
  <2>1. remote'["worker"] = Failed
    BY <1>1, <1>4, <1>7 DEF OnItsWay, CommandFails, Running, GatewayTypeOK
  <2>2. Elsewhere(host, "legacy")
    BY <1>7 DEF CommandFails, Elsewhere
  <2>3. QED
    BY <2>1, <2>2 DEF RestoringLegacy
<1>8. QED
  BY <1>6, <1>7

LEMMA StartingGoesOn ==
    ASSUME StartingRuntime, GatewayTypeOK, config' = config,
           RemoteStep("main") \/ CommandFails("main")
    PROVE  StartingRuntime' /\ Elsewhere(host, "runtime")
<1> DEFINE stop == Try("stop", "runtime")
           enable == Must("enable", "runtime")
           start == Must("start", "runtime")
           Remainders == { << stop, enable, start >>, << enable, start >>, << start >>, << >> }
<1> "main" \in Clients
  BY DEF Clients
<1>1. PICK rest \in Remainders : OnItsWay("main", rest)
  BY DEF StartingRuntime, SwitchRuntime, RemoteStep, CommandFails, HasWork, Failed
<1>2. rest # << >>
  BY <1>1 DEF OnItsWay, RemoteStep, CommandFails, HasWork, Running
<1>3. Head(rest) \in {stop, enable, start} /\ Tail(rest) \in Remainders
  <2>1. /\ Head(<< stop, enable, start >>) = stop
        /\ Tail(<< stop, enable, start >>) = << enable, start >>
    OBVIOUS
  <2>2. Head(<< enable, start >>) = enable /\ Tail(<< enable, start >>) = << start >>
    OBVIOUS
  <2>3. Head(<< start >>) = start /\ Tail(<< start >>) = << >>
    OBVIOUS
  <2>4. QED
    BY <1>1, <1>2, <2>1, <2>2, <2>3
<1>4. Head(rest).unit = "runtime"
  BY <1>3 DEF Must, Try
<1>5. host' = host
  BY DEF host
<1>6. remote'["main"] \in {Failed, Running(host, Tail(rest))}
  <2>1. AfterFailure(rest) = Tail(rest)
    BY <1>3 DEF AfterFailure, Try, Must
  <2>2. QED
    BY <1>1, <2>1 DEF OnItsWay, RemoteStep, CommandFails, Running, GatewayTypeOK
<1>7. StartingRuntime'
  BY <1>3, <1>5, <1>6 DEF StartingRuntime, OnItsWay, SwitchRuntime
<1>8. CASE RemoteStep("main")
  <2>1. Execute(host, Head(rest))
    BY <1>1, <1>8 DEF OnItsWay, RemoteStep, Running
  <2>2. QED
    BY <1>4, <1>7, <2>1, ExecuteIsLocal
<1>9. CASE CommandFails("main")
  BY <1>7, <1>9 DEF CommandFails, Elsewhere
<1>10. QED
  BY <1>8, <1>9

\* Stopping and disabling services disturbs nothing the journals say.
LEMMA Quieter ==
    ASSUME JournalsTellWhoControls, UNCHANGED appVars,
           running' \subseteq running, enabled' \subseteq enabled
    PROVE  JournalsTellWhoControls'
BY DEF JournalsTellWhoControls, appVars, files, http, worker, host, Silent,
       MainHoldsJournal, WorkerOrJournal, RuntimeJournaled, RuntimeDisplacesLegacy,
       WorkerDisplacesLegacy, SameBinding, WorkerJournal

\* A command for which main waits, whether it succeeds or fails.
LEMMA MainCallGoesOn ==
    ASSUME TypeOK, CallsAsExpected, JournalsTellWhoControls, ReliableGateway,
           RemoteStep("main") \/ CommandFails("main"), UNCHANGED appVars
    PROVE  CallsAsExpected' /\ JournalsTellWhoControls'
<1> "main" \in Clients /\ "worker" \in Clients
  BY DEF Clients
<1> GatewayTypeOK /\ config' = config /\ config \in Bindings /\ host' = host
  BY DEF TypeOK, appVars, host
<1>1. remote["main"] # NoCall
  BY DEF RemoteStep, CommandFails, HasWork, NoCall
<1>2. mainPc \in {"stopLegacy", "switch", "undo", "restoring"} /\ workerPc = "none"
  BY <1>1, OneCaller DEF CallsAsExpected, MainCalls
<1>3. lingering' = NoCall /\ mainPc' = mainPc /\ workerPc' = workerPc
  BY DEF RemoteStep, CommandFails, CallsAsExpected, appVars, worker
<1>4. WorkerCalls'
  BY <1>1, <1>2, <1>3, OneCaller
     DEF WorkerCalls, RemoteStep, CommandFails, GatewayTypeOK
<1>5. ASSUME NEW u \in Units, NEW stop \in Command, NEW disable \in Command,
             stop.do = "stop", stop.unit = u, disable.do = "disable", disable.unit = u,
             <<"disable", u>> \in FailingCommands => disable.must,
             Decisive(u, stop) \/ <<"verify", u>> \notin FailingCommands,
             Stopping("main", u, stop, disable)
      PROVE  Stopping("main", u, stop, disable)' /\ JournalsTellWhoControls'
  <2>1. CASE RemoteStep("main")
    BY <1>5, <2>1, StoppingGoesOn, Quieter
  <2>2. CASE CommandFails("main")
    <3>1. running' = running /\ enabled' = enabled
      BY <2>2 DEF CommandFails
    <3>2. JournalsTellWhoControls'
      BY <3>1, Quieter
    <3>3. QED
      BY <1>5, <2>2, <3>2, StoppingFails
  <2>3. QED
    BY <2>1, <2>2
<1>6. CASE mainPc = "stopLegacy"
  <2>1. StoppingLegacy("main")
    BY <1>6 DEF CallsAsExpected, MainCalls
  <2>2. /\ StoppingLegacy("main")'
        /\ running' \subseteq running /\ enabled' \subseteq enabled
    BY <2>1, StoppingLegacyGoesOn, StoppingLegacyFails DEF ReliableGateway, CommandFails
  <2>3. JournalsTellWhoControls'
    BY <2>2, Quieter
  <2>4. QED
    BY <1>3, <1>4, <1>6, <2>2, <2>3 DEF CallsAsExpected, MainCalls
<1>7. CASE mainPc = "undo"
  <2> DEFINE Undoing ==
        Stopping("main", "runtime", Try("stop", "runtime"), Try("disable", "runtime"))
  <2>1. Undoing
    BY <1>7 DEF CallsAsExpected, MainCalls
  <2>2. Undoing' /\ JournalsTellWhoControls'
    BY <1>5, <2>1, CommandTypes DEF ReliableGateway, Decisive, Units, Verbs, Try
  <2>3. QED
    BY <1>3, <1>4, <1>7, <2>2 DEF CallsAsExpected, MainCalls
<1>8. CASE mainPc = "restoring"
  <2> DEFINE Restoring ==
        Stopping("main", "runtime", Must("stop", "runtime"), Must("disable", "runtime"))
  <2>1. Restoring
    BY <1>8 DEF CallsAsExpected, MainCalls
  <2>2. Restoring' /\ JournalsTellWhoControls'
    BY <1>5, <2>1, CommandTypes DEF Decisive, Units, Verbs, Must
  <2>3. QED
    BY <1>3, <1>4, <1>8, <2>2 DEF CallsAsExpected, MainCalls
<1>9. CASE mainPc = "switch"
  <2>1. StartingRuntime /\ Silent(host, "legacy")
    BY <1>9 DEF CallsAsExpected, MainCalls
  <2>2. StartingRuntime' /\ Elsewhere(host, "runtime")
    BY <2>1, StartingGoesOn
  <2>3. host \in Hosts
    BY HandoverAssumption DEF host
  <2>4. Silent(host, "legacy")'
    BY <2>1, <2>2, <2>3 DEF Elsewhere, Silent, Units
  <2>5. gatewayDeployment # NoDeployment /\ HostOf[gatewayDeployment.binding] = host
    BY <1>9 DEF JournalsTellWhoControls, MainHoldsJournal, host
  <2>6. RuntimeJournaled' /\ RuntimeDisplacesLegacy'
    BY <2>1, <2>2, <2>4, <2>5
       DEF JournalsTellWhoControls, RuntimeJournaled, RuntimeDisplacesLegacy, Silent,
           Elsewhere, Units, appVars, files
  <2>7. JournalsTellWhoControls'
    BY <1>2, <2>6
       DEF JournalsTellWhoControls, MainHoldsJournal, WorkerOrJournal,
           WorkerDisplacesLegacy, SameBinding, WorkerJournal, appVars, files, worker, host
  <2>8. QED
    BY <1>3, <1>4, <1>9, <2>2, <2>4, <2>7 DEF CallsAsExpected, MainCalls
<1>10. QED
  BY <1>2, <1>6, <1>7, <1>8, <1>9

\* A command for which the worker waits.
LEMMA WorkerCallGoesOn ==
    ASSUME TypeOK, CallsAsExpected, JournalsTellWhoControls, ReliableGateway,
           RemoteStep("worker") \/ CommandFails("worker"), UNCHANGED appVars
    PROVE  CallsAsExpected' /\ JournalsTellWhoControls'
<1> "main" \in Clients /\ "worker" \in Clients
  BY DEF Clients
<1> GatewayTypeOK /\ config' = config /\ host' = host
  BY DEF TypeOK, appVars, host
<1>1. remote["worker"] # NoCall
  BY DEF RemoteStep, CommandFails, HasWork, NoCall
<1>2. /\ remote["main"] = NoCall
      /\ workerPc \in {"takeover", "resume", "recover", "rollback", "startupRollback"}
  BY <1>1, OneCaller DEF CallsAsExpected, WorkerCalls
<1>3. lingering' = NoCall /\ mainPc' = mainPc /\ workerPc' = workerPc
  BY DEF RemoteStep, CommandFails, CallsAsExpected, appVars, worker
<1>4. mainPc \notin {"stopLegacy", "switch", "undo", "restoring"}
  BY <1>2 DEF JournalsTellWhoControls, MainHoldsJournal, WorkerOrJournal
<1>5. MainCalls'
  BY <1>2, <1>3, <1>4 DEF MainCalls, RemoteStep, CommandFails, GatewayTypeOK
<1>6. CASE workerPc \in {"takeover", "resume"}
  <2>1. StoppingLegacy("worker")
    BY <1>6 DEF CallsAsExpected, WorkerCalls
  <2>2. CASE RemoteStep("worker")
    <3>1. StoppingLegacy("worker")' /\ JournalsTellWhoControls'
      BY <2>1, <2>2, StoppingLegacyGoesOn, Quieter
    <3>2. QED
      BY <1>3, <1>5, <1>6, <3>1 DEF CallsAsExpected, WorkerCalls
  <2>3. CASE CommandFails("worker")
    <3>1. running' = running /\ enabled' = enabled
      BY <2>3 DEF CommandFails
    <3>2. StoppingLegacy("worker")'
      BY <2>1, <2>3, StoppingLegacyFails DEF ReliableGateway
    <3>3. QED
      BY <1>3, <1>5, <1>6, <3>1, <3>2, Quieter DEF CallsAsExpected, WorkerCalls
  <2>4. QED
    BY <2>2, <2>3
<1>7. CASE workerPc \in {"recover", "rollback", "startupRollback"}
  <2>1. RestoringLegacy
    BY <1>7 DEF CallsAsExpected, WorkerCalls
  <2>2. RestoringLegacy' /\ Elsewhere(host, "legacy")
    BY <2>1, RestoringGoesOn
  <2>3. Silent(host, "runtime")
    BY <1>7 DEF JournalsTellWhoControls, WorkerOrJournal
  <2>4. host \in Hosts
    BY HandoverAssumption DEF host, TypeOK
  <2>5. RuntimeJournaled' /\ RuntimeDisplacesLegacy' /\ Silent(host, "runtime")'
    BY <2>2, <2>3, <2>4
       DEF JournalsTellWhoControls, RuntimeJournaled, RuntimeDisplacesLegacy, Silent,
           Elsewhere, Units, appVars, files
  <2>6. JournalsTellWhoControls'
    BY <1>7, <2>5
       DEF JournalsTellWhoControls, MainHoldsJournal, WorkerOrJournal,
           WorkerDisplacesLegacy, SameBinding, WorkerJournal, appVars, files, worker, host
  <2>7. QED
    BY <1>3, <1>5, <1>7, <2>2, <2>6 DEF CallsAsExpected, WorkerCalls
<1>8. QED
  BY <1>2, <1>6, <1>7

\* A restarted gateway runs what it would start, and has dropped every call.
LEMMA RebootKeeps ==
    ASSUME TypeOK, CallsAsExpected, JournalsTellWhoControls,
           NEW h \in Hosts, Reboot(h), UNCHANGED appVars
    PROVE  CallsAsExpected' /\ JournalsTellWhoControls'
<1> host' = host /\ config' = config /\ host \in Hosts
  BY HandoverAssumption DEF appVars, host, TypeOK
<1>1. \A g \in Hosts, u \in Units :
        /\ <<g, u>> \in enabled' <=> <<g, u>> \in enabled
        /\ <<g, u>> \in running' <=>
             IF g = h THEN <<g, u>> \in enabled ELSE <<g, u>> \in running
  BY DEF Reboot
<1>2. \A g \in Hosts, u \in Units : Silent(g, u) => Silent(g, u)'
  BY <1>1 DEF Silent
<1>3. JournalsTellWhoControls'
  BY <1>2 DEF JournalsTellWhoControls, appVars, files, worker, Units, host,
              MainHoldsJournal, WorkerOrJournal, RuntimeJournaled, RuntimeDisplacesLegacy,
              WorkerDisplacesLegacy, SameBinding, WorkerJournal
<1>4. lingering' = NoCall
  BY DEF CallsAsExpected, Reboot, NoCall
<1>5. \A c \in Clients :
        remote'[c] = remote[c] \/ (remote'[c] = Failed /\ remote[c] # NoCall)
  <2>1. ASSUME NEW c \in Clients
        PROVE  remote'[c] = remote[c] \/ (remote'[c] = Failed /\ remote[c].status = "running")
    BY DEF Reboot
  <2>2. NoCall.status = "none"
    BY DEF NoCall
  <2>3. QED
    BY <2>1, <2>2
<1>6. ASSUME NEW c \in Clients, NEW u \in Units, NEW stop, NEW disable,
             Stopping(c, u, stop, disable)
      PROVE  Stopping(c, u, stop, disable)'
  <2>1. ASSUME NEW rest, OnItsWay(c, rest), remote'[c] # Failed PROVE h # host
    BY <2>1 DEF OnItsWay, Reboot, Running
  <2>2. CASE h # host
    <3>1. /\ <<host, u>> \in enabled' <=> <<host, u>> \in enabled
          /\ <<host, u>> \in running' <=> <<host, u>> \in running
      BY <1>1, <2>2
    <3>2. QED
      BY <1>5, <1>6, <3>1 DEF Stopping, Stopped, Decisive, Silent, OnItsWay
  <2>3. CASE h = host
    BY <1>5, <1>6, <2>1, <2>3 DEF Stopping
  <2>4. QED
    BY <2>2, <2>3
<1>7. StoppingLegacy("main") => StoppingLegacy("main")'
  BY <1>5, <1>6 DEF StoppingLegacy, OnItsWay, Stopping, Clients, Units
<1>8. StoppingLegacy("worker") => StoppingLegacy("worker")'
  BY <1>5, <1>6 DEF StoppingLegacy, OnItsWay, Stopping, Clients, Units
<1>9. \A stop, disable : Stopping("main", "runtime", stop, disable)
                           => Stopping("main", "runtime", stop, disable)'
  BY <1>6 DEF Clients, Units
<1>10. StartingRuntime => StartingRuntime'
  BY <1>5 DEF StartingRuntime, OnItsWay, Clients
<1>11. RestoringLegacy => RestoringLegacy'
  BY <1>5 DEF RestoringLegacy, OnItsWay, Clients
<1>12. Silent(host, "legacy") => Silent(host, "legacy")'
  BY <1>2 DEF Units
<1>13. mainPc' = mainPc /\ workerPc' = workerPc
  BY DEF appVars, worker
<1>14. \A c \in Clients : remote[c] = NoCall => remote'[c] = NoCall
  BY <1>5
<1>15. MainCalls'
  BY <1>7, <1>9, <1>10, <1>12, <1>13, <1>14 DEF CallsAsExpected, MainCalls, Clients
<1>16. WorkerCalls'
  BY <1>8, <1>11, <1>13, <1>14 DEF CallsAsExpected, WorkerCalls, Clients
<1>17. QED
  BY <1>3, <1>4, <1>15, <1>16 DEF CallsAsExpected

\* Without a lingering script none begins to linger, and none takes a step.
LEMMA NothingLingers ==
    ASSUME ReliableGateway, CallsAsExpected
    PROVE  /\ \A c \in Clients : Abandon(c) => lingering' = NoCall
           /\ ~LingeringStep
BY DEF ReliableGateway, CallsAsExpected, Abandon, LingeringStep, HasWork, NoCall

\* What a reply tells, and what was asked for at first.
LEMMA StoppedWhenReplied ==
    ASSUME NEW c, NEW u, NEW stop, NEW disable, Stopping(c, u, stop, disable), Replied(c)
    PROVE  Silent(host, u)
BY DEF Stopping, OnItsWay, Replied, Running, Failed

LEMMA LegacyStoppedWhenReplied ==
    ASSUME NEW c, StoppingLegacy(c), Replied(c) PROVE Silent(host, "legacy")
<1>1. ~OnItsWay(c, StopPublisher)
  <2>1. StopPublisher # << >>
    BY DEF StopPublisher
  <2>2. QED
    BY <2>1 DEF OnItsWay, Replied, Running
<1>2. QED
  BY <1>1, StoppedWhenReplied DEF StoppingLegacy

LEMMA FirstRemainders ==
    ASSUME NEW c
    PROVE  /\ remote'[c] = Running(host', StopPublisher) => StoppingLegacy(c)'
           /\ remote'[c] = Running(host', UndoRuntime) =>
                Stopping(c, "runtime", Try("stop", "runtime"), Try("disable", "runtime"))'
           /\ remote'[c] = Running(host', StopRuntime) =>
                Stopping(c, "runtime", Must("stop", "runtime"), Must("disable", "runtime"))'
           /\ remote'["main"] = Running(host', SwitchRuntime) => StartingRuntime'
           /\ \A previous : remote'["worker"] = Running(host', RestorePublisher(previous))
                => RestoringLegacy'
<1>1. ASSUME NEW previous, remote'["worker"] = Running(host', RestorePublisher(previous))
      PROVE  RestoringLegacy'
  <2>1. RestorePublisher(previous) \in
          { << Must("enable", "legacy"), Must("start", "legacy") >>,
            << Must("enable", "legacy") >>, << Must("start", "legacy") >>, << >> }
    BY DEF RestorePublisher
  <2>2. QED
    BY <1>1, <2>1 DEF RestoringLegacy, OnItsWay
<1>2. QED
  BY <1>1 DEF StoppingLegacy, Stopping, Stopped, OnItsWay, StopPublisher, UndoRuntime, StopRuntime,
              StartingRuntime, SwitchRuntime

\* Main between two places at which it neither waits nor holds the journal.
Engaged == {"stopWorker", "stopLegacy", "switch", "health", "undo", "restoring"}

LEMMA QuietMove ==
    ASSUME CallsAsExpected, JournalsTellWhoControls,
           mainPc \notin Engaged, mainPc' \notin Engaged, mainPc' # "down",
           mainPc' = "prepare" => migration # NoMigration /\ migration.binding = config,
           UNCHANGED <<migration, gatewayDeployment, config, worker, gatewayVars>>
    PROVE  CallsAsExpected' /\ JournalsTellWhoControls'
<1> USE DEF Engaged, worker, gatewayVars, host, Silent
<1>1. MainCalls' /\ WorkerCalls' /\ lingering' = NoCall
  BY DEF CallsAsExpected, MainCalls, WorkerCalls, StoppingLegacy, Stopping, Stopped, OnItsWay,
         RestoringLegacy
<1>2. JournalsTellWhoControls'
  BY DEF JournalsTellWhoControls, MainHoldsJournal, WorkerOrJournal, RuntimeJournaled,
         RuntimeDisplacesLegacy, WorkerDisplacesLegacy, SameBinding, WorkerJournal
<1>3. QED
  BY <1>1, <1>2 DEF CallsAsExpected

\* Main while the worker is gone: its call and its place may change, the
\* journal may be written for the options in force, or dropped once the
\* runtime of their gateway is silent.
LEMMA WorkerlessMove ==
    ASSUME TypeOK, JournalsTellWhoControls, workerPc' = "none", workerActive' = FALSE,
           mainPc' # "prepare",
           mainPc' \in Engaged =>
              gatewayDeployment' # NoDeployment /\ gatewayDeployment'.binding = config,
           \/ gatewayDeployment' = gatewayDeployment
           \/ /\ gatewayDeployment # NoDeployment /\ gatewayDeployment' # NoDeployment
              /\ gatewayDeployment'.binding = gatewayDeployment.binding
           \/ /\ gatewayDeployment # NoDeployment /\ gatewayDeployment' = NoDeployment
              /\ Silent(HostOf[gatewayDeployment.binding], "runtime"),
           UNCHANGED <<migration, config, running, enabled>>
    PROVE  JournalsTellWhoControls'
<1> USE DEF Silent, host, Engaged
<1>1. MainHoldsJournal' /\ WorkerOrJournal'
  BY DEF MainHoldsJournal, WorkerOrJournal
<1>2. RuntimeJournaled' /\ RuntimeDisplacesLegacy'
  BY DEF JournalsTellWhoControls, RuntimeJournaled, RuntimeDisplacesLegacy
<1>3. WorkerDisplacesLegacy' /\ SameBinding' /\ WorkerJournal'
  BY DEF JournalsTellWhoControls, WorkerDisplacesLegacy, SameBinding, WorkerJournal
<1>4. QED
  BY <1>1, <1>2, <1>3 DEF JournalsTellWhoControls

LEMMA MainKeeps ==
    ASSUME TypeOK, CallsAsExpected, JournalsTellWhoControls, ReliableGateway,
           MainStep \/ MainFails
    PROVE  CallsAsExpected' /\ JournalsTellWhoControls'
<1> USE DEF files, http, worker, gatewayVars, Finish, Engaged
<1> DEFINE Goal == CallsAsExpected' /\ JournalsTellWhoControls'
<1>0. "main" \in Clients /\ "worker" \in Clients /\ remote \in [Clients -> Call]
  BY DEF Clients, TypeOK, GatewayTypeOK
<1>1. CASE TakeDeploymentAction
  BY <1>1, QuietMove DEF TakeDeploymentAction, TypeOK, DeploymentOps
<1>2. CASE SuperviseGateway
  <2>1. JournalsTellWhoControls'
    BY <1>2, WorkerlessMove, NoJournal DEF SuperviseGateway, WorkerGone, TypeOK, Deployment
  <2>2. lingering' = NoCall
    BY <1>0, <1>2, NothingLingers DEF SuperviseGateway, WorkerGone
  <2>3. MainCalls' /\ WorkerCalls'
    BY <1>0, <1>2 DEF SuperviseGateway, WorkerGone, CallsAsExpected, MainCalls, WorkerCalls
  <2>4. QED
    BY <2>1, <2>2, <2>3 DEF CallsAsExpected
<1>3. CASE SuperviseWorker
  <2>1. workerPc' = workerPc \/ (workerPc \in {"exited", "none", "died"} /\ workerPc' \in {"none", "start"})
    BY <1>3 DEF SuperviseWorker
  <2>2. /\ mainPc = "supervise" /\ mainPc' \in {"loop", "blocked"}
        /\ gatewayDeployment = NoDeployment
        /\ UNCHANGED <<migration, gatewayDeployment, config, workerActive, gatewayVars>>
    BY <1>3 DEF SuperviseWorker
  <2>3. host' = host /\ host \in Hosts
    BY <2>2, HandoverAssumption DEF host, TypeOK
  <2>4. MainCalls' /\ WorkerCalls' /\ lingering' = NoCall
    BY <2>1, <2>2, <2>3 DEF CallsAsExpected, MainCalls, WorkerCalls, StoppingLegacy, Stopping, Stopped,
                           OnItsWay, RestoringLegacy, Silent
  <2>5. Silent(host, "runtime")'
    BY <2>2, <2>3 DEF JournalsTellWhoControls, RuntimeJournaled, Silent
  <2>6. MainHoldsJournal' /\ WorkerOrJournal' /\ SameBinding'
    BY <2>2, <2>5 DEF JournalsTellWhoControls, MainHoldsJournal, WorkerOrJournal, SameBinding
  <2>7. RuntimeJournaled' /\ RuntimeDisplacesLegacy'
    BY <2>2 DEF JournalsTellWhoControls, RuntimeJournaled, RuntimeDisplacesLegacy, Silent
  <2>8. WorkerDisplacesLegacy' /\ WorkerJournal'
    BY <2>1, <2>2, <2>3
       DEF JournalsTellWhoControls, WorkerDisplacesLegacy, WorkerJournal, Silent
  <2>9. QED
    BY <2>4, <2>6, <2>7, <2>8 DEF CallsAsExpected, JournalsTellWhoControls
<1>4. CASE InstallCheck
  BY <1>4, QuietMove DEF InstallCheck, NoMigration
<1>5. CASE InstallJournal
  <2> DEFINE journal == [phase |-> "switching", binding |-> config]
  <2>1. /\ mainPc = "prepare" /\ mainPc' = "stopWorker" /\ gatewayDeployment' = journal
        /\ UNCHANGED <<migration, config, workerPc, workerActive, gatewayVars>>
    BY <1>5 DEF InstallJournal
  <2>2. journal # NoDeployment /\ journal.binding = config
    BY DEF NoDeployment
  <2> HIDE DEF journal
  <2>3. MainCalls' /\ WorkerCalls' /\ lingering' = NoCall
    BY <2>1 DEF CallsAsExpected, MainCalls, WorkerCalls, StoppingLegacy, Stopping, Stopped,
                OnItsWay, RestoringLegacy, Silent, host
  <2>4. MainHoldsJournal' /\ WorkerOrJournal' /\ SameBinding'
    BY <2>1, <2>2 DEF JournalsTellWhoControls, MainHoldsJournal, WorkerOrJournal, SameBinding,
                      Silent, host
  <2>5. RuntimeJournaled' /\ RuntimeDisplacesLegacy'
    BY <2>1, <2>2 DEF JournalsTellWhoControls, RuntimeJournaled, RuntimeDisplacesLegacy,
                      SameBinding, Silent
  <2>6. WorkerDisplacesLegacy' /\ WorkerJournal'
    BY <2>1 DEF JournalsTellWhoControls, WorkerDisplacesLegacy, WorkerJournal, Silent, host
  <2>7. QED
    BY <2>3, <2>4, <2>5, <2>6 DEF CallsAsExpected, JournalsTellWhoControls
<1>6. CASE InstallStopWorker
  <2>1. JournalsTellWhoControls'
    BY <1>6, WorkerlessMove
       DEF InstallStopWorker, WorkerGone, JournalsTellWhoControls, MainHoldsJournal
  <2>2. lingering' = NoCall
    BY <1>0, <1>6, NothingLingers DEF InstallStopWorker, WorkerGone
  <2>3. remote' = [worker |-> NoCall, main |-> Running(host', StopPublisher)]
    BY <1>6 DEF InstallStopWorker, host
  <2>4. StoppingLegacy("main")'
    BY <2>3, FirstRemainders
  <2>5. MainCalls' /\ WorkerCalls'
    BY <1>6, <2>3, <2>4 DEF InstallStopWorker, WorkerGone, MainCalls, WorkerCalls
  <2>6. QED
    BY <2>1, <2>2, <2>5 DEF CallsAsExpected
<1>7. ASSUME mainPc \in {"stopLegacy", "switch", "health", "undo", "restoring"}
      PROVE  /\ workerPc = "none" /\ workerActive = FALSE /\ remote["worker"] = NoCall
             /\ gatewayDeployment # NoDeployment /\ gatewayDeployment.binding = config
  BY <1>7 DEF JournalsTellWhoControls, MainHoldsJournal, WorkerOrJournal,
              WorkerDisplacesLegacy, CallsAsExpected, WorkerCalls, TypeOK
<1>8. CASE InstallLegacyStopped
  <2>1. /\ mainPc = "stopLegacy" /\ mainPc' = "switch"
        /\ UNCHANGED <<migration, gatewayDeployment, config, workerPc, workerActive,
                       running, enabled, lingering>>
        /\ remote' = [remote EXCEPT !["main"] = Running(host, SwitchRuntime)]
        /\ Replied("main")
    BY <1>8 DEF InstallLegacyStopped, Asks
  <2>2. host' = host /\ JournalsTellWhoControls'
    BY <1>7, <2>1, WorkerlessMove DEF host
  <2>3. Silent(host, "legacy")'
    BY <2>1, <2>2, LegacyStoppedWhenReplied DEF CallsAsExpected, MainCalls, Silent
  <2>4. StartingRuntime'
    BY <1>0, <2>1, <2>2, FirstRemainders
  <2>5. MainCalls' /\ WorkerCalls'
    BY <1>0, <1>7, <2>1, <2>3, <2>4 DEF MainCalls, WorkerCalls
  <2>6. QED
    BY <2>1, <2>2, <2>5 DEF CallsAsExpected
\* A call that ends, whatever becomes of it, with main going to a place at
\* which it waits for none.
<1>9. ASSUME mainPc \in {"stopLegacy", "switch", "health", "undo", "restoring"},
             mainPc' \in {"health", "supervise"}, workerPc' = workerPc, lingering' = NoCall,
             remote' = [remote EXCEPT !["main"] = NoCall]
      PROVE  CallsAsExpected'
  BY <1>0, <1>7, <1>9 DEF CallsAsExpected, MainCalls, WorkerCalls
<1>10. CASE InstallSwitched
  <2>1. CallsAsExpected'
    BY <1>9, <1>10 DEF InstallSwitched, HangsUp, CallsAsExpected
  <2>2. JournalsTellWhoControls'
    BY <1>7, <1>10, WorkerlessMove DEF InstallSwitched
  <2>3. QED
    BY <2>1, <2>2
<1>11. CASE InstallHealthy
  <2>1. /\ mainPc = "health" /\ mainPc' = "supervise"
        /\ gatewayDeployment' = [phase |-> "active", binding |-> config]
        /\ UNCHANGED <<migration, config, workerPc, workerActive, gatewayVars>>
    BY <1>11 DEF InstallHealthy
  <2>2. gatewayDeployment' # NoDeployment /\ gatewayDeployment'.binding = config
    BY <2>1 DEF NoDeployment
  <2>3. JournalsTellWhoControls'
    BY <1>7, <2>1, <2>2, WorkerlessMove
  <2>4. CallsAsExpected'
    BY <1>7, <2>1 DEF CallsAsExpected, MainCalls, WorkerCalls
  <2>5. QED
    BY <2>3, <2>4
<1>12. CASE InstallFails
  <2>1. /\ mainPc \in {"stopLegacy", "switch", "health"} /\ mainPc' = "undo"
        /\ UNCHANGED <<migration, gatewayDeployment, config, workerPc, workerActive,
                       running, enabled>>
        /\ remote' = [remote EXCEPT !["main"] = Running(host, UndoRuntime)]
        /\ Abandon("main")
    BY <1>12 DEF InstallFails, Asks
  <2>2. host' = host /\ JournalsTellWhoControls'
    BY <1>7, <2>1, WorkerlessMove DEF host
  <2>3. Stopping("main", "runtime", Try("stop", "runtime"), Try("disable", "runtime"))'
    BY <1>0, <2>1, <2>2, FirstRemainders
  <2>4. MainCalls' /\ WorkerCalls'
    BY <1>0, <1>7, <2>1, <2>3 DEF MainCalls, WorkerCalls
  <2>5. QED
    BY <1>0, <2>1, <2>2, <2>4, NothingLingers DEF CallsAsExpected
<1>13. CASE UndoVerified
  <2>1. Silent(host, "runtime")
    BY <1>13, StoppedWhenReplied DEF UndoVerified, CallsAsExpected, MainCalls
  <2>2. JournalsTellWhoControls'
    BY <1>7, <1>13, <2>1, WorkerlessMove DEF UndoVerified, host
  <2>3. QED
    BY <1>9, <1>13, <2>2 DEF UndoVerified, HangsUp, CallsAsExpected
<1>14. CASE UndoFails
  <2>1. JournalsTellWhoControls'
    BY <1>7, <1>14, WorkerlessMove DEF UndoFails
  <2>2. QED
    BY <1>0, <1>9, <1>14, <2>1, NothingLingers DEF UndoFails, HangsUp
<1>15. CASE RestoreCheck
  <2>1. CASE mainPc' = "supervise"
    BY <1>15, <2>1, QuietMove DEF RestoreCheck
  <2>2. CASE mainPc' # "supervise"
    <3>1. /\ mainPc = "restore" /\ mainPc' = "restoring"
          /\ gatewayDeployment # NoDeployment /\ gatewayDeployment.binding = config
          /\ UNCHANGED <<migration, gatewayDeployment, config, workerPc, workerActive,
                         running, enabled, lingering>>
          /\ remote' = [remote EXCEPT !["main"] = Running(host, StopRuntime)]
      BY <1>15, <2>2 DEF RestoreCheck, Asks
    <3>2. workerPc = "none" /\ workerActive = FALSE /\ remote["worker"] = NoCall
      BY <3>1 DEF JournalsTellWhoControls, WorkerOrJournal, WorkerDisplacesLegacy,
                  CallsAsExpected, WorkerCalls, TypeOK
    <3>3. host' = host /\ JournalsTellWhoControls'
      BY <3>1, <3>2, WorkerlessMove DEF host
    <3>4. Stopping("main", "runtime", Must("stop", "runtime"), Must("disable", "runtime"))'
      BY <1>0, <3>1, <3>3, FirstRemainders
    <3>5. MainCalls' /\ WorkerCalls'
      BY <1>0, <3>1, <3>2, <3>4 DEF MainCalls, WorkerCalls
    <3>6. QED
      BY <3>1, <3>3, <3>5 DEF CallsAsExpected
  <2>3. QED
    BY <2>1, <2>2
<1>16. CASE RestoreDone
  <2>1. Silent(host, "runtime")
    BY <1>16, StoppedWhenReplied DEF RestoreDone, CallsAsExpected, MainCalls
  <2>2. JournalsTellWhoControls'
    BY <1>7, <1>16, <2>1, WorkerlessMove DEF RestoreDone, host
  <2>3. QED
    BY <1>9, <1>16, <2>2 DEF RestoreDone, HangsUp, CallsAsExpected
<1>17. CASE RestoreFails
  <2>1. JournalsTellWhoControls'
    BY <1>7, <1>17, WorkerlessMove DEF RestoreFails
  <2>2. QED
    BY <1>0, <1>9, <1>17, <2>1, NothingLingers DEF RestoreFails, HangsUp
<1>18. CASE Cleanup
  BY <1>18, QuietMove DEF Cleanup
<1>19. CASE CleanupEnds \/ InstallPrepareFails
  BY <1>19, QuietMove DEF CleanupEnds, InstallPrepareFails
<1>20. QED
  BY <1>1, <1>2, <1>3, <1>4, <1>5, <1>6, <1>8, <1>10, <1>11, <1>12, <1>13, <1>14, <1>15,
     <1>16, <1>17, <1>18, <1>19 DEF MainStep, MainFails

\* A step of the worker: what it must show beside what it leaves alone.
LEMMA WorkerMove ==
    ASSUME TypeOK, CallsAsExpected, JournalsTellWhoControls,
           workerPc # "none", workerPc' # "none", lingering' = NoCall,
           remote'["main"] = remote["main"], WorkerCalls', WorkerDisplacesLegacy',
           WorkerJournal',
           \/ migration' = migration \/ migration' = NoMigration
           \/ migration'.binding = config,
           UNCHANGED <<gatewayDeployment, mainPc, config, running, enabled>>
    PROVE  CallsAsExpected' /\ JournalsTellWhoControls'
<1> USE DEF host, Silent
<1>1. /\ mainPc \notin {"stopLegacy", "switch", "undo", "restoring"}
      /\ gatewayDeployment # NoDeployment => gatewayDeployment.binding = config
  BY DEF JournalsTellWhoControls, MainHoldsJournal, WorkerOrJournal
<1>2. MainCalls'
  BY <1>1 DEF CallsAsExpected, MainCalls
<1>3. MainHoldsJournal' /\ WorkerOrJournal'
  BY DEF JournalsTellWhoControls, MainHoldsJournal, WorkerOrJournal
<1>4. RuntimeJournaled' /\ RuntimeDisplacesLegacy'
  BY DEF JournalsTellWhoControls, RuntimeJournaled, RuntimeDisplacesLegacy
<1>5. SameBinding'
  BY <1>1 DEF JournalsTellWhoControls, SameBinding
<1>6. QED
  BY <1>2, <1>3, <1>4, <1>5 DEF CallsAsExpected, JournalsTellWhoControls

LEMMA WorkerKeeps ==
    ASSUME TypeOK, TakeoverJournaled, CallsAsExpected, JournalsTellWhoControls,
           ReliableGateway, WorkerStep \/ WorkerPoll \/ WorkerFails \/ WorkerDies
    PROVE  CallsAsExpected' /\ JournalsTellWhoControls'
<1> USE DEF workerFrame, http, gatewayVars, WHangsUp, WAsks
<1> DEFINE Asking == {"takeover", "resume", "recover", "rollback", "startupRollback"}
           Early == {"none", "exited", "died", "retry", "start"}
<1>0. /\ "main" \in Clients /\ "worker" \in Clients /\ remote \in [Clients -> Call]
      /\ lingering = NoCall
      /\ workerActive => workerPc \in {"loop", "rollback"}
      /\ workerPc \notin Asking => remote["worker"] = NoCall
  BY DEF Clients, TypeOK, GatewayTypeOK, CallsAsExpected, WorkerCalls,
         JournalsTellWhoControls, WorkerDisplacesLegacy
\* Places at which the worker is inactive and waits for nobody.
<1>1. ASSUME workerPc # "none", ~workerActive', lingering' = NoCall,
             workerPc' \notin Asking \cup {"none"},
             (remote' = remote /\ workerPc \notin Asking) \/ remote' = [remote EXCEPT !["worker"] = NoCall],
             migration' \in {migration, NoMigration},
             \/ workerPc \notin Early \/ workerPc' \in Early
             \/ migration # NoMigration => migration.binding = config,
             UNCHANGED <<gatewayDeployment, mainPc, config, running, enabled>>
      PROVE  CallsAsExpected' /\ JournalsTellWhoControls'
  <2>1. WorkerCalls'
    BY <1>0, <1>1 DEF WorkerCalls
  <2>2. WorkerJournal' /\ WorkerDisplacesLegacy'
    BY <1>1 DEF JournalsTellWhoControls, WorkerJournal, WorkerDisplacesLegacy
  <2>3. QED
    BY <1>0, <1>1, <2>1, <2>2, WorkerMove
\* Places at which an inactive worker has just asked for something.
<1>2. ASSUME NEW script,
             workerPc \in {"prepare", "discover"}, workerPc' \in {"resume", "recover", "startupRollback"},
             remote' = [remote EXCEPT !["worker"] = Running(host, script)],
             workerPc' = "resume" => script = StopPublisher /\ migration.phase = "active",
             workerPc' # "resume" => script = RestorePublisher(migration.previous),
             UNCHANGED <<migration, workerActive, gatewayDeployment, mainPc, config, running,
                         enabled, lingering>>
      PROVE  CallsAsExpected' /\ JournalsTellWhoControls'
  <2>1. remote'["worker"] = Running(host', script) /\ remote'["main"] = remote["main"]
    BY <1>0, <1>2 DEF host
  <2>2. WorkerCalls'
    BY <1>2, <2>1, FirstRemainders DEF WorkerCalls
  <2>3. WorkerJournal' /\ WorkerDisplacesLegacy'
    BY <1>0, <1>2 DEF JournalsTellWhoControls, WorkerJournal, WorkerDisplacesLegacy
  <2>4. QED
    BY <1>0, <1>2, <2>1, <2>2, <2>3, WorkerMove
<1>3. CASE WorkerStart
  BY <1>0, <1>1, <1>3 DEF WorkerStart
<1>4. CASE WorkerPrepared
  <2>1. CASE workerPc' = "discover"
    BY <1>0, <1>1, <1>4, <2>1 DEF WorkerPrepared
  <2>2. CASE workerPc' # "discover"
    BY <1>2, <1>4, <2>2 DEF WorkerPrepared
  <2>3. QED
    BY <2>1, <2>2
<1>5. CASE WorkerDiscovered
  <2>1. migration.phase \in {"none", "taking_over", "active"}
    BY DEF TypeOK, Migration, NoMigration
  <2>2. CASE migration.phase = "none"
    BY <1>0, <1>1, <1>5, <2>2 DEF WorkerDiscovered
  <2>3. CASE migration.phase = "taking_over"
    BY <1>2, <1>5, <2>3 DEF WorkerDiscovered
  <2>4. CASE migration.phase = "active"
    BY <1>2, <1>5, <2>4 DEF WorkerDiscovered
  <2>5. QED
    BY <2>1, <2>2, <2>3, <2>4
<1>6. CASE WorkerRecovered
  BY <1>0, <1>1, <1>6 DEF WorkerRecovered
\* The legacy publisher is known to be stopped: the worker may take control.
<1>7. ASSUME workerPc \in {"takeover", "resume"}, Replied("worker"),
             workerPc' = "loop", workerActive' = TRUE,
             remote' = [remote EXCEPT !["worker"] = NoCall],
             migration'.phase = "active", migration'.binding = config,
             UNCHANGED <<gatewayDeployment, mainPc, config, running, enabled, lingering>>
      PROVE  CallsAsExpected' /\ JournalsTellWhoControls'
  <2>1. Silent(host, "legacy")
    BY <1>7, LegacyStoppedWhenReplied DEF CallsAsExpected, WorkerCalls
  <2>2. WorkerDisplacesLegacy' /\ WorkerJournal' /\ WorkerCalls'
    BY <1>0, <1>7, <2>1
       DEF WorkerDisplacesLegacy, WorkerJournal, WorkerCalls, Silent, host
  <2>3. QED
    BY <1>0, <1>7, <2>2, WorkerMove
<1>8. CASE WorkerResumed
  <2>1. migration.phase = "active" /\ migration # NoMigration
    BY <1>8 DEF WorkerResumed, JournalsTellWhoControls, WorkerJournal, NoMigration
  <2>2. migration.binding = config
    BY <1>8, <2>1 DEF WorkerResumed, JournalsTellWhoControls, WorkerJournal
  <2>3. QED
    BY <1>7, <1>8, <2>1, <2>2 DEF WorkerResumed
<1>9. CASE ActivateDone
  <2>1. migration \in Migration /\ migration.binding = config
    BY <1>9 DEF ActivateDone, TakeoverJournaled, TypeOK, JournalsTellWhoControls, WorkerJournal
  <2>2. migration' = [migration EXCEPT !.phase = "active"]
    BY <1>9 DEF ActivateDone
  <2>3. migration'.phase = "active" /\ migration'.binding = config
    BY <2>1, <2>2 DEF Migration
  <2>4. QED
    BY <1>7, <1>9, <2>3 DEF ActivateDone
<1>10. CASE WorkerTakesAction
  <2>1. workerPc = "loop" /\ UNCHANGED <<migration, workerActive, gatewayDeployment, mainPc,
                              config, running, enabled, lingering>>
    BY <1>10 DEF WorkerTakesAction
  <2>2. CASE action = "activate" /\ ~workerActive
    BY <1>0, <1>1, <1>10, <2>2 DEF WorkerTakesAction
  <2>3. CASE action = "rollback" /\ migration # NoMigration
    <3>1. workerPc' = "rollback"
          /\ remote' = [remote EXCEPT !["worker"] = Running(host, RestorePublisher(migration.previous))]
      BY <1>10, <2>3 DEF WorkerTakesAction
    <3>2. WorkerCalls' /\ remote'["main"] = remote["main"]
      BY <1>0, <2>1, <3>1, FirstRemainders DEF WorkerCalls, host
    <3>3. WorkerJournal' /\ WorkerDisplacesLegacy'
      BY <2>1, <3>1 DEF JournalsTellWhoControls, WorkerJournal, WorkerDisplacesLegacy
    <3>4. QED
      BY <1>0, <2>1, <3>1, <3>2, <3>3, WorkerMove
  <2>4. CASE ~(action = "activate" /\ ~workerActive) /\ ~(action = "rollback" /\ migration # NoMigration)
    <3>1. UNCHANGED <<workerPc, remote>>
      BY <1>10, <2>4 DEF WorkerTakesAction
    <3>2. QED
      BY <2>1, <3>1, ControlFrame DEF controlVars
  <2>5. QED
    BY <2>2, <2>3, <2>4
<1>11. CASE ActivateObserve
  BY <1>0, <1>1, <1>11 DEF ActivateObserve
<1>12. CASE ActivateJournal
  <2> DEFINE journal == [phase |-> "taking_over", binding |-> config, previous |-> observed]
  <2>1. /\ workerPc = "journal" /\ workerPc' = "takeover" /\ migration' = journal
        /\ remote' = [remote EXCEPT !["worker"] = Running(host, StopPublisher)]
        /\ UNCHANGED <<workerActive, gatewayDeployment, mainPc, config, running, enabled, lingering>>
    BY <1>12 DEF ActivateJournal
  <2>2. journal.binding = config
    OBVIOUS
  <2> HIDE DEF journal
  <2>3. WorkerCalls' /\ remote'["main"] = remote["main"]
    BY <1>0, <2>1, FirstRemainders DEF WorkerCalls, host
  <2>4. WorkerJournal' /\ WorkerDisplacesLegacy'
    BY <1>0, <2>1, <2>2 DEF WorkerJournal, WorkerDisplacesLegacy
  <2>5. QED
    BY <1>0, <2>1, <2>2, <2>3, <2>4, WorkerMove
<1>13. CASE RollbackDone
  BY <1>0, <1>1, <1>13 DEF RollbackDone
<1>14. CASE WorkerExits
  BY <1>0, <1>1, <1>14 DEF WorkerExits
<1>15. CASE WorkerRetry
  BY <1>0, <1>1, <1>15 DEF WorkerRetry
<1>16. CASE WorkerPoll
  BY <1>16, ControlFrame DEF WorkerPoll, controlVars
<1>17. CASE WorkerFails
  <2>1. lingering' = NoCall
    BY <1>0, <1>17, NothingLingers DEF WorkerFails
  <2>2. QED
    BY <1>0, <1>1, <1>17, <2>1 DEF WorkerFails
<1>18. CASE WorkerDies
  <2>1. lingering' = NoCall
    BY <1>0, <1>18, NothingLingers DEF WorkerDies
  <2>2. QED
    BY <1>0, <1>1, <1>18, <2>1 DEF WorkerDies
<1>19. QED
  BY <1>3, <1>4, <1>5, <1>6, <1>8, <1>9, <1>10, <1>11, <1>12, <1>13, <1>14, <1>15, <1>16,
     <1>17, <1>18 DEF WorkerStep

LEMMA AppKeeps ==
    ASSUME TypeOK, CallsAsExpected, JournalsTellWhoControls, ReliableGateway,
           AppDown \/ \E b \in Bindings : AppStart(b)
    PROVE  CallsAsExpected' /\ JournalsTellWhoControls'
<1>1. CASE AppDown
  <2>1. lingering' = NoCall
    BY <1>1, NothingLingers DEF AppDown, Clients
  <2>2. MainCalls' /\ WorkerCalls'
    BY <1>1 DEF AppDown, MainCalls, WorkerCalls, Clients
  <2>3. JournalsTellWhoControls'
    BY <1>1, WorkerlessMove DEF AppDown, files, Engaged
  <2>4. QED
    BY <2>1, <2>2, <2>3 DEF CallsAsExpected
<1>2. CASE \E b \in Bindings : AppStart(b)
  <2>1. /\ mainPc = "down" /\ mainPc' = "loop"
        /\ UNCHANGED <<migration, gatewayDeployment, workerPc, workerActive, gatewayVars>>
    BY <1>2 DEF AppStart, worker
  <2>2. workerPc = "none" /\ workerActive = FALSE
    BY <2>1 DEF JournalsTellWhoControls, WorkerOrJournal, WorkerDisplacesLegacy, TypeOK
  <2>3. CallsAsExpected'
    BY <2>1, <2>2 DEF CallsAsExpected, MainCalls, WorkerCalls, gatewayVars
  <2>4. JournalsTellWhoControls'
    BY <2>1, <2>2
       DEF JournalsTellWhoControls, MainHoldsJournal, WorkerOrJournal, RuntimeJournaled,
           RuntimeDisplacesLegacy, WorkerDisplacesLegacy, SameBinding, WorkerJournal,
           Silent, gatewayVars
  <2>5. QED
    BY <2>3, <2>4
<1>3. QED
  BY <1>1, <1>2

\* Every step keeps the calls and the journals as the invariant says.
LEMMA StepKeeps ==
    ASSUME TypeOK, TakeoverJournaled, CallsAsExpected, JournalsTellWhoControls,
           ReliableGateway, [Next]_vars
    PROVE  CallsAsExpected' /\ JournalsTellWhoControls'
<1>1. ASSUME NEW t \in Handlers, UserRequest(t) \/ HandlerStep(t)
      PROVE  UNCHANGED controlVars
  BY <1>1 DEF UserRequest, HandlerStep, PostDeployment, PostControl, AcquireLock,
              WriteDeploymentAction, CheckDeployment, CheckLock, CheckMigration,
              WriteAction, controlVars, files, worker, gatewayVars
<1>2. CASE \E t \in Handlers : UserRequest(t) \/ HandlerStep(t)
  BY <1>1, <1>2, ControlFrame
<1>3. CASE AppDown \/ \E b \in Bindings : AppStart(b)
  BY <1>3, AppKeeps
<1>4. CASE MainStep \/ MainFails
  BY <1>4, MainKeeps
<1>5. CASE WorkerStep \/ WorkerPoll \/ WorkerFails \/ WorkerDies
  BY <1>5, WorkerKeeps
<1>6. CASE GatewayStep \/ GatewayFails
  <2>1. ~LingeringStep
    BY NothingLingers
  <2>2. UNCHANGED appVars
    BY <1>6 DEF GatewayStep, GatewayFails
  <2>3. \/ RemoteStep("main") \/ CommandFails("main")
        \/ RemoteStep("worker") \/ CommandFails("worker")
        \/ \E h \in Hosts : Reboot(h)
    BY <1>6, <2>1 DEF GatewayStep, GatewayFails, Clients
  <2>4. QED
    BY <2>2, <2>3, MainCallGoesOn, WorkerCallGoesOn, RebootKeeps
<1>7. CASE UNCHANGED vars
  BY <1>7, ControlFrame DEF vars, controlVars, files, worker, gatewayVars
<1>8. QED
  BY <1>2, <1>3, <1>4, <1>5, <1>6, <1>7 DEF Next, Outage

\* On a reliable gateway the calls under way, the journals and the services
\* stay in step (deploy.py: _install, restore_ha; worker.py: run, activate,
\* rollback), through any crash, reboot, failed command or lost connection.
THEOREM ControlInvariantHolds ==
    ASSUME ReliableGateway PROVE Spec => []ControlInvariant
<1>1. Init => CallsAsExpected /\ JournalsTellWhoControls
  BY DEF Init, GatewayInit, CallsAsExpected, MainCalls, WorkerCalls, Clients, Silent,
         JournalsTellWhoControls, MainHoldsJournal, WorkerOrJournal, RuntimeJournaled,
         RuntimeDisplacesLegacy, WorkerDisplacesLegacy, SameBinding, WorkerJournal
<1>2. /\ TypeOK /\ TakeoverJournaled /\ [Next]_vars
      /\ CallsAsExpected /\ JournalsTellWhoControls
      => CallsAsExpected' /\ JournalsTellWhoControls'
  BY StepKeeps
<1>3. Spec => [](CallsAsExpected /\ JournalsTellWhoControls)
  BY <1>1, <1>2, TypeCorrect, PTL DEF Spec
<1>4. QED
  BY <1>3, TypeCorrect, PTL DEF ControlInvariant

\* Never two controllers on one gateway, whatever crashes (deploy.py 179, 206).
THEOREM OneControllerHolds ==
    ASSUME ReliableGateway PROVE Spec => []OneController
<1>1. ControlInvariant => OneController
  BY DEF ControlInvariant, JournalsTellWhoControls, WorkerOrJournal, RuntimeDisplacesLegacy,
         WorkerDisplacesLegacy, Silent, OneController, ControllersOf, WorkerControls, host,
         TypeOK
<1>2. QED
  BY <1>1, ControlInvariantHolds, PTL

\* A worker in control holds the journal a rollback needs (worker.py 115).
THEOREM ControlIsJournaledHolds ==
    ASSUME ReliableGateway PROVE Spec => []ControlIsJournaled
<1>1. ControlInvariant => ControlIsJournaled
  BY DEF ControlInvariant, JournalsTellWhoControls, WorkerDisplacesLegacy, WorkerJournal,
         ControlIsJournaled, NoMigration
<1>2. QED
  BY <1>1, ControlInvariantHolds, PTL

\* The exclusion of the worker is inductive without any help of the gateway.
LEMMA ExclusionKept ==
    ASSUME TypeOK, MainHoldsJournal, WorkerExcluded, [Next]_vars
    PROVE  MainHoldsJournal' /\ WorkerExcluded'
<1> DEFINE Goal == MainHoldsJournal' /\ WorkerExcluded'
<1> USE DEF MainHoldsJournal, WorkerExcluded, files, http, worker, workerFrame, appVars,
            Finish, WorkerGone
<1>1. CASE \E t \in Handlers : UserRequest(t) \/ HandlerStep(t)
  <2>1. ASSUME NEW t \in Handlers, UserRequest(t) \/ HandlerStep(t)
        PROVE  UNCHANGED <<workerPc, mainPc, gatewayDeployment, config>>
    BY <2>1 DEF UserRequest, HandlerStep, PostDeployment, PostControl, AcquireLock,
                WriteDeploymentAction, CheckDeployment, CheckLock, CheckMigration, WriteAction
  <2>2. QED
    BY <1>1, <2>1
<1>2. CASE AppDown \/ \E b \in Bindings : AppStart(b)
  BY <1>2 DEF AppDown, AppStart
<1>3. CASE TakeDeploymentAction \/ SuperviseGateway \/ SuperviseWorker
  BY <1>3 DEF TakeDeploymentAction, SuperviseGateway, SuperviseWorker, TypeOK, DeploymentOps
<1>4. CASE InstallCheck \/ InstallJournal \/ InstallStopWorker \/ InstallLegacyStopped
           \/ InstallSwitched \/ InstallHealthy \/ UndoVerified
  BY <1>4 DEF InstallCheck, InstallJournal, InstallStopWorker, InstallLegacyStopped,
              InstallSwitched, InstallHealthy, UndoVerified, NoDeployment
<1>5. CASE RestoreCheck \/ RestoreDone \/ Cleanup \/ CleanupEnds
  BY <1>5 DEF RestoreCheck, RestoreDone, Cleanup, CleanupEnds
<1>6. CASE MainFails
  BY <1>6 DEF MainFails, InstallPrepareFails, InstallFails, UndoFails, RestoreFails
<1>7. CASE WorkerStep \/ WorkerPoll \/ WorkerFails \/ WorkerDies
  <2>1. workerPc # "none" /\ UNCHANGED <<mainPc, gatewayDeployment, config>>
    BY <1>7 DEF WorkerStep, WorkerStart, WorkerPrepared, WorkerDiscovered, WorkerRecovered,
                WorkerResumed, WorkerTakesAction, ActivateObserve, ActivateJournal,
                ActivateDone, RollbackDone, WorkerExits, WorkerRetry, WorkerPoll,
                WorkerFails, WorkerDies
  <2>2. QED
    BY <2>1
<1>8. CASE GatewayStep \/ GatewayFails
  BY <1>8 DEF GatewayStep, GatewayFails
<1>9. CASE UNCHANGED vars
  BY <1>9 DEF vars
<1>10. QED
  BY <1>1, <1>2, <1>3, <1>4, <1>5, <1>6, <1>7, <1>8, <1>9 DEF Next, MainStep, Outage

\* After stop_worker the gateway journal keeps the worker away (app.py: main),
\* even if scripts go on without their client and any command may fail.
THEOREM JournalBlocksWorkerHolds == Spec => []JournalBlocksWorker
<1>1. Init => MainHoldsJournal /\ WorkerExcluded
  BY DEF Init, MainHoldsJournal, WorkerExcluded
<1>2. TypeOK /\ MainHoldsJournal /\ WorkerExcluded /\ [Next]_vars
      => MainHoldsJournal' /\ WorkerExcluded'
  BY ExclusionKept
<1>3. WorkerExcluded => JournalBlocksWorker
  BY DEF WorkerExcluded, JournalBlocksWorker
<1>4. QED
  BY <1>1, <1>2, <1>3, TypeCorrect, PTL DEF Spec

\* The gateway journal is dropped only for a silent runtime, and keeps its
\* options (deploy.py 205-213, 216-225).
LEMMA JournalStep ==
    ASSUME ControlInvariant, [Next]_vars, gatewayDeployment # NoDeployment,
           gatewayDeployment' # gatewayDeployment
    PROVE  IF gatewayDeployment' = NoDeployment
           THEN <<HostOf[gatewayDeployment.binding], "runtime">> \notin running' \cup enabled'
           ELSE gatewayDeployment'.binding = gatewayDeployment.binding
<1> USE DEF ControlInvariant, JournalsTellWhoControls, files
<1> DEFINE Kept == gatewayDeployment' # NoDeployment
                   /\ gatewayDeployment'.binding = gatewayDeployment.binding
           Dropped == <<HostOf[gatewayDeployment.binding], "runtime">> \notin running' \cup enabled'
<1>1. ASSUME NEW t \in Handlers, UserRequest(t) \/ HandlerStep(t)
      PROVE  FALSE
  BY <1>1 DEF UserRequest, HandlerStep, PostDeployment, PostControl, AcquireLock,
              WriteDeploymentAction, CheckDeployment, CheckLock, CheckMigration, WriteAction
<1>2. ~(AppDown \/ \E b \in Bindings : AppStart(b))
  BY DEF AppDown, AppStart
<1>3. ~(WorkerStep \/ WorkerPoll \/ WorkerFails \/ WorkerDies)
  BY DEF WorkerStep, WorkerPoll, WorkerFails, WorkerDies, WorkerStart, WorkerPrepared,
         WorkerDiscovered, WorkerRecovered, WorkerResumed, WorkerTakesAction,
         ActivateObserve, ActivateJournal, ActivateDone, RollbackDone, WorkerExits,
         WorkerRetry, workerFrame
<1>4. ~(GatewayStep \/ GatewayFails \/ UNCHANGED vars)
  BY DEF GatewayStep, GatewayFails, appVars, vars
<1>5. CASE SuperviseGateway
  <2>1. gatewayDeployment \in Deployment
    BY DEF TypeOK
  <2>2. gatewayDeployment' = [gatewayDeployment EXCEPT !.phase = "active"]
    BY <1>5 DEF SuperviseGateway
  <2>3. Kept
    BY <2>1, <2>2 DEF Deployment, NoDeployment
  <2>4. QED
    BY <2>3
<1>6. CASE InstallJournal
  <2>1. gatewayDeployment' = [phase |-> "switching", binding |-> config]
        /\ gatewayDeployment.binding = config
    BY <1>6 DEF InstallJournal, SameBinding
  <2>2. Kept
    BY <2>1 DEF NoDeployment
  <2>3. QED
    BY <2>2
<1>7. CASE InstallHealthy
  <2>1. gatewayDeployment' = [phase |-> "active", binding |-> config]
        /\ gatewayDeployment.binding = config
    BY <1>7 DEF InstallHealthy, MainHoldsJournal
  <2>2. Kept
    BY <2>1 DEF NoDeployment
  <2>3. QED
    BY <2>2
<1>8. CASE UndoVerified
  <2>1. Silent(host, "runtime") /\ gatewayDeployment.binding = config
    BY <1>8, StoppedWhenReplied
       DEF UndoVerified, CallsAsExpected, MainCalls, MainHoldsJournal
  <2>2. gatewayDeployment' = NoDeployment /\ Dropped
    BY <1>8, <2>1 DEF UndoVerified, Silent, host
  <2>3. QED
    BY <2>2
<1>9. CASE RestoreDone
  <2>1. Silent(host, "runtime") /\ gatewayDeployment.binding = config
    BY <1>9, StoppedWhenReplied
       DEF RestoreDone, CallsAsExpected, MainCalls, MainHoldsJournal
  <2>2. gatewayDeployment' = NoDeployment /\ Dropped
    BY <1>9, <2>1 DEF RestoreDone, Silent, host
  <2>3. QED
    BY <2>2
<1>10. QED
  BY <1>1, <1>2, <1>3, <1>4, <1>5, <1>6, <1>7, <1>8, <1>9
     DEF Next, Outage, MainStep, MainFails, TakeDeploymentAction, SuperviseWorker,
         InstallCheck, InstallPrepareFails, InstallStopWorker, InstallLegacyStopped,
         InstallSwitched, InstallFails, UndoFails, RestoreCheck, RestoreFails, Cleanup,
         CleanupEnds

\* The gateway journal is dropped only when its service neither runs nor starts
\* at boot, and never changes hands (deploy.py: _install, restore_ha).
THEOREM JournalDroppedWhenStoppedHolds ==
    ASSUME ReliableGateway PROVE Spec => JournalDroppedWhenStopped
<1>1. ControlInvariant /\ [Next]_vars =>
        [ gatewayDeployment # NoDeployment /\ gatewayDeployment' # gatewayDeployment =>
            IF gatewayDeployment' = NoDeployment
            THEN <<HostOf[gatewayDeployment.binding], "runtime">>
                     \notin running' \cup enabled'
            ELSE gatewayDeployment'.binding = gatewayDeployment.binding ]_vars
  BY JournalStep
<1>2. QED
  BY <1>1, ControlInvariantHolds, PTL DEF Spec, JournalDroppedWhenStopped
=============================================================================
