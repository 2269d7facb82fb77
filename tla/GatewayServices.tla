-------------------------- MODULE GatewayServices --------------------------
(***************************************************************************)
(* The two systemd units on the GARDENA gateway that may publish and       *)
(* control, and the shell scripts the app runs there over SSH.             *)
(*                                                                         *)
(*   "legacy"   gardena-mqtt-publisher.service, found on the gateway       *)
(*   "runtime"  gardena-local.service, installed by deploy.py              *)
(*                                                                         *)
(* A script is a sequence of systemctl commands.  The client (the worker   *)
(* process or the app's main loop) waits for it, but the connection may    *)
(* break before, between or after its commands, so that the client cannot  *)
(* tell how much was done.  With SshMayLinger the commands that are left   *)
(* go on without their client, as a script does whose ssh was killed by    *)
(* the local 20 s timeout while systemctl was still waiting.               *)
(***************************************************************************)
EXTENDS Sequences

CONSTANTS Hosts,            \* gateways
          FoundStates,      \* states the legacy publisher may be found in
          FailingCommands,  \* the <<verb, unit>> that may fail; for a "verify": that
                            \* may take a unit for stopped that is not
          SshMayLinger      \* TRUE: an abandoned script may go on running

Units == {"legacy", "runtime"}
Verbs == {"find", "stop", "disable", "enable", "start", "verify"}
Clients == {"worker", "main"}

ASSUME GatewayAssumption ==
    /\ FoundStates \subseteq SUBSET {"active", "enabled"}
    /\ FailingCommands \subseteq Verbs \X Units
    /\ SshMayLinger \in BOOLEAN

VARIABLES running,    \* the <<host, unit>> systemd keeps up: active, or activating
                      \* while it waits for its automatic restart
          enabled,    \* the <<host, unit>> systemd starts at boot
          remote,     \* per client: the script it is waiting for
          lingering   \* a script nobody waits for, or NoCall

gatewayVars == <<running, enabled, remote, lingering>>
-----------------------------------------------------------------------------
\* Commands.  After a failing "must" command the script exits (set -e); the
\* exit code of any other command is ignored.  Two commands are questions:
\*
\*   "find"    `if systemctl cat UNIT; then ...; fi`, the dots being everything
\*             but the last command of its script
\*   "verify"  `if systemctl is-active --quiet UNIT; then exit 1; fi`
\*
\* A gateway without the legacy unit is one where it is neither running nor
\* enabled: to stop and disable it there changes nothing.

Command == [do : Verbs, unit : Units, must : BOOLEAN]
Must(verb, unit) == [do |-> verb, unit |-> unit, must |-> TRUE]
Try(verb, unit) == [do |-> verb, unit |-> unit, must |-> FALSE]

StopPublisher ==
    << Try("find", "legacy"), Must("stop", "legacy"), Must("disable", "legacy"),
       Must("verify", "legacy") >>

\* Mutant: autostart is forgotten.
RestorePublisherStartsOnly(previous) ==
    IF "active" \in previous THEN << Must("start", "legacy") >> ELSE << >>

\* previous is what publisher_state found: a subset of {"active", "enabled"}.
RestorePublisher(previous) ==
    CASE previous = {"active", "enabled"} ->
           << Must("enable", "legacy"), Must("start", "legacy") >>
      [] previous = {"enabled"} -> << Must("enable", "legacy") >>
      [] previous = {"active"} -> << Must("start", "legacy") >>
      [] OTHER -> << >>

\* Asked about a unit that waits for its restart, publisher_state raises an
\* error, which is one of the failures of its caller.
PublisherState(h) ==
    (IF <<h, "legacy">> \in running THEN {"active"} ELSE {})
    \cup (IF <<h, "legacy">> \in enabled THEN {"enabled"} ELSE {})

\* Installing the unit file between stop and enable counts as part of enable.
SwitchRuntime ==
    << Try("stop", "runtime"), Must("enable", "runtime"), Must("start", "runtime") >>

\* restore_ha: every command must succeed.
StopRuntime ==
    << Must("stop", "runtime"), Must("disable", "runtime"), Must("verify", "runtime") >>

\* Mutant: nothing looks at the service again after stopping it.
UndoRuntimeUnverified ==
    << Try("stop", "runtime"), Try("disable", "runtime") >>

\* The handler of a failed handover: only the last command decides.
UndoRuntime ==
    << Try("stop", "runtime"), Try("disable", "runtime"), Must("verify", "runtime") >>
-----------------------------------------------------------------------------
\* Calls.  The reply arrives once nothing is left to do.

NoCall == [status |-> "none"]
Running(h, script) == [status |-> "running", host |-> h, todo |-> script]
Failed == [status |-> "failed"]

Replied(c) == /\ remote[c].status = "running"
              /\ remote[c].todo = << >>

\* The client stops waiting: it got an exit code, timed out or was killed.
\* What is left of the script dies with the connection or lingers.
Abandon(c) ==
    \/ lingering' = lingering
    \/ /\ SshMayLinger
       /\ lingering = NoCall
       /\ remote[c].status = "running"
       /\ remote[c].todo # << >>
       /\ lingering' = remote[c]

\* A unit counts as stopped unless it is reported as active: if the query
\* fails, or while the unit waits for its restart, the check passes as well.
Passes(h, cmd) ==
    \/ <<h, cmd.unit>> \notin running
    \/ <<"verify", cmd.unit>> \in FailingCommands

\* Effect of a command that succeeds, and when it may fail.
Execute(h, cmd) ==
    /\ cmd.do = "verify" => Passes(h, cmd)
    /\ running' = CASE cmd.do = "stop"  -> running \ {<<h, cmd.unit>>}
                    [] cmd.do = "start" -> running \cup {<<h, cmd.unit>>}
                    [] OTHER            -> running
    /\ enabled' = CASE cmd.do = "disable" -> enabled \ {<<h, cmd.unit>>}
                    [] cmd.do = "enable"  -> enabled \cup {<<h, cmd.unit>>}
                    [] OTHER              -> enabled

MayFail(h, cmd) ==
    IF cmd.do = "verify" THEN <<h, cmd.unit>> \in running
    ELSE <<cmd.do, cmd.unit>> \in FailingCommands

\* A "find" that fails leaves only the last command of its script.
AfterFailure(todo) ==
    IF Head(todo).do = "find" THEN << todo[Len(todo)] >> ELSE Tail(todo)

HasWork(call) == call.status = "running" /\ call.todo # << >>

RemoteStep(c) ==
    /\ HasWork(remote[c])
    /\ Execute(remote[c].host, Head(remote[c].todo))
    /\ remote' = [remote EXCEPT ![c] = Running(@.host, Tail(@.todo))]
    /\ UNCHANGED lingering

CommandFails(c) ==
    /\ HasWork(remote[c])
    /\ MayFail(remote[c].host, Head(remote[c].todo))
    /\ remote' = [remote EXCEPT ![c] =
                    IF Head(@.todo).must THEN Failed
                    ELSE Running(@.host, AfterFailure(@.todo))]
    /\ UNCHANGED <<running, enabled, lingering>>

LingeringStep ==
    LET todo == lingering.todo
        Left(rest) == IF rest = << >> THEN NoCall ELSE Running(lingering.host, rest)
    IN  /\ HasWork(lingering)
        /\ \/ /\ Execute(lingering.host, Head(todo))
              /\ lingering' = Left(Tail(todo))
           \/ /\ MayFail(lingering.host, Head(todo))
              /\ lingering' = IF Head(todo).must THEN NoCall ELSE Left(AfterFailure(todo))
              /\ UNCHANGED <<running, enabled>>
        /\ UNCHANGED remote

\* The gateway restarts: systemd starts what is enabled, scripts are cut off.
Reboot(h) ==
    LET Cut(call) == call.status = "running" /\ call.host = h
    IN  /\ running' = {s \in running : s[1] # h} \cup {s \in enabled : s[1] = h}
        /\ remote' = [c \in Clients |-> IF Cut(remote[c]) THEN Failed ELSE remote[c]]
        /\ lingering' = IF Cut(lingering) THEN NoCall ELSE lingering
        /\ UNCHANGED enabled
-----------------------------------------------------------------------------
Call == {NoCall, Failed}
        \cup [status : {"running"}, host : Hosts, todo : Seq(Command)]

GatewayTypeOK ==
    /\ running \subseteq Hosts \X Units
    /\ enabled \subseteq Hosts \X Units
    /\ remote \in [Clients -> Call]
    /\ lingering \in Call

\* The gateways as the app finds them; the runtime is not yet installed.
GatewayInit ==
    /\ \E found \in [Hosts -> FoundStates] :
          /\ running = {h \in Hosts : "active" \in found[h]} \X {"legacy"}
          /\ enabled = {h \in Hosts : "enabled" \in found[h]} \X {"legacy"}
    /\ remote = [c \in Clients |-> NoCall]
    /\ lingering = NoCall
=============================================================================
