------------------------------ MODULE Cleanup ------------------------------
(***************************************************************************)
(* Removal of the legacy Matter components: cleanup.py in the app, which   *)
(* runs cleanup.sh on the gateway over ssh.                                *)
(*                                                                         *)
(* The script saves the unit files, stops the units, masks them and moves  *)
(* the programs into its backup.  It may end after any command; the        *)
(* gateway may reboot, which starts again what is still enabled; the app   *)
(* may lose its ssh client, whose script goes on beside that of the next   *)
(* attempt.  Until a unit is masked, its trigger or an old hook may start  *)
(* it.                                                                     *)
(***************************************************************************)
EXTENDS Integers, Sequences, FiniteSets

CONSTANTS Triggers,   \* sequence of .path, .timer and .socket units
          Services,   \* sequence of .service units
          Activates,  \* the service each trigger starts
          Items,      \* sequence of directories and pages to move
          Scripts,    \* runs of cleanup.sh that may overlap
          None

\* Mutant: services are stopped before what starts them.
ServicesFirst == Services \o Triggers

\* The list of cleanup.sh, in its order.
Units == Triggers \o Services

Trigger == {Triggers[i] : i \in 1 .. Len(Triggers)}
Service == {Services[i] : i \in 1 .. Len(Services)}
Unit == {Units[i] : i \in 1 .. Len(Units)}
Item == {Items[i] : i \in 1 .. Len(Items)}

ASSUME CleanupAssumption ==
    /\ Len(Units) \in Nat \ {0} /\ Len(Items) \in Nat \ {0}
    /\ \A i, j \in 1 .. Len(Units) : Units[i] = Units[j] => i = j
    /\ Triggers \in Seq(Trigger) /\ Services \in Seq(Service)
    /\ Activates \in [Trigger -> Service]
    /\ None \notin Scripts

VARIABLES
    installed, \* the units whose file was found; never changes
    foreign,   \* a legacy unit is installed that the script does not know
    disk,      \* per unit: its "file", a "mask", or nothing
    loaded,    \* per unit: what systemd has in memory
    enabled,   \* units started at boot
    active,    \* units running
    saved,     \* per unit: its copy in the backup; a "torn" one is being written or
               \* was cut off, an "overwritten" one is not whole either
    moved,     \* items in the backup
    complete,  \* the file "complete" in the backup
    pc,        \* per script: the command it is at
    at,        \* per script: the unit or item of its loop
    caller,    \* the script whose ssh client the app waits for
    done,      \* cleanup.json says "done", and not "running" or "error"
    hooked     \* history: an old hook has started a unit

unitVars == <<disk, loaded, enabled, active>>
backupVars == <<saved, moved, complete>>
appVars == <<caller, done>>
found == <<installed, foreign>>
aside == <<found, hooked>>
vars == <<aside, unitVars, backupVars, pc, at, appVars>>
-----------------------------------------------------------------------------
(* cleanup.sh                                                              *)

Runs(s) == pc[s] \notin {"idle", "ok", "failed"}

\* Nobody hears the exit code of a script whose client is gone.
End(s, outcome) ==
    /\ pc' = [pc EXCEPT ![s] = IF caller = s THEN outcome ELSE "idle"]
    /\ at' = [at EXCEPT ![s] = 1]

\* Mutant: loops begin before their first element.
GotoZero(s, label) == pc' = [pc EXCEPT ![s] = label] /\ at' = [at EXCEPT ![s] = 0]

Goto(s, label) == pc' = [pc EXCEPT ![s] = label] /\ at' = [at EXCEPT ![s] = 1]

\* A test of the script itself ends it.
Refuse(s) == End(s, "failed") /\ UNCHANGED <<unitVars, backupVars>>

\* The next round of a loop over list, or what follows the loop.
NextOf(s, list, first, after) ==
    IF at[s] < Len(list)
    THEN pc' = [pc EXCEPT ![s] = first] /\ at' = [at EXCEPT ![s] = @ + 1]
    ELSE Goto(s, after)

ThisUnit(s) == Units[at[s]]

\* Nothing is touched unless every unit is known; that the new service does
\* not run is one of the commands that fail.
Check(s) ==
    /\ pc[s] = "check"
    /\ IF foreign THEN Refuse(s)
       ELSE Goto(s, "save") /\ UNCHANGED <<unitVars, backupVars>>
    /\ UNCHANGED <<aside, appVars>>

\* Mutant: any copy that is there will do.
SaveUnchecked(s) ==
    /\ pc[s] = "save"
    /\ IF disk[ThisUnit(s)] = "file" /\ saved[ThisUnit(s)] = "none"
       THEN pc' = [pc EXCEPT ![s] = "copy"] /\ UNCHANGED at
       ELSE NextOf(s, Units, "save", "disable")
    /\ UNCHANGED <<aside, unitVars, backupVars, appVars>>

\* A file is copied unless there is a copy, which then must be the same.
Save(s) ==
    /\ pc[s] = "save"
    /\ LET u == ThisUnit(s)
       IN  \/ /\ disk[u] = "file" /\ saved[u] = "none"
              /\ pc' = [pc EXCEPT ![s] = "copy"]
              /\ UNCHANGED <<unitVars, backupVars, at>>
           \/ /\ disk[u] = "file" /\ saved[u] \in {"torn", "overwritten"}
              /\ Refuse(s)
           \/ /\ disk[u] # "file" \/ saved[u] = "full"
              /\ NextOf(s, Units, "save", "disable")
              /\ UNCHANGED <<unitVars, backupVars>>
    /\ UNCHANGED <<aside, appVars>>

\* cp -Pp, which fails if the file is gone.  It creates the copy and writes it,
\* or it writes over one that another script has made since the test.  A mask
\* that has taken the place of the file is copied as such.
Copy(s) ==
    /\ pc[s] = "copy"
    /\ LET u == ThisUnit(s)
       IN  \/ disk[u] = "absent" /\ Refuse(s)
           \/ /\ disk[u] # "absent"
              /\ saved' = [saved EXCEPT ![u] = IF disk[u] = "file" /\ @ = "none"
                                               THEN "torn" ELSE "overwritten"]
              /\ IF disk[u] = "file" THEN pc' = [pc EXCEPT ![s] = "write"] /\ UNCHANGED at
                 ELSE NextOf(s, Units, "save", "disable")
              /\ UNCHANGED <<unitVars, moved, complete>>
    /\ UNCHANGED <<aside, appVars>>

\* Where two scripts write, the copy need not be whole when one is done.
Write(s) ==
    /\ pc[s] = "write"
    /\ LET u == ThisUnit(s)
       IN  \/ saved' = [saved EXCEPT ![u] = "full"]
           \/ saved[u] = "overwritten" /\ saved' = saved
    /\ NextOf(s, Units, "save", "disable")
    /\ UNCHANGED <<aside, unitVars, moved, complete, appVars>>

\* Units that are masked or not found are neither disabled nor stopped.
Disable(s) ==
    /\ pc[s] = "disable"
    /\ LET u == ThisUnit(s)
       IN  IF loaded[u] = "loaded"
           THEN enabled' = enabled \ {u} /\ pc' = [pc EXCEPT ![s] = "stop"]
           ELSE UNCHANGED enabled /\ pc' = [pc EXCEPT ![s] = "query"]
    /\ UNCHANGED <<aside, disk, loaded, active, backupVars, at, appVars>>

Stop(s) ==
    /\ pc[s] = "stop"
    /\ active' = active \ {ThisUnit(s)}
    /\ pc' = [pc EXCEPT ![s] = "query"]
    /\ UNCHANGED <<aside, disk, loaded, enabled, backupVars, at, appVars>>

\* exit 23
Query(s) ==
    /\ pc[s] = "query"
    /\ IF ThisUnit(s) \in active THEN Refuse(s)
       ELSE NextOf(s, Units, "disable", "remove") /\ UNCHANGED <<unitVars, backupVars>>
    /\ UNCHANGED <<aside, appVars>>

\* Mutant: rm without -f fails where nothing is.
RemovePresent(s) ==
    /\ pc[s] = "remove"
    /\ IF disk[ThisUnit(s)] = "absent" THEN Refuse(s)
       ELSE /\ disk' = [disk EXCEPT ![ThisUnit(s)] = "absent"]
            /\ pc' = [pc EXCEPT ![s] = "link"]
            /\ UNCHANGED <<loaded, enabled, active, backupVars, at>>
    /\ UNCHANGED <<aside, appVars>>

\* A file is replaced by a mask in two steps.
Remove(s) ==
    /\ pc[s] = "remove"
    /\ disk' = [disk EXCEPT ![ThisUnit(s)] = "absent"]
    /\ pc' = [pc EXCEPT ![s] = "link"]
    /\ UNCHANGED <<aside, loaded, enabled, active, backupVars, at, appVars>>

Link(s) ==
    /\ pc[s] = "link"
    /\ IF disk[ThisUnit(s)] # "absent" THEN Refuse(s)
       ELSE /\ disk' = [disk EXCEPT ![ThisUnit(s)] = "mask"]
            /\ NextOf(s, Units, "remove", "reload")
            /\ UNCHANGED <<loaded, enabled, active, backupVars>>
    /\ UNCHANGED <<aside, appVars>>

FromDisk == [u \in Unit |-> CASE disk[u] = "file" -> "loaded"
                              [] disk[u] = "mask" -> "masked"
                              [] disk[u] = "absent" -> "none"]

\* daemon-reload; a unit that runs goes on running.
Reload(s) ==
    /\ pc[s] = "reload"
    /\ loaded' = FromDisk
    /\ Goto(s, "move")
    /\ UNCHANGED <<aside, disk, enabled, active, backupVars, appVars>>

\* An item that is not there any more was moved by a run before.
Move(s) ==
    /\ pc[s] = "move"
    /\ moved' = moved \cup {Items[at[s]]}
    /\ NextOf(s, Items, "move", "verify")
    /\ UNCHANGED <<aside, unitVars, saved, complete, appVars>>

\* Mutant: the units are not looked at once more.
VerifyNothing(s) ==
    /\ pc[s] = "verify"
    /\ complete' = TRUE /\ End(s, "ok")
    /\ UNCHANGED <<aside, unitVars, saved, moved, appVars>>

\* No legacy unit runs (exit 24).
Verify(s) ==
    /\ pc[s] = "verify"
    /\ IF active # {} THEN Refuse(s)
       ELSE complete' = TRUE /\ End(s, "ok") /\ UNCHANGED <<unitVars, saved, moved>>
    /\ UNCHANGED <<aside, appVars>>

\* set -e: a command fails, and the script with it; a copy that was being
\* written stays as it is.
CommandFails(s) ==
    /\ Runs(s) /\ End(s, "failed")
    /\ UNCHANGED <<aside, unitVars, backupVars, appVars>>

Step(s) ==
    \/ Check(s) \/ Save(s) \/ Copy(s) \/ Write(s) \/ Disable(s) \/ Stop(s) \/ Query(s)
    \/ Remove(s) \/ Link(s) \/ Reload(s) \/ Move(s) \/ Verify(s)
-----------------------------------------------------------------------------
(* cleanup.py                                                              *)

\* The app has found the new service healthy.
Begin ==
    /\ caller = None
    /\ \E s \in Scripts :
          /\ pc[s] = "idle"
          /\ caller' = s
          /\ Goto(s, "check")
    /\ done' = FALSE
    /\ UNCHANGED <<aside, unitVars, backupVars>>

Reports(outcome) ==
    /\ done' = outcome
    /\ pc' = [pc EXCEPT ![caller] = "idle"]
    /\ caller' = None
    /\ UNCHANGED <<aside, unitVars, backupVars, at>>

Report ==
    /\ caller # None /\ ~Runs(caller)
    /\ Reports(pc[caller] = "ok")

\* The script succeeded, but the new service is not healthy any more.
ReportUnhealthy ==
    /\ caller # None /\ pc[caller] = "ok"
    /\ Reports(FALSE)

\* 180 s are over, the connection is lost or the app dies: the script goes on
\* alone, or its outcome is not heard.
LoseClient ==
    /\ caller # None
    /\ pc' = [pc EXCEPT ![caller] = IF Runs(caller) THEN @ ELSE "idle"]
    /\ caller' = None
    /\ UNCHANGED <<aside, unitVars, backupVars, at, done>>
-----------------------------------------------------------------------------
(* The gateway.                                                            *)

\* Units that are active start others, and hooks start any.
Startable(u) == loaded[u] = "loaded"

TriggerFires ==
    \E t \in DOMAIN Activates :
        /\ t \in active /\ Startable(Activates[t])
        /\ active' = active \cup {Activates[t]}
        /\ UNCHANGED <<aside, disk, loaded, enabled, backupVars, pc, at, appVars>>

\* A unit that runs is not started again.
HookFires ==
    \E u \in Unit :
        /\ u \notin active /\ Startable(u)
        /\ active' = active \cup {u}
        /\ hooked' = TRUE
        /\ UNCHANGED <<found, disk, loaded, enabled, backupVars, pc, at, appVars>>

\* systemd forgets a unit that does not run and reads its file again.
Forgets ==
    \E u \in Unit \ active :
        /\ loaded' = [loaded EXCEPT ![u] = FromDisk[u]]
        /\ UNCHANGED <<aside, disk, enabled, active, backupVars, pc, at, appVars>>

\* A reboot ends every script, perhaps in the midst of a copy.
Reboot ==
    /\ pc' = [s \in Scripts |-> IF ~Runs(s) THEN pc[s]
                               ELSE IF caller = s THEN "failed" ELSE "idle"]
    /\ loaded' = FromDisk
    /\ active' = {u \in enabled : disk[u] = "file"}
    /\ at' = [s \in Scripts |-> 1]
    /\ UNCHANGED <<aside, disk, enabled, backupVars, appVars>>
-----------------------------------------------------------------------------
\* Any of the units are installed, and any of these enabled and active.
Init ==
    /\ installed \in SUBSET Unit /\ foreign \in BOOLEAN
    /\ disk = [u \in Unit |-> IF u \in installed THEN "file" ELSE "absent"]
    /\ loaded = FromDisk
    /\ enabled \in SUBSET installed /\ active \in SUBSET installed
    /\ saved = [u \in Unit |-> "none"] /\ moved = {} /\ complete = FALSE
    /\ pc = [s \in Scripts |-> "idle"] /\ at = [s \in Scripts |-> 1]
    /\ caller = None /\ done = FALSE
    /\ hooked = FALSE

\* What may keep a cleanup from being completed; that a script ends by a test of
\* its own, and that this is reported, does not count.
Interrupts ==
    \/ HookFires
    \/ (LoseClient \/ ReportUnhealthy) /\ ~Report
    \/ \E s \in Scripts : CommandFails(s) /\ ~Step(s)
    \/ Reboot /\ \A s \in Scripts : ~Step(s)

Next ==
    \/ Begin \/ Report \/ ReportUnhealthy \/ LoseClient
    \/ TriggerFires \/ HookFires \/ Forgets \/ Reboot
    \/ \E s \in Scripts : Step(s) \/ CommandFails(s)

Spec == Init /\ [][Next]_vars

\* The user tries again until the cleanup is done and is told of each outcome;
\* commands and ssh come to an end: a script that runs goes on to its next
\* command, or ends.  The last is weak fairness of Step(s), which is enabled
\* exactly when the script runs, and whatever else moves the script ends it.
Fairness ==
    /\ WF_caller((~done /\ Begin) \/ Report)
    /\ \A s \in Scripts : []<>~Runs(s) \/ []<><<TRUE>>_<<pc[s], at[s]>>

FairSpec == Spec /\ Fairness
-----------------------------------------------------------------------------
TypeOK ==
    /\ installed \subseteq Unit /\ foreign \in BOOLEAN
    /\ disk \in [Unit -> {"file", "mask", "absent"}]
    /\ loaded \in [Unit -> {"loaded", "masked", "none"}]
    /\ enabled \subseteq installed /\ active \subseteq installed
    /\ saved \in [Unit -> {"none", "torn", "overwritten", "full"}]
    /\ moved \subseteq Item
    /\ complete \in BOOLEAN
    /\ pc \in [Scripts -> {"idle", "check", "save", "copy", "write", "disable", "stop", "query",
                           "remove", "link", "reload", "move", "verify", "ok", "failed"}]
    /\ at \in [Scripts -> 1 .. Len(Units) + Len(Items)]
    /\ caller \in Scripts \cup {None}
    /\ done \in BOOLEAN
    /\ hooked \in BOOLEAN
-----------------------------------------------------------------------------
\* "Quarantine rather than erase" (cleanup.sh 2): wherever the runs of the
\* script ended, each unit file is in its place or whole in the backup, unless
\* a script whose test was overtaken wrote over the copy of another one.
NothingLost ==
    \A u \in installed : disk[u] = "file" \/ saved[u] \in {"full", "overwritten"}

\* A completed cleanup lasts, whatever lingering scripts, hooks and reboots
\* do: no legacy unit runs, nor can it be started, and no item is left.
CompleteIsFinal ==
    complete => /\ active = {} /\ moved = Item
                /\ \A u \in Unit : disk[u] # "file" /\ loaded[u] # "loaded"

\* Programs are not taken away from services that run: a failed stop keeps
\* the live files (test_cleanup.py, test_failed_stop_keeps_live_files).  Only
\* a hook can start a unit between its stop and its mask.
MovesWhenStopped ==
    [][moved' # moved /\ ~hooked => active = {}]_vars

InterruptsCease == <>[][~Interrupts]_vars

\* The copy of a file is torn and nobody writes it any more.
LeftTorn ==
    \E u \in Unit :
        /\ disk[u] = "file" /\ saved[u] \in {"torn", "overwritten"}
        /\ ~\E s \in Scripts : pc[s] = "write" /\ ThisUnit(s) = u

\* Wherever earlier runs were cut off, the cleanup of a known installation
\* gets done in the end (cleanup.py 1: resumable), unless a hook started a
\* unit or a copy was left torn.
CleanupResumes ==
    ~foreign /\ InterruptsCease /\ [](~hooked /\ ~LeftTorn) => <>done

\* "partial runs can be resumed" (cleanup.sh 24), those too that were cut off
\* in the midst of a copy.
PartialRunsResume ==
    ~foreign /\ InterruptsCease /\ [](~hooked) => <>done
=============================================================================
