--------------------------- MODULE CleanupProofs ---------------------------
(***************************************************************************)
(* Whatever is cut off, fails or overlaps, the cleanup loses no unit file  *)
(* but to a copy written over, and a completed one lasts: proofs for any   *)
(* units, items and number of overlapping scripts.                         *)
(*                                                                         *)
(* Files come only into the backup and only out of the unit directory, so  *)
(* what a script has established for the units before its position stays   *)
(* true beside every other script (FactsLast).  The invariant says what a  *)
(* script has established at each of its commands (Established).           *)
(***************************************************************************)
EXTENDS Cleanup, TLAPS

Preserved(u) == u \in installed => saved[u] \in {"full", "overwritten"}
Gone(u) == disk[u] # "file"
Unloaded(u) == loaded[u] # "loaded"

Ended == {"idle", "ok", "failed"}
AfterSave == {"disable", "stop", "query", "remove", "link", "reload", "move", "verify"}
Saving == {"save", "copy", "write"}
OverUnits == Saving \cup {"disable", "stop", "query", "remove", "link"}

\* Loops stay within their lists.
InLoop(s) ==
    /\ pc[s] \in OverUnits => at[s] \in 1 .. Len(Units)
    /\ pc[s] = "move" => at[s] \in 1 .. Len(Items)

\* There are no other files than those found.
OnlyFound == \A u \in Unit : ~Gone(u) \/ ~Unloaded(u) => u \in installed

\* What a script has brought about before the command it is at.
Established(s) ==
    /\ pc[s] \in Saving => \A i \in 1 .. at[s] - 1 : Preserved(Units[i])
    /\ pc[s] \in AfterSave => \A u \in Unit : Preserved(u)
    /\ pc[s] = "remove" => \A i \in 1 .. at[s] - 1 : Gone(Units[i])
    /\ pc[s] = "link" => \A i \in 1 .. at[s] : Gone(Units[i])
    /\ pc[s] \in {"reload", "move", "verify"} => \A u \in Unit : Gone(u)
    /\ pc[s] \in {"move", "verify"} => \A u \in Unit : Unloaded(u)
    /\ pc[s] = "move" => \A i \in 1 .. at[s] - 1 : Items[i] \in moved
    /\ pc[s] = "verify" => Item \subseteq moved

WellPlaced == TypeOK /\ OnlyFound /\ \A s \in Scripts : InLoop(s)

Inv ==
    /\ WellPlaced
    /\ \A s \in Scripts : Established(s)
    /\ NothingLost
    /\ CompleteIsFinal

\* What holds of a unit or an item stays true.
FactsLast ==
    /\ installed' = installed
    /\ \A u \in Unit : Preserved(u) => Preserved(u)'
    /\ \A u \in Unit : Gone(u) => Gone(u)'
    /\ \A u \in Unit : Gone(u) /\ Unloaded(u) => Unloaded(u)'
    /\ moved \subseteq moved'
-----------------------------------------------------------------------------
\* The triggers come first in the list of units, the services after them.
LEMMA TriggersFirst ==
    /\ Len(Triggers) \in Nat /\ Len(Services) \in Nat
    /\ Len(Units) = Len(Triggers) + Len(Services)
    /\ \A i \in 1 .. Len(Triggers) : Units[i] = Triggers[i]
    /\ \A t \in Trigger : \E i \in 1 .. Len(Triggers) : Units[i] = t
    /\ \A v \in Service : \E i \in Len(Triggers) + 1 .. Len(Units) : Units[i] = v
    /\ Service \subseteq Unit
<1>1. /\ Len(Triggers) \in Nat /\ Len(Services) \in Nat
      /\ Len(Units) = Len(Triggers) + Len(Services)
      /\ \A i \in 1 .. Len(Triggers) : Units[i] = Triggers[i]
      /\ \A i \in 1 .. Len(Services) : Units[Len(Triggers) + i] = Services[i]
  BY CleanupAssumption DEF Units
<1>2. \A t \in Trigger : \E i \in 1 .. Len(Triggers) : Units[i] = t
  BY <1>1 DEF Trigger
<1>3. ASSUME NEW v \in Service
      PROVE  \E i \in Len(Triggers) + 1 .. Len(Units) : Units[i] = v
  <2>1. PICK i \in 1 .. Len(Services) : Services[i] = v
    BY DEF Service
  <2>2. Len(Triggers) + i \in Len(Triggers) + 1 .. Len(Units)
    BY <1>1
  <2>3. QED
    BY <1>1, <2>1, <2>2
<1>4. Service \subseteq Unit
  BY <1>1, <1>3 DEF Unit
<1>5. QED
  BY <1>1, <1>2, <1>3, <1>4

LEMMA FromDiskTyped ==
    ASSUME TypeOK
    PROVE  /\ FromDisk \in [Unit -> {"loaded", "masked", "none"}]
           /\ \A u \in Unit : FromDisk[u] = "loaded" <=> disk[u] = "file"
BY DEF TypeOK, FromDisk

\* The next round of a loop stays within its list.
LEMMA NextRound ==
    ASSUME TypeOK, NEW s \in Scripts, NEW list, list = Units \/ list = Items,
           NEW first, NEW after, NextOf(s, list, first, after)
    PROVE  /\ \/ /\ pc' = [pc EXCEPT ![s] = first]
                 /\ at' = [at EXCEPT ![s] = at[s] + 1] /\ at'[s] = at[s] + 1
                 /\ at[s] < Len(list)
              \/ /\ pc' = [pc EXCEPT ![s] = after]
                 /\ at' = [at EXCEPT ![s] = 1] /\ at'[s] = 1
                 /\ ~(at[s] < Len(list))
           /\ at' \in [Scripts -> 1 .. Len(Units) + Len(Items)]
           /\ Len(Units) \in Nat \ {0} /\ Len(Items) \in Nat \ {0}
<1>1. Len(Units) \in Nat \ {0} /\ Len(Items) \in Nat \ {0}
  BY CleanupAssumption
<1>2. at \in [Scripts -> 1 .. Len(Units) + Len(Items)]
  BY DEF TypeOK
<1>3. 1 \in 1 .. Len(Units) + Len(Items)
  BY <1>1
<1>4. at[s] \in Nat
  BY <1>1, <1>2
<1>5. CASE at[s] < Len(list)
  <2>1. /\ pc' = [pc EXCEPT ![s] = first]
        /\ at' = [at EXCEPT ![s] = at[s] + 1]
    BY <1>5 DEF NextOf
  <2>2. at[s] + 1 \in 1 .. Len(Units) + Len(Items)
    BY <1>1, <1>4, <1>5
  <2>3. QED
    BY <1>1, <1>2, <1>5, <2>1, <2>2
<1>6. CASE ~(at[s] < Len(list))
  <2>1. pc' = [pc EXCEPT ![s] = after] /\ at' = [at EXCEPT ![s] = 1]
    BY <1>6 DEF NextOf, Goto
  <2>2. QED
    BY <1>1, <1>2, <1>3, <1>6, <2>1
<1>7. QED
  BY <1>5, <1>6

LEMMA StepFacts ==
    ASSUME WellPlaced, NEW s \in Scripts, Step(s)
    PROVE  FactsLast
<1> USE DEF FactsLast, Preserved, Gone, Unloaded, aside, found, unitVars, backupVars
<1>1. CASE Check(s)
  BY <1>1 DEF Check, Refuse
<1>2. CASE Save(s) \/ Copy(s) \/ Write(s)
  BY <1>2 DEF Save, Copy, Write, Refuse, WellPlaced, TypeOK
<1>3. CASE Disable(s) \/ Stop(s) \/ Query(s)
  BY <1>3 DEF Disable, Stop, Query, Refuse
<1>4. CASE Remove(s)
  BY <1>4 DEF Remove, WellPlaced, TypeOK
<1>5. CASE Link(s)
  BY <1>5 DEF Link, Refuse, WellPlaced, TypeOK
<1>6. CASE Reload(s)
  BY <1>6, FromDiskTyped DEF Reload, WellPlaced
<1>7. CASE Move(s)
  BY <1>7 DEF Move
<1>8. CASE Verify(s)
  BY <1>8 DEF Verify, Refuse
<1>9. QED
  BY <1>1, <1>2, <1>3, <1>4, <1>5, <1>6, <1>7, <1>8 DEF Step

LEMMA OtherFacts ==
    ASSUME WellPlaced,
           \/ Begin \/ Report \/ ReportUnhealthy \/ LoseClient
           \/ TriggerFires \/ HookFires \/ Forgets \/ Reboot
           \/ (\E s \in Scripts : CommandFails(s)) \/ UNCHANGED vars
    PROVE  FactsLast
<1> USE DEF FactsLast, Preserved, Gone, Unloaded, aside, found, unitVars, backupVars
<1>1. CASE Begin \/ Report \/ ReportUnhealthy \/ LoseClient
  BY <1>1 DEF Begin, Report, ReportUnhealthy, Reports, LoseClient
<1>2. CASE TriggerFires \/ HookFires
  BY <1>2 DEF TriggerFires, HookFires
<1>3. CASE Forgets
  <2>1. installed' = installed /\ disk' = disk /\ saved' = saved /\ moved' = moved
    BY <1>3 DEF Forgets
  <2>2. \A u \in Unit : loaded'[u] = loaded[u] \/ loaded'[u] = FromDisk[u]
    BY <1>3 DEF Forgets, WellPlaced, TypeOK
  <2>3. QED
    BY <2>1, <2>2, FromDiskTyped DEF WellPlaced
<1>4. CASE Reboot
  BY <1>4, FromDiskTyped DEF Reboot, WellPlaced
<1>5. CASE (\E s \in Scripts : CommandFails(s)) \/ UNCHANGED vars
  BY <1>5 DEF CommandFails, vars
<1>6. QED
  BY <1>1, <1>2, <1>3, <1>4, <1>5

\* A script that stays where it is, or ends or begins, knows what it knew.
LEMMA Untouched ==
    ASSUME WellPlaced, FactsLast, NEW s \in Scripts, Established(s),
           \/ pc'[s] = pc[s] /\ at'[s] = at[s]
           \/ pc'[s] \in Ended \cup {"check"}
    PROVE  Established(s)'
<1>1. CASE pc'[s] \in Ended \cup {"check"}
  BY <1>1 DEF Established, Ended, AfterSave, Saving
<1>2. CASE pc'[s] = pc[s] /\ at'[s] = at[s]
  <2>1. pc[s] \in Saving \cup {"remove", "link"} => \A i \in 1 .. at[s] : Units[i] \in Unit
    BY CleanupAssumption DEF WellPlaced, InLoop, OverUnits, Saving, Unit
  <2>2. at[s] \in Nat /\ at[s] - 1 <= at[s] /\ Len(Units) \in Nat /\ Len(Items) \in Nat
    BY CleanupAssumption DEF WellPlaced, TypeOK
  <2>3. pc[s] \in Saving \cup {"remove"} => \A i \in 1 .. at[s] - 1 : Units[i] \in Unit
    BY <2>1, <2>2
  <2>4. QED
    BY <1>2, <2>1, <2>3 DEF Established, FactsLast, AfterSave
<1>3. QED
  BY <1>1, <1>2

\* A step of one script leaves the others where they are.
LEMMA StepMovesOne ==
    ASSUME WellPlaced, NEW s \in Scripts, Step(s) \/ CommandFails(s)
    PROVE  \A r \in Scripts \ {s} : pc'[r] = pc[r] /\ at'[r] = at[r]
<1>1. DOMAIN pc = Scripts /\ DOMAIN at = Scripts
  BY DEF WellPlaced, TypeOK
<1>2. QED
  BY <1>1 DEF Step, CommandFails, Check, Save, Copy, Write, Disable, Stop, Query, Remove, Link,
     Reload, Move, Verify, Refuse, End, Goto, NextOf
-----------------------------------------------------------------------------
(* What a script knows after a step of its own.                            *)

\* A unit that is preserved is done with.
LEMMA SaveGoesOn ==
    ASSUME Inv, NEW s \in Scripts, FactsLast, pc[s] \in Saving,
           NEW u \in Unit, u = ThisUnit(s), Preserved(u)',
           NextOf(s, Units, "save", "disable")
    PROVE  Established(s)'
<1> USE DEF Inv, WellPlaced
<1>1. at[s] \in 1 .. Len(Units) /\ Len(Units) \in Nat /\ ThisUnit(s) = Units[at[s]]
  BY CleanupAssumption DEF InLoop, OverUnits, ThisUnit
<1>2. \A i \in 1 .. at[s] - 1 : Units[i] \in Unit
  BY <1>1 DEF Unit
<1>3. \A i \in 1 .. at[s] - 1 : Preserved(Units[i])'
  BY <1>1, <1>2 DEF Established, FactsLast
<1>5. \A i \in 1 .. at[s] : Preserved(Units[i])'
  BY <1>1, <1>3
<1>6. CASE at[s] < Len(Units)
  <2>1. pc'[s] = "save" /\ at'[s] = at[s] + 1
    BY <1>6 DEF NextOf, TypeOK
  <2>2. \A i \in 1 .. at'[s] - 1 : Preserved(Units[i])'
    BY <1>1, <1>5, <2>1
  <2>3. QED
    BY <2>1, <2>2 DEF Established, AfterSave, Saving
<1>7. CASE ~(at[s] < Len(Units))
  <2>1. pc'[s] = "disable"
    BY <1>7 DEF NextOf, Goto, TypeOK
  <2>2. at[s] = Len(Units)
    BY <1>1, <1>7
  <2>3. \A v \in Unit : Preserved(v)'
    BY <1>5, <2>2 DEF Unit
  <2>4. QED
    BY <2>1, <2>3 DEF Established, AfterSave, Saving
<1>8. QED
  BY <1>6, <1>7

\* A script that has yet to write the copy of its unit, or to make it, knows of
\* the units before.
LEMMA SaveGoesInto ==
    ASSUME Inv, NEW s \in Scripts, FactsLast, pc[s] \in Saving, pc'[s] \in Saving, at' = at
    PROVE  Established(s)'
<1> USE DEF Inv, WellPlaced
<1>1. at[s] \in 1 .. Len(Units) /\ Len(Units) \in Nat
  BY CleanupAssumption DEF InLoop, OverUnits
<1>2. \A i \in 1 .. at[s] - 1 : Units[i] \in Unit
  BY <1>1 DEF Unit
<1>3. \A i \in 1 .. at[s] - 1 : Preserved(Units[i])'
  BY <1>1, <1>2 DEF Established, FactsLast
<1>4. QED
  BY <1>3 DEF Established, AfterSave, Saving

LEMMA SaveEstablishes ==
    ASSUME Inv, NEW s \in Scripts, Save(s) \/ Copy(s) \/ Write(s), FactsLast
    PROVE  Established(s)'
<1> USE DEF Inv, WellPlaced
<1>1. pc[s] \in Saving
  BY DEF Save, Copy, Write, Saving
<1>2. PICK u \in Unit : u = ThisUnit(s)
  BY <1>1, CleanupAssumption DEF InLoop, OverUnits, ThisUnit, Unit
<1>3. CASE Refuse(s)
  <2>1. pc'[s] \in Ended
    BY <1>3 DEF Refuse, End, TypeOK, Ended
  <2>2. QED
    BY <2>1, Untouched
<1>4. CASE pc'[s] \in {"copy", "write"} /\ at' = at
  BY <1>1, <1>4, SaveGoesInto DEF Saving
<1>5. CASE NextOf(s, Units, "save", "disable") /\ Preserved(u)'
  BY <1>1, <1>2, <1>5, SaveGoesOn
<1>6. \/ Refuse(s)
      \/ pc'[s] \in {"copy", "write"} /\ at' = at
      \/ NextOf(s, Units, "save", "disable") /\ saved' = saved
         /\ (disk[u] # "file" \/ saved[u] = "full")
      \/ NextOf(s, Units, "save", "disable") /\ saved'[u] \in {"full", "overwritten"}
  BY <1>2 DEF Save, Copy, Write, TypeOK, backupVars
<1>7. disk[u] # "file" \/ saved[u] = "full" => Preserved(u)
  BY DEF NothingLost, Preserved
<1>8. QED
  BY <1>3, <1>4, <1>5, <1>6, <1>7 DEF FactsLast, Preserved

\* After the save, a script that stays before the masks knows the same.
LEMMA SavedStays ==
    ASSUME FactsLast, NEW s \in Scripts, Established(s), pc[s] \in AfterSave
    PROVE  \A u \in Unit : Preserved(u)'
BY DEF Established, FactsLast

LEMMA StopEstablishes ==
    ASSUME Inv, NEW s \in Scripts, Disable(s) \/ Stop(s) \/ Query(s), FactsLast
    PROVE  Established(s)'
<1>1. Established(s) /\ TypeOK
  BY DEF Inv, WellPlaced
<1>2. pc[s] \in AfterSave
  BY DEF Disable, Stop, Query, AfterSave
<1>3. \A u \in Unit : Preserved(u)'
  BY <1>1, <1>2, SavedStays
<1>4. \/ pc'[s] \in {"disable", "stop", "query"} \cup Ended
      \/ pc'[s] = "remove" /\ at'[s] = 1
  BY <1>1 DEF Disable, Stop, Query, Refuse, End, NextOf, Goto, TypeOK, Ended
<1>5. QED
  BY <1>3, <1>4 DEF Established, Ended, AfterSave, Saving

LEMMA MaskEstablishes ==
    ASSUME Inv, NEW s \in Scripts, Remove(s) \/ Link(s), FactsLast
    PROVE  Established(s)'
<1> USE DEF Inv, WellPlaced
<1>1. pc[s] \in AfterSave /\ pc[s] \in {"remove", "link"}
  BY DEF Remove, Link, AfterSave
<1>2. \A u \in Unit : Preserved(u)'
  BY <1>1, SavedStays
<1>3. at[s] \in 1 .. Len(Units) /\ Len(Units) \in Nat /\ ThisUnit(s) = Units[at[s]]
  BY <1>1, CleanupAssumption DEF InLoop, OverUnits, Saving, ThisUnit
<1>4. \A i \in 1 .. at[s] : Units[i] \in Unit
  BY <1>3 DEF Unit
<1>5. \A u \in Unit : u = ThisUnit(s) => Gone(u)'
  <2>1. CASE Remove(s)
    BY <2>1 DEF Remove, Gone, TypeOK
  <2>2. CASE Link(s)
    <3>1. Gone(ThisUnit(s))
      BY <1>3, <2>2 DEF Link, Established
    <3>2. QED
      BY <3>1 DEF FactsLast
  <2>3. QED
    BY <2>1, <2>2
<1>6. \A i \in 1 .. at[s] - 1 : Gone(Units[i])'
  BY <1>1, <1>3, <1>4 DEF Established, FactsLast
<1>7. \A i \in 1 .. at[s] : Gone(Units[i])'
  BY <1>3, <1>4, <1>5, <1>6
<1>8. CASE Remove(s)
  <2>1. pc'[s] = "link" /\ at'[s] = at[s]
    BY <1>8 DEF Remove, TypeOK
  <2>2. QED
    BY <1>2, <1>7, <2>1 DEF Established, AfterSave, Saving
<1>9. CASE Link(s)
  <2>1. CASE pc'[s] \in Ended
    BY <2>1, Untouched
  <2>2. CASE at[s] < Len(Units) /\ pc'[s] = "remove" /\ at'[s] = at[s] + 1
    <3>1. \A i \in 1 .. at'[s] - 1 : Gone(Units[i])'
      BY <1>3, <1>7, <2>2
    <3>2. QED
      BY <1>2, <2>2, <3>1 DEF Established, AfterSave, Saving
  <2>3. CASE ~(at[s] < Len(Units)) /\ pc'[s] = "reload"
    <3>1. at[s] = Len(Units)
      BY <1>3, <2>3
    <3>2. \A u \in Unit : Gone(u)'
      BY <1>7, <3>1 DEF Unit
    <3>3. QED
      BY <1>2, <2>3, <3>2 DEF Established, AfterSave, Saving
  <2>4. QED
    BY <1>9, <2>1, <2>2, <2>3 DEF Link, Refuse, End, NextOf, Goto, TypeOK, Ended
<1>10. QED
  BY <1>8, <1>9

LEMMA ReloadEstablishes ==
    ASSUME Inv, NEW s \in Scripts, Reload(s), FactsLast
    PROVE  Established(s)'
<1> USE DEF Inv, WellPlaced
<1>1. pc[s] = "reload" /\ pc'[s] = "move" /\ at'[s] = 1 /\ loaded' = FromDisk
  BY DEF Reload, Goto, TypeOK
<1>2. \A u \in Unit : Preserved(u)'
  BY <1>1, SavedStays DEF AfterSave
<1>3. \A u \in Unit : Gone(u) /\ Gone(u)'
  BY <1>1 DEF Established, FactsLast
<1>4. \A u \in Unit : Unloaded(u)'
  BY <1>1, <1>3, FromDiskTyped DEF Unloaded, Gone
<1>5. QED
  BY <1>1, <1>2, <1>3, <1>4 DEF Established, AfterSave, Saving

LEMMA MoveEstablishes ==
    ASSUME Inv, NEW s \in Scripts, Move(s), FactsLast
    PROVE  Established(s)'
<1> USE DEF Inv, WellPlaced
<1>1. /\ pc[s] = "move" /\ moved' = moved \cup {Items[at[s]]}
      /\ NextOf(s, Items, "move", "verify")
  BY DEF Move
<1>2. \A u \in Unit : Preserved(u)' /\ Gone(u)' /\ Unloaded(u)'
  BY <1>1 DEF Established, FactsLast, AfterSave
<1>3. at[s] \in 1 .. Len(Items) /\ Len(Items) \in Nat
  BY <1>1, CleanupAssumption DEF InLoop
<1>4. \A i \in 1 .. at[s] - 1 : Items[i] \in moved'
  BY <1>1 DEF Established
<1>5. \A i \in 1 .. at[s] : Items[i] \in moved'
  BY <1>1, <1>3, <1>4
<1>6. CASE at[s] < Len(Items)
  <2>1. pc'[s] = "move" /\ at'[s] = at[s] + 1
    BY <1>1, <1>6 DEF NextOf, TypeOK
  <2>2. \A i \in 1 .. at'[s] - 1 : Items[i] \in moved'
    BY <1>3, <1>5, <2>1
  <2>3. QED
    BY <1>2, <2>1, <2>2 DEF Established, AfterSave, Saving
<1>7. CASE ~(at[s] < Len(Items))
  <2>1. pc'[s] = "verify"
    BY <1>1, <1>7 DEF NextOf, Goto, TypeOK
  <2>2. at[s] = Len(Items)
    BY <1>3, <1>7
  <2>3. Item \subseteq moved'
    BY <1>5, <2>2 DEF Item
  <2>4. QED
    BY <1>2, <2>1, <2>3 DEF Established, AfterSave, Saving
<1>8. QED
  BY <1>6, <1>7

LEMMA StepEstablishes ==
    ASSUME Inv, NEW s \in Scripts, Step(s)
    PROVE  \A r \in Scripts : Established(r)'
<1> USE DEF Inv
<1>1. FactsLast
  BY StepFacts
<1>2. \A r \in Scripts \ {s} : Established(r)'
  BY <1>1, StepMovesOne, Untouched
<1>3. CASE Check(s)
  <2>1. \/ pc'[s] \in Ended
        \/ pc'[s] = "save" /\ at'[s] = 1
    BY <1>3 DEF Check, Refuse, End, Goto, WellPlaced, TypeOK, Ended
  <2>2. pc'[s] = "save" /\ at'[s] = 1 => Established(s)'
    BY DEF Established, AfterSave, Saving
  <2>3. QED
    BY <1>1, <1>2, <2>1, <2>2, Untouched
<1>4. CASE Verify(s)
  <2>1. pc'[s] \in Ended
    BY <1>4 DEF Verify, Refuse, End, WellPlaced, TypeOK, Ended
  <2>2. QED
    BY <1>1, <1>2, <2>1, Untouched
<1>5. Established(s)'
  BY <1>1, <1>3, <1>4, SaveEstablishes, StopEstablishes, MaskEstablishes, ReloadEstablishes,
     MoveEstablishes DEF Step
<1>6. QED
  BY <1>2, <1>5

LEMMA OthersEstablish ==
    ASSUME Inv,
           \/ Begin \/ Report \/ ReportUnhealthy \/ LoseClient
           \/ TriggerFires \/ HookFires \/ Forgets \/ Reboot
           \/ (\E s \in Scripts : CommandFails(s)) \/ UNCHANGED vars
    PROVE  \A r \in Scripts : Established(r)'
<1> USE DEF Inv
<1>1. FactsLast
  BY OtherFacts
<1>2. ASSUME NEW r \in Scripts
      PROVE  \/ pc'[r] = pc[r] /\ at'[r] = at[r]
             \/ pc'[r] \in Ended \cup {"check"}
  <2> USE DEF WellPlaced, TypeOK, Ended
  <2>1. CASE Begin
    BY <2>1 DEF Begin, Goto
  <2>2. CASE Report \/ ReportUnhealthy \/ LoseClient
    BY <2>2 DEF Report, ReportUnhealthy, Reports, LoseClient
  <2>3. CASE TriggerFires \/ HookFires \/ Forgets \/ UNCHANGED vars
    BY <2>3 DEF TriggerFires, HookFires, Forgets, vars
  <2>4. CASE Reboot
    BY <2>4 DEF Reboot, Runs
  <2>5. CASE \E s \in Scripts : CommandFails(s)
    BY <2>5 DEF CommandFails, End
  <2>6. QED
    BY <2>1, <2>2, <2>3, <2>4, <2>5
<1>3. QED
  BY <1>1, <1>2, Untouched
-----------------------------------------------------------------------------
(* Types and positions.                                                    *)

LEMMA StepPlaces ==
    ASSUME WellPlaced, NEW s \in Scripts, Step(s) \/ CommandFails(s)
    PROVE  /\ pc' \in [Scripts -> OverUnits \cup Ended
                                     \cup {"check", "reload", "move", "verify"}]
           /\ at' \in [Scripts -> 1 .. Len(Units) + Len(Items)]
           /\ \A r \in Scripts : InLoop(r)'
<1> USE DEF WellPlaced
<1>1. /\ Len(Units) \in Nat \ {0} /\ Len(Items) \in Nat \ {0}
      /\ \A i \in 1 .. Len(Units) + Len(Items) : i \in Nat
      /\ 1 \in 1 .. Len(Units) + Len(Items) /\ 1 \in 1 .. Len(Units) /\ 1 \in 1 .. Len(Items)
  BY CleanupAssumption
<1>2. /\ pc \in [Scripts -> OverUnits \cup Ended \cup {"check", "reload", "move", "verify"}]
      /\ at \in [Scripts -> 1 .. Len(Units) + Len(Items)]
  BY DEF TypeOK, OverUnits, Saving, Ended
<1>3. \A r \in Scripts \ {s} : InLoop(r)'
  BY StepMovesOne DEF InLoop
<1>4. CASE pc' = [pc EXCEPT ![s] = "stop"] /\ pc[s] = "disable" /\ at' = at
  BY <1>2, <1>3, <1>4 DEF InLoop, OverUnits, Saving
<1>5. CASE pc' = [pc EXCEPT ![s] = "query"] /\ pc[s] \in {"disable", "stop"} /\ at' = at
  BY <1>2, <1>3, <1>5 DEF InLoop, OverUnits, Saving
<1>6. CASE \/ pc' = [pc EXCEPT ![s] = "link"] /\ pc[s] = "remove" /\ at' = at
           \/ pc' = [pc EXCEPT ![s] = "copy"] /\ pc[s] = "save" /\ at' = at
           \/ pc' = [pc EXCEPT ![s] = "write"] /\ pc[s] = "copy" /\ at' = at
  BY <1>2, <1>3, <1>6 DEF InLoop, OverUnits, Saving
<1>7. CASE \E outcome \in {"failed", "ok"} : End(s, outcome)
  <2>1. pc'[s] \in Ended /\ at' = [at EXCEPT ![s] = 1]
    BY <1>2, <1>7 DEF End, Ended
  <2>2. pc' \in [Scripts -> OverUnits \cup Ended \cup {"check", "reload", "move", "verify"}]
    BY <1>2, <1>7 DEF End, Ended
  <2>3. InLoop(s)'
    BY <2>1 DEF InLoop, OverUnits, Saving, Ended
  <2>4. QED
    BY <1>1, <1>2, <1>3, <2>1, <2>2, <2>3
<1>8. CASE \E label \in {"save", "move"} : Goto(s, label)
  BY <1>1, <1>2, <1>3, <1>8 DEF Goto, InLoop, OverUnits, Saving
<1>9. CASE \/ NextOf(s, Units, "save", "disable") /\ pc[s] \in Saving
           \/ NextOf(s, Units, "disable", "remove") /\ pc[s] = "query"
           \/ NextOf(s, Units, "remove", "reload") /\ pc[s] = "link"
           \/ NextOf(s, Items, "move", "verify") /\ pc[s] = "move"
  <2>1. PICK list, first, after :
           /\ NextOf(s, list, first, after)
           /\ \/ list = Units /\ first \in OverUnits
                 /\ after \in {"disable", "remove", "reload"}
              \/ list = Items /\ first = "move" /\ after = "verify"
    BY <1>9 DEF OverUnits, Saving
  <2>2. /\ \/ /\ pc' = [pc EXCEPT ![s] = first]
              /\ at'[s] = at[s] + 1 /\ at[s] < Len(list)
           \/ /\ pc' = [pc EXCEPT ![s] = after]
              /\ at'[s] = 1
        /\ at' \in [Scripts -> 1 .. Len(Units) + Len(Items)]
    BY <2>1, NextRound
  <2>3. at[s] + 1 \in 1 .. Len(list) \/ ~(at[s] < Len(list))
    BY <1>1, <1>2, <2>1
  <2>4. pc' \in [Scripts -> OverUnits \cup Ended \cup {"check", "reload", "move", "verify"}]
    BY <1>2, <2>1, <2>2 DEF OverUnits, Saving
  <2>5. InLoop(s)'
    BY <1>1, <1>2, <2>1, <2>2, <2>3 DEF InLoop, OverUnits, Saving
  <2>6. QED
    BY <1>3, <2>2, <2>4, <2>5
<1>10. CASE Save(s) \/ Copy(s) \/ Write(s)
  BY <1>6, <1>7, <1>9, <1>10 DEF Save, Copy, Write, Refuse, Saving
<1>11. CASE Disable(s) \/ Stop(s) \/ Query(s)
  BY <1>4, <1>5, <1>7, <1>9, <1>11 DEF Disable, Stop, Query, Refuse
<1>12. CASE Remove(s) \/ Link(s)
  BY <1>6, <1>7, <1>9, <1>12 DEF Remove, Link, Refuse
<1>13. CASE Check(s) \/ Reload(s) \/ Move(s) \/ Verify(s) \/ CommandFails(s)
  BY <1>7, <1>8, <1>9, <1>13 DEF Check, Reload, Move, Verify, CommandFails, Refuse
<1>14. QED
  BY <1>10, <1>11, <1>12, <1>13 DEF Step

LEMMA OnlyFoundKept ==
    ASSUME OnlyFound, FactsLast
    PROVE  OnlyFound'
BY DEF OnlyFound, FactsLast

LEMMA StepWellPlaced ==
    ASSUME WellPlaced, NEW s \in Scripts, Step(s) \/ CommandFails(s)
    PROVE  WellPlaced'
<1> USE DEF WellPlaced
<1>1. FactsLast
  BY StepFacts, OtherFacts
<1>2. OnlyFound'
  BY <1>1, OnlyFoundKept
<1>3. /\ pc' \in [Scripts -> OverUnits \cup Ended \cup {"check", "reload", "move", "verify"}]
      /\ at' \in [Scripts -> 1 .. Len(Units) + Len(Items)]
      /\ \A r \in Scripts : InLoop(r)'
  BY StepPlaces
<1>4. UNCHANGED <<installed, foreign, hooked, caller, done>>
  BY DEF Step, CommandFails, Check, Save, Copy, Write, Disable, Stop, Query, Remove, Link,
     Reload, Move, Verify, aside, found, appVars
<1>5. disk' \in [Unit -> {"file", "mask", "absent"}]
  BY DEF Step, CommandFails, Check, Save, Copy, Write, Disable, Stop, Query, Remove, Link,
     Reload, Move, Verify, Refuse, TypeOK, unitVars
<1>6. loaded' \in [Unit -> {"loaded", "masked", "none"}]
  BY FromDiskTyped DEF Step, CommandFails, Check, Save, Copy, Write, Disable, Stop, Query,
     Remove, Link, Reload, Move, Verify, Refuse, TypeOK, unitVars
<1>7. enabled' \subseteq installed /\ active' \subseteq installed
  BY DEF Step, CommandFails, Check, Save, Copy, Write, Disable, Stop, Query, Remove, Link,
     Reload, Move, Verify, Refuse, TypeOK, unitVars
<1>8. saved' \in [Unit -> {"none", "torn", "overwritten", "full"}]
  BY DEF Step, CommandFails, Check, Save, Copy, Write, Disable, Stop, Query, Remove, Link,
     Reload, Move, Verify, Refuse, TypeOK, backupVars
<1>9. moved' \subseteq Item
  <2>1. CASE Move(s)
    <3>1. Items[at[s]] \in Item
      BY <2>1 DEF Move, InLoop, Item
    <3>2. QED
      BY <2>1, <3>1 DEF Move, TypeOK
  <2>2. CASE ~Move(s)
    BY <2>2 DEF Step, CommandFails, Check, Save, Copy, Write, Disable, Stop, Query, Remove,
       Link, Reload, Verify, Refuse, TypeOK, backupVars
  <2>3. QED
    BY <2>1, <2>2
<1>10. complete' \in BOOLEAN
  BY DEF Step, CommandFails, Check, Save, Copy, Write, Disable, Stop, Query, Remove, Link,
     Reload, Move, Verify, Refuse, TypeOK, backupVars
<1>11. QED
  BY <1>2, <1>3, <1>4, <1>5, <1>6, <1>7, <1>8, <1>9, <1>10 DEF TypeOK, OverUnits, Saving, Ended

LEMMA OthersWellPlaced ==
    ASSUME WellPlaced,
           \/ Begin \/ Report \/ ReportUnhealthy \/ LoseClient
           \/ TriggerFires \/ HookFires \/ Forgets \/ Reboot \/ UNCHANGED vars
    PROVE  WellPlaced'
<1> USE DEF WellPlaced
<1>1. OnlyFound'
  BY OtherFacts, OnlyFoundKept
<1>2. CASE Begin
  <2>1. PICK s \in Scripts : caller' = s /\ Goto(s, "check")
    BY <1>2 DEF Begin
  <2>2. at' \in [Scripts -> 1 .. Len(Units) + Len(Items)]
    BY <2>1, CleanupAssumption DEF Goto, TypeOK
  <2>3. \A r \in Scripts : InLoop(r)'
    BY <2>1, CleanupAssumption DEF Goto, TypeOK, InLoop, OverUnits, Saving
  <2>4. QED
    BY <1>1, <1>2, <2>1, <2>2, <2>3
       DEF Begin, Goto, TypeOK, aside, found, unitVars, backupVars
<1>3. CASE Report \/ ReportUnhealthy \/ LoseClient
  <2>1. UNCHANGED <<aside, unitVars, backupVars, at>>
    BY <1>3 DEF Report, ReportUnhealthy, Reports, LoseClient
  <2>2. \/ pc' = pc
        \/ pc' = [pc EXCEPT ![caller] = "idle"]
        \/ pc' = [pc EXCEPT ![caller] = IF Runs(caller) THEN pc[caller] ELSE "idle"]
    BY <1>3 DEF Report, ReportUnhealthy, Reports, LoseClient
  <2>3. /\ pc' \in [Scripts -> {"idle", "check", "save", "copy", "write", "disable", "stop", "query",
                               "remove", "link", "reload", "move", "verify", "ok", "failed"}]
        /\ \A r \in Scripts : pc'[r] = pc[r] \/ pc'[r] = "idle"
    BY <2>2 DEF TypeOK
  <2>4. caller' \in Scripts \cup {None} /\ done' \in BOOLEAN
    BY <1>3 DEF Report, ReportUnhealthy, Reports, LoseClient, TypeOK
  <2>5. \A r \in Scripts : InLoop(r)'
    BY <2>1, <2>3 DEF InLoop, OverUnits, Saving
  <2>6. QED
    BY <1>1, <2>1, <2>3, <2>4, <2>5 DEF TypeOK, aside, found, unitVars, backupVars
<1>4. CASE TriggerFires \/ HookFires
  <2>1. PICK u \in Unit : Startable(u) /\ active' = active \cup {u}
    BY <1>4, CleanupAssumption, TriggersFirst DEF TriggerFires, HookFires
  <2>2. u \in installed
    BY <2>1 DEF Startable, OnlyFound, Unloaded
  <2>3. hooked' \in BOOLEAN
    BY <1>4 DEF TriggerFires, HookFires, TypeOK, aside
  <2>4. QED
    BY <1>1, <1>4, <2>1, <2>2, <2>3
       DEF TriggerFires, HookFires, TypeOK, InLoop, aside, found, backupVars, appVars
<1>5. CASE Forgets
  BY <1>1, <1>5, FromDiskTyped
     DEF Forgets, TypeOK, InLoop, aside, found, backupVars, appVars
<1>6. CASE Reboot
  <2>1. UNCHANGED <<aside, disk, enabled, backupVars, appVars>> /\ loaded' = FromDisk
    BY <1>6 DEF Reboot
  <2>2. active' \subseteq installed
    BY <1>6 DEF Reboot, OnlyFound, Gone, TypeOK
  <2>3. at' \in [Scripts -> 1 .. Len(Units) + Len(Items)]
    BY <1>6, CleanupAssumption DEF Reboot
  <2>4. pc' \in [Scripts -> Ended]
    BY <1>6 DEF Reboot, TypeOK, Runs, Ended
  <2>5. \A r \in Scripts : InLoop(r)'
    BY <2>4 DEF InLoop, OverUnits, Saving, Ended
  <2>6. QED
    BY <1>1, <2>1, <2>2, <2>3, <2>4, <2>5, FromDiskTyped DEF TypeOK, aside, found, backupVars,
       appVars, Ended
<1>7. CASE UNCHANGED vars
  BY <1>1, <1>7 DEF vars, TypeOK, InLoop, aside, found, unitVars, backupVars, appVars
<1>8. QED
  BY <1>2, <1>3, <1>4, <1>5, <1>6, <1>7
-----------------------------------------------------------------------------
(* The properties.                                                         *)

LEMMA NothingLostKept ==
    ASSUME Inv, [Next]_vars
    PROVE  NothingLost'
<1> USE DEF Inv
<1>1. FactsLast
  BY StepFacts, OtherFacts DEF Next
<1>2. installed' = installed /\ installed \subseteq Unit
  BY <1>1 DEF FactsLast, WellPlaced, TypeOK
<1>3. \/ \A u \in Unit : disk[u] = "file" => disk'[u] = "file"
      \/ \E s \in Scripts : pc[s] \in AfterSave
  BY DEF Next, vars, Begin, Report, ReportUnhealthy, Reports, LoseClient, TriggerFires,
     HookFires, Forgets, Reboot, CommandFails, Step, Check, Save, Copy, Write, Disable, Stop,
     Query, Remove, Link, Reload, Move, Verify, Refuse, unitVars, AfterSave
<1>4. CASE \A u \in Unit : disk[u] = "file" => disk'[u] = "file"
  BY <1>1, <1>2, <1>4 DEF FactsLast, NothingLost, Preserved
<1>5. CASE \E s \in Scripts : pc[s] \in AfterSave
  BY <1>1, <1>2, <1>5 DEF FactsLast, NothingLost, Preserved, Established
<1>6. QED
  BY <1>3, <1>4, <1>5

LEMMA CompleteKept ==
    ASSUME Inv, [Next]_vars
    PROVE  CompleteIsFinal'
<1> USE DEF Inv
<1>1. FactsLast
  BY StepFacts, OtherFacts DEF Next
<1>2. moved' \subseteq Item
  BY StepWellPlaced, OthersWellPlaced DEF Next, WellPlaced, TypeOK
<1>3. CASE complete
  <2>1. active = {} /\ moved = Item /\ \A u \in Unit : Gone(u) /\ Unloaded(u)
    BY <1>3 DEF CompleteIsFinal, Gone, Unloaded
  <2>2. moved' = Item /\ \A u \in Unit : Gone(u)' /\ Unloaded(u)'
    BY <1>1, <1>2, <2>1 DEF FactsLast
  <2>3. active' = {}
    <3>1. ~TriggerFires /\ ~HookFires
      BY <2>1, CleanupAssumption DEF TriggerFires, HookFires, Startable, Unloaded
    <3>2. Reboot => active' = {}
      BY <2>1 DEF Reboot, Gone, WellPlaced, TypeOK
    <3>3. QED
      BY <2>1, <3>1, <3>2 DEF Next, vars, Begin, Report, ReportUnhealthy, Reports, LoseClient,
         Forgets, CommandFails, Step, Check, Save, Copy, Write, Disable, Stop, Query, Remove,
         Link, Reload, Move, Verify, Refuse, unitVars
  <2>4. QED
    BY <2>2, <2>3 DEF CompleteIsFinal, Gone, Unloaded
<1>4. CASE ~complete /\ complete'
  <2>1. PICK s \in Scripts : Verify(s) /\ active = {} /\ UNCHANGED unitVars
    BY <1>4 DEF Next, vars, Begin, Report, ReportUnhealthy, Reports, LoseClient, TriggerFires,
       HookFires, Forgets, Reboot, CommandFails, Step, Check, Save, Copy, Write, Disable, Stop,
       Query, Remove, Link, Reload, Move, Verify, Refuse, backupVars
  <2>2. Item \subseteq moved /\ \A u \in Unit : Gone(u) /\ Unloaded(u)
    BY <2>1 DEF Verify, Established
  <2>3. moved' = Item /\ \A u \in Unit : Gone(u)' /\ Unloaded(u)'
    BY <1>1, <1>2, <2>2 DEF FactsLast
  <2>4. QED
    BY <2>1, <2>3 DEF CompleteIsFinal, Gone, Unloaded, unitVars
<1>5. CASE ~complete'
  BY <1>5 DEF CompleteIsFinal
<1>6. QED
  BY <1>3, <1>4, <1>5 DEF WellPlaced, TypeOK

LEMMA InitInv == Init => Inv
<1> SUFFICES ASSUME Init PROVE Inv
  OBVIOUS
<1> USE DEF Init
<1>1. 1 \in 1 .. Len(Units) + Len(Items)
  BY CleanupAssumption
<1>2. TypeOK
  <2>1. disk \in [Unit -> {"file", "mask", "absent"}]
    OBVIOUS
  <2>2. loaded \in [Unit -> {"loaded", "masked", "none"}]
    BY <2>1 DEF FromDisk
  <2>3. QED
    BY <1>1, <2>1, <2>2 DEF TypeOK
<1>3. OnlyFound
  BY <1>2, FromDiskTyped DEF OnlyFound, Gone, Unloaded
<1>4. \A s \in Scripts : InLoop(s) /\ Established(s)
  BY DEF InLoop, Established, OverUnits, Saving, AfterSave
<1>5. NothingLost /\ CompleteIsFinal
  BY <1>2 DEF NothingLost, CompleteIsFinal, TypeOK
<1>6. QED
  BY <1>2, <1>3, <1>4, <1>5 DEF Inv, WellPlaced

\* The invariant holds through overlapping scripts, failing commands, lost
\* clients, restarted units and reboots.
THEOREM InvHolds == Spec => []Inv
<1>1. Inv /\ [Next]_vars => Inv'
  <2> SUFFICES ASSUME Inv, [Next]_vars PROVE Inv'
    OBVIOUS
  <2>1. WellPlaced'
    BY StepWellPlaced, OthersWellPlaced DEF Inv, Next
  <2>2. \A r \in Scripts : Established(r)'
    BY StepEstablishes, OthersEstablish DEF Next
  <2>3. QED
    BY <2>1, <2>2, NothingLostKept, CompleteKept DEF Inv
<1>2. QED
  BY <1>1, InitInv, PTL DEF Spec

\* Every variable of the cleanup keeps a value of its type, and every loop
\* of cleanup.sh stays within its list.
THEOREM TypeCorrect == Spec => []TypeOK
<1>1. Inv => TypeOK
  BY DEF Inv, WellPlaced
<1>2. QED
  BY <1>1, InvHolds, PTL

\* "Quarantine rather than erase" (cleanup.sh 2): wherever the scripts were cut
\* off, every unit file found is in its place or whole in the backup, unless a
\* script whose test was overtaken wrote over the copy of another one.
THEOREM NothingLostHolds == Spec => []NothingLost
<1>1. Inv => NothingLost
  BY DEF Inv
<1>2. QED
  BY <1>1, InvHolds, PTL

\* Once cleanup.sh has written "complete", no legacy unit runs or can be
\* started again, and all items are in the backup.
THEOREM CompleteIsFinalHolds == Spec => []CompleteIsFinal
<1>1. Inv => CompleteIsFinal
  BY DEF Inv
<1>2. QED
  BY <1>1, InvHolds, PTL

-----------------------------------------------------------------------------
(* Units stay stopped.                                                     *)

\* What a script has stopped before the command it is at.  No trigger runs
\* any more when the first service is stopped.
Stopped(s) ==
    /\ pc[s] \in {"disable", "stop", "query"} => \A i \in 1 .. at[s] - 1 : Units[i] \notin active
    /\ pc[s] \in {"remove", "link", "reload", "move", "verify"} => active = {}

StaysStopped == ~hooked => \A s \in Scripts : Stopped(s)

\* Nothing starts: what is stopped stays so.
LEMMA StoppedStays ==
    ASSUME NEW s \in Scripts, Stopped(s), pc'[s] = pc[s], at'[s] = at[s],
           active' \subseteq active
    PROVE  Stopped(s)'
BY DEF Stopped

\* A trigger that runs starts a service, which comes after all triggers.
LEMMA TriggerLeavesStopped ==
    ASSUME WellPlaced, NEW s \in Scripts, Stopped(s), TriggerFires
    PROVE  Stopped(s)'
<1>1. PICK t \in Trigger : t \in active /\ active' = active \cup {Activates[t]}
  BY CleanupAssumption DEF TriggerFires
<1>2. /\ UNCHANGED <<pc, at>>
      /\ Activates[t] \in Service
  BY CleanupAssumption DEF TriggerFires
<1>3. PICK i \in 1 .. Len(Triggers) : Units[i] = t
  BY TriggersFirst
<1>4. PICK k \in Len(Triggers) + 1 .. Len(Units) : Units[k] = Activates[t]
  BY <1>2, TriggersFirst
<1>5. CASE pc[s] \in {"disable", "stop", "query"}
  <2>1. at[s] \in 1 .. Len(Units) /\ Len(Units) \in Nat /\ Len(Triggers) \in Nat
    BY <1>5, TriggersFirst DEF WellPlaced, InLoop, OverUnits, Saving
  <2>2. i \notin 1 .. at[s] - 1
    BY <1>1, <1>3, <1>5 DEF Stopped
  <2>3. at[s] <= Len(Triggers)
    BY <1>3, <2>1, <2>2
  <2>4. \A j \in 1 .. at[s] - 1 : Units[j] # Units[k]
    BY <1>4, <2>1, <2>3, CleanupAssumption
  <2>5. QED
    BY <1>1, <1>2, <1>4, <1>5, <2>4 DEF Stopped
<1>6. CASE pc[s] \notin {"disable", "stop", "query"}
  BY <1>1, <1>2, <1>6 DEF Stopped
<1>7. QED
  BY <1>5, <1>6

\* A script goes on only when the unit it has just stopped does not run.
LEMMA QueryStops ==
    ASSUME WellPlaced, NEW s \in Scripts, Stopped(s), Query(s)
    PROVE  Stopped(s)'
<1>1. pc[s] = "query" /\ at[s] \in 1 .. Len(Units) /\ active \subseteq Unit
  BY DEF Query, WellPlaced, TypeOK, InLoop, OverUnits, Saving
<1>2. CASE ThisUnit(s) \in active
  <2>1. pc'[s] \in Ended
    BY <1>2 DEF Query, Refuse, End, WellPlaced, TypeOK, Ended
  <2>2. QED
    BY <2>1 DEF Stopped, Ended
<1>3. CASE ThisUnit(s) \notin active
  <2>1. NextOf(s, Units, "disable", "remove") /\ active' = active
    BY <1>3 DEF Query, unitVars
  <2>2. \A i \in 1 .. at[s] : Units[i] \notin active
    BY <1>1, <1>3 DEF Stopped, ThisUnit
  <2>3. \/ pc'[s] = "disable" /\ at'[s] = at[s] + 1
        \/ pc'[s] = "remove" /\ at[s] = Len(Units)
    BY <1>1, <2>1, NextRound DEF WellPlaced, TypeOK
  <2>4. CASE pc'[s] = "disable" /\ at'[s] = at[s] + 1
    BY <1>1, <2>1, <2>2, <2>4 DEF Stopped
  <2>5. CASE pc'[s] = "remove" /\ at[s] = Len(Units)
    <3>1. active = {}
      BY <1>1, <2>2, <2>5 DEF Unit
    <3>2. QED
      BY <2>1, <2>5, <3>1 DEF Stopped
  <2>6. QED
    BY <2>3, <2>4, <2>5
<1>4. QED
  BY <1>2, <1>3

LEMMA StepStops ==
    ASSUME WellPlaced, NEW s \in Scripts, Step(s), NEW r \in Scripts, Stopped(r)
    PROVE  Stopped(r)'
<1> USE DEF unitVars, backupVars, aside, found
<1>1. active' \subseteq active
  BY DEF Step, Check, Save, Copy, Write, Disable, Stop, Query, Remove, Link, Reload, Move,
     Verify, Refuse
<1>2. CASE r # s
  BY <1>1, <1>2, StepMovesOne, StoppedStays
<1>3. CASE r = s
  <2>1. CASE Check(s) \/ Save(s) \/ Copy(s) \/ Write(s)
    <3>1. pc[s] \in Saving \cup {"check"}
      BY <2>1 DEF Check, Save, Copy, Write, Saving
    <3>2. pc'[s] \in Saving \cup Ended \/ (pc'[s] = "disable" /\ at'[s] = 1)
      BY <2>1, NextRound DEF Check, Save, Copy, Write, Saving, Refuse, End, Goto, WellPlaced,
         TypeOK, Ended
    <3>3. QED
      BY <1>3, <3>2 DEF Stopped, Ended, Saving
  <2>2. CASE Disable(s) \/ Stop(s)
    <3>1. at' = at /\ pc[s] \in {"disable", "stop"} /\ pc'[s] \in {"stop", "query"}
      BY <2>2 DEF Disable, Stop, WellPlaced, TypeOK
    <3>2. QED
      BY <1>1, <1>3, <3>1 DEF Stopped
  <2>3. CASE Query(s)
    BY <1>3, <2>3, QueryStops
  <2>4. CASE Remove(s) \/ Link(s) \/ Reload(s) \/ Move(s) \/ Verify(s)
    <3>1. pc[s] \in {"remove", "link", "reload", "move", "verify"}
      BY <2>4 DEF Remove, Link, Reload, Move, Verify
    <3>2. pc'[s] \in Ended \cup {"remove", "link", "reload", "move", "verify"}
      BY <2>4, NextRound DEF Remove, Link, Reload, Move, Verify, Refuse, End, Goto, WellPlaced,
         TypeOK, Ended
    <3>3. QED
      BY <1>1, <1>3, <3>1, <3>2 DEF Stopped, Ended
  <2>5. QED
    BY <2>1, <2>2, <2>3, <2>4 DEF Step
<1>4. QED
  BY <1>2, <1>3

LEMMA OthersStop ==
    ASSUME WellPlaced, NEW r \in Scripts, Stopped(r), ~hooked',
           \/ Begin \/ Report \/ ReportUnhealthy \/ LoseClient
           \/ TriggerFires \/ HookFires \/ Forgets \/ Reboot
           \/ \E s \in Scripts : CommandFails(s)
    PROVE  Stopped(r)'
<1> USE DEF unitVars, backupVars, aside, found
<1>1. CASE Begin \/ Report \/ ReportUnhealthy \/ LoseClient \/ \E s \in Scripts : CommandFails(s)
  <2>1. active' = active
    BY <1>1 DEF Begin, Report, ReportUnhealthy, Reports, LoseClient, CommandFails
  <2>2. \/ pc'[r] = pc[r] /\ at'[r] = at[r]
        \/ pc'[r] \in Ended \cup {"check"}
    BY <1>1 DEF Begin, Report, ReportUnhealthy, Reports, LoseClient, CommandFails, End,
       Goto, Ended, Runs, WellPlaced, TypeOK
  <2>3. QED
    BY <2>1, <2>2 DEF Stopped, Ended
<1>2. CASE TriggerFires
  BY <1>2, TriggerLeavesStopped
<1>3. CASE HookFires
  BY <1>3 DEF HookFires
<1>4. CASE Forgets
  BY <1>4, StoppedStays DEF Forgets
<1>5. CASE Reboot
  <2>1. pc'[r] \in Ended
    BY <1>5 DEF Reboot, Runs, Ended
  <2>2. QED
    BY <2>1 DEF Stopped, Ended
<1>6. QED
  BY <1>1, <1>2, <1>3, <1>4, <1>5

LEMMA StaysStoppedStep == WellPlaced /\ StaysStopped /\ [Next]_vars => StaysStopped'
<1> SUFFICES ASSUME WellPlaced, StaysStopped, [Next]_vars, ~hooked',
                    NEW r \in Scripts
             PROVE  Stopped(r)'
  BY DEF StaysStopped
<1>1. CASE UNCHANGED vars
  BY <1>1 DEF vars, aside, unitVars, StaysStopped, Stopped
<1>2. CASE Next
  <2>1. hooked => hooked'
    BY <1>2 DEF Next, Begin, Report, ReportUnhealthy, Reports, LoseClient, TriggerFires,
       HookFires, Forgets, Reboot, Step, Check, Save, Copy, Write, Disable, Stop, Query, Remove,
       Link, Reload, Move, Verify, CommandFails, aside
  <2>2. Stopped(r)
    BY <2>1 DEF StaysStopped
  <2>3. QED
    BY <1>2, <2>2, StepStops, OthersStop DEF Next
<1>3. QED
  BY <1>1, <1>2

\* Programs are moved away only when no legacy unit runs (cleanup.sh, the
\* loops before the mv), unless a hook started one: neither a trigger nor a
\* reboot brings back what the script has stopped.
THEOREM MovesWhenStoppedHolds == Spec => MovesWhenStopped
<1>1. Init => StaysStopped
  BY DEF Init, StaysStopped, Stopped
<1>2. WellPlaced /\ StaysStopped /\ [Next]_vars
        => [moved' # moved /\ ~hooked => active = {}]_vars
  <2> SUFFICES ASSUME WellPlaced, StaysStopped, Next, moved' # moved, ~hooked
               PROVE  active = {}
    OBVIOUS
  <2>1. PICK s \in Scripts : Step(s)
    BY DEF Next, Begin, Report, ReportUnhealthy, Reports, LoseClient, TriggerFires,
       HookFires, Forgets, Reboot, CommandFails, backupVars
  <2>2. Move(s)
    BY <2>1 DEF Step, Check, Save, Copy, Write, Disable, Stop, Query, Remove, Link, Reload,
       Verify, Refuse, backupVars
  <2>3. QED
    BY <2>2 DEF Move, StaysStopped, Stopped
<1>3. Inv => WellPlaced
  BY DEF Inv
<1>4. QED
  BY <1>1, <1>2, <1>3, InvHolds, StaysStoppedStep, PTL DEF Spec, MovesWhenStopped
=============================================================================
