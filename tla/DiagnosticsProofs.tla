-------------------------- MODULE DiagnosticsProofs --------------------------
(***************************************************************************)
(* The history of events is honest for a ring of any capacity and any      *)
(* number of events.  The invariant HistoryInv relates the ring to all     *)
(* events there were, and the error that ends a session to its stage.      *)
(***************************************************************************)
EXTENDS Diagnostics, TLAPS

\* The set of the sequences the model calls events.
Events == Seq(Event)

\* A window is a history itself, and not longer than the ring.
LEMMA WindowShape ==
    ASSUME NEW past \in Events
    PROVE  Window(past) \in Seq(Event) /\ Len(Window(past)) <= Capacity
<1> DEFINE n == IF Len(past) < Capacity THEN Len(past) ELSE Capacity
           ring == Window(past)
<1>1. past \in Seq(Event) /\ Len(past) \in Nat /\ Capacity \in Nat
  BY DiagnosticsAssumption DEF Events
<1>2. n \in Nat /\ n <= Capacity /\ n <= Len(past)
  BY <1>1
<1>3. ring = [i \in 1 .. n |-> past[Len(past) - n + i]]
  BY DEF Window
<1>4. ASSUME NEW i \in 1 .. n PROVE past[Len(past) - n + i] \in Event
  <2>1. Len(past) - n + i \in 1 .. Len(past)
    BY <1>1, <1>2
  <2> HIDE DEF n
  <2> QED BY <1>1, <2>1
<1>5. ring \in [1 .. n -> Event]
  BY <1>3, <1>4
<1> HIDE DEF n, ring
<1>6. ring \in Seq(Event) /\ Len(ring) = n
  BY <1>2, <1>5
<1> QED BY <1>2, <1>6 DEF ring

\* A full ring makes room for an event as the window of a history moves on.
LEMMA WindowMoves ==
    ASSUME NEW past \in Events, NEW event \in Event
    PROVE  Kept(Window(past), event) = Window(Append(past, event))
<1> DEFINE n == IF Len(past) < Capacity THEN Len(past) ELSE Capacity
           next == Append(past, event)
           m == IF Len(next) < Capacity THEN Len(next) ELSE Capacity
           ring == Window(past)
<1>1. Capacity \in Nat /\ Capacity > 0
  BY DiagnosticsAssumption
<1>2. past \in Seq(Event) /\ Len(past) \in Nat
  BY DEF Events
<1>3. n \in Nat /\ n <= Capacity /\ n <= Len(past)
  BY <1>1, <1>2
<1>4. ring = [i \in 1 .. n |-> past[Len(past) - n + i]]
  BY DEF Window
<1>5. \A i \in 1 .. n : past[Len(past) - n + i] \in Event
  <2> TAKE i \in 1 .. n
  <2>1. Len(past) - n + i \in 1 .. Len(past)
    BY <1>2, <1>3
  <2> QED BY <1>2, <2>1
<1>6. ring \in Seq(Event) /\ Len(ring) = n
  <2>1. ring \in [1 .. n -> Event]
    BY <1>4, <1>5
  <2> HIDE DEF n, ring
  <2> QED BY <1>3, <2>1
<1>7. next \in Seq(Event) /\ Len(next) = Len(past) + 1
      /\ \A i \in 1 .. Len(next) : next[i] = IF i <= Len(past) THEN past[i] ELSE event
  BY <1>2
<1>8. Window(next) = [i \in 1 .. m |-> next[Len(next) - m + i]]
  BY DEF Window
<1>9. m \in Nat /\ m <= Len(next) /\ \A i \in 1 .. m : next[Len(next) - m + i] \in Event
  <2> DEFINE length == Len(next)
  <2>1. length \in Nat
    BY <1>2, <1>7
  <2>2. m \in Nat /\ m <= length
    BY <1>1, <2>1
  <2>3. ASSUME NEW i \in 1 .. m PROVE next[length - m + i] \in Event
    <3>1. length - m + i \in 1 .. length
      BY <2>1, <2>2
    <3> HIDE DEF next
    <3> QED BY <1>7, <3>1
  <2> QED BY <2>2, <2>3
<1>10. Window(next) \in Seq(Event) /\ Len(Window(next)) = m
  BY <1>8, <1>9
<1>11. CASE n = Capacity
  <2>1. m = n /\ Kept(ring, event) = Append(Tail(ring), event)
    BY <1>1, <1>2, <1>6, <1>7, <1>11 DEF Kept
  <2>2. Append(Tail(ring), event) \in Seq(Event) /\ Len(Append(Tail(ring), event)) = n
    BY <1>1, <1>6, <1>11
  <2>3. \A i \in 1 .. n : Append(Tail(ring), event)[i] = IF i < n THEN ring[i + 1] ELSE event
    BY <1>1, <1>6, <1>11
  <2>4. ASSUME NEW i \in 1 .. n
        PROVE  Window(next)[i] = IF i < n THEN ring[i + 1] ELSE event
    <3>1. Window(next)[i] = next[Len(past) + 1 - n + i]
      <4> HIDE DEF next, n, m
      <4>1. m = n
        BY <2>1
      <4>2. Window(next)[i] = next[Len(next) - m + i]
        BY <1>8, <4>1
      <4>3. Len(next) - m + i = Len(past) + 1 - n + i
        BY <1>2, <1>3, <1>7, <4>1
      <4> QED BY <4>2, <4>3
    <3>2. Len(past) + 1 - n + i \in 1 .. Len(past) + 1
      BY <1>2, <1>3
    <3>3. CASE i < n
      <4>1. ring[i + 1] = past[Len(past) - n + (i + 1)]
        BY <1>3, <1>4, <3>3
      <4>2. Len(past) + 1 - n + i <= Len(past) /\ Len(past) - n + (i + 1) = Len(past) + 1 - n + i
        BY <1>2, <1>3, <3>3
      <4> QED BY <1>7, <3>1, <3>2, <3>3, <4>1, <4>2
    <3>4. CASE ~(i < n)
      <4>1. Len(past) + 1 - n + i = Len(past) + 1
        BY <1>2, <1>3, <3>4
      <4> QED BY <1>2, <1>7, <3>1, <3>2, <3>4, <4>1
    <3> QED BY <3>3, <3>4
  <2>5. Append(Tail(ring), event) = Window(next)
    BY <1>10, <2>1, <2>2, <2>3, <2>4
  <2> QED BY <1>3, <1>6, <2>1, <2>5
<1>12. CASE n # Capacity
  <2>1. n = Len(past) /\ m = n + 1 /\ Kept(ring, event) = Append(ring, event)
    BY <1>1, <1>2, <1>6, <1>7, <1>12 DEF Kept
  <2>2. Append(ring, event) \in Seq(Event) /\ Len(Append(ring, event)) = m
    BY <1>6, <2>1
  <2>3. \A i \in 1 .. m : Append(ring, event)[i] = next[i]
    BY <1>3, <1>4, <1>6, <1>7, <2>1
  <2>4. \A i \in 1 .. m : Window(next)[i] = next[i]
    BY <1>7, <1>8, <2>1
  <2>5. Append(ring, event) = Window(next)
    BY <1>10, <2>1, <2>2, <2>3, <2>4
  <2> QED BY <1>3, <1>6, <2>1, <2>5
<1> QED BY <1>11, <1>12
-----------------------------------------------------------------------------
\* The first conjuncts type the variables.  HistoryInv needs of them that
\* only a session with an error is failing, and what that error can be.
HistoryInv ==
    /\ log \in Events /\ events = Window(log)
    /\ fail \in Seq({"mqtt_read", "ws_read"})
    /\ err \in STAGES \cup {None} /\ stage \in STAGES
    /\ (err # None => err \in Wrapped \cup {stage})
    /\ (phase = "failing" => err # None)
    /\ (phase = "measured" => err \in {None, "sensor_read"}
                               /\ stage \in {"sensor_read", "event_loop"})
    /\ (phase = "working" => err = None)
    /\ (phase \in {"gone", "recorded"} => err = None)

\* Snapshots are well typed and honest.
Honest(snapshot) ==
    snapshot = None \/ (snapshot \in Snapshot /\ snapshot.events = snapshot.due
                          /\ Len(snapshot.events) <= Capacity)

SnapshotInv ==
    /\ Honest(draft) /\ Honest(file)
    /\ record \in [data : Snapshot \cup {None}, error : BOOLEAN]
    /\ Honest(record.data)

DiagnosticsInv ==
    /\ HistoryInv /\ SnapshotInv
    /\ phase \in {"gone", "working", "measured", "failing", "recorded"}
    /\ reading \in BOOLEAN

LEMMA WindowOfNothing ==
    /\ << >> \in Events /\ Window(<< >>) = << >>
    /\ << >> \in Seq({"mqtt_read", "ws_read"})
<1>1. << >> \in Events /\ Window(<< >>) = << >>
  BY DiagnosticsAssumption DEF Window, Events
<1>2. \A S : << >> \in Seq(S)
  OBVIOUS
<1> QED BY <1>1, <1>2

\* Whatever adds an event that is blamed on what it is about keeps the ring
\* the window of the history.
LEMMA AddKeepsWindow ==
    ASSUME HistoryInv, NEW op \in STAGES, NEW kind \in KINDS, Add(op, op, kind)
    PROVE  log' \in Events /\ events' = Window(log')
<1> DEFINE event == [stage |-> op, kind |-> kind]
<1>1. event \in Event
  BY DEF Event
<1>2. log \in Events /\ events = Window(log)
  BY DEF HistoryInv
<1>3. events' = Kept(events, event) /\ log' = Append(log, event)
  BY DEF Add
<1>4. Append(log, event) \in Events
  BY <1>1, <1>2 DEF Events
<1>5. Kept(Window(log), event) = Window(Append(log, event))
  BY <1>1, <1>2, WindowMoves
<1> QED BY <1>2, <1>3, <1>4, <1>5

\* The set-up consists of stages.
LEMMA SetUpStages ==
    /\ Len(SetUp) \in Nat /\ Len(SetUp) >= 1
    /\ \A i \in 1 .. Len(SetUp) : SetUp[i] \in STAGES
<1>1. SetUp \in Seq(STAGES) /\ SetUp # << >>
  BY DiagnosticsAssumption DEF STAGES
<1> QED BY <1>1

LEMMA InitDiagnostics == Init => DiagnosticsInv
<1> SUFFICES ASSUME Init PROVE DiagnosticsInv
  OBVIOUS
<1>1. HistoryInv
  BY WindowOfNothing DEF Init, HistoryInv, STAGES
<1>2. SnapshotInv
  BY DEF Init, SnapshotInv, Honest
<1> QED BY <1>1, <1>2 DEF Init, DiagnosticsInv

\* The steps of the session goroutine and of the process.
LEMMA StepHistory ==
    ASSUME DiagnosticsInv, [Next]_vars
    PROVE  HistoryInv' /\ (phase \in {"gone", "working", "measured", "failing", "recorded"})'
           /\ (reading \in BOOLEAN)'
<1> USE DEF DiagnosticsInv
<1>1. ASSUME UNCHANGED <<session, history>> PROVE HistoryInv' /\ phase' = phase /\ reading' = reading
  BY <1>1 DEF HistoryInv, session, history
<1>2. CASE Begin
  BY <1>2, SetUpStages DEF Begin, HistoryInv, history
<1>3. CASE Proceed
  BY <1>3, SetUpStages DEF Proceed, HistoryInv, history, STAGES
<1>4. CASE ReadSensors
  <2>1. log' \in Events /\ events' = Window(log')
    <3>1. CASE Add("sensor_read", "sensor_read", "slow")
      BY <3>1, AddKeepsWindow DEF STAGES, KINDS
    <3>2. CASE UNCHANGED history
      BY <3>2 DEF HistoryInv, history
    <3> QED BY <1>4, <3>1, <3>2 DEF ReadSensors
  <2> QED BY <1>4, <2>1 DEF ReadSensors, HistoryInv, STAGES, Wrapped
<1>5. CASE Beat
  <2>1. log' \in Events /\ events' = Window(log')
    <3>1. CASE Add("heartbeat", "heartbeat", "delayed")
      BY <3>1, AddKeepsWindow DEF STAGES, KINDS
    <3>2. CASE UNCHANGED history
      BY <3>2 DEF HistoryInv, history
    <3> QED BY <1>5, <3>1, <3>2 DEF Beat
  <2> QED BY <1>5, <2>1 DEF Beat, HistoryInv, STAGES, Wrapped
<1>6. CASE Measured
  BY <1>6 DEF Measured, HistoryInv, history, STAGES, Wrapped
<1>7. CASE Return
  BY <1>7 DEF Return, HistoryInv, history, STAGES
<1>8. CASE Poll
  BY <1>8 DEF Poll, HistoryInv, history, STAGES
<1>9. CASE OperationFails
  <2>1. PICK op \in Operations(stage) : err' = op
    BY <1>9 DEF OperationFails
  <2>2. op \in STAGES /\ op \in Wrapped \cup {stage}
    BY <2>1 DEF Operations, STAGES, Wrapped
  <2>3. op # None
    BY <2>2, DiagnosticsAssumption
  <2> QED BY <1>9, <2>1, <2>2, <2>3 DEF OperationFails, HistoryInv, history
<1>10. CASE ReaderFails
  BY <1>10 DEF ReaderFails, HistoryInv, history
<1>11. CASE HearOfFailure
  <2>1. Head(fail) \in {"mqtt_read", "ws_read"} /\ Tail(fail) \in Seq({"mqtt_read", "ws_read"})
    BY <1>11 DEF HearOfFailure, HistoryInv
  <2>2. err' = Head(fail) /\ err' # None /\ err' \in STAGES /\ err' \in Wrapped
    BY <1>11, <2>1, DiagnosticsAssumption DEF HearOfFailure, STAGES, Wrapped
  <2> QED BY <1>11, <2>1, <2>2 DEF HearOfFailure, HistoryInv, history
<1>12. CASE Failure
  <2>1. err \in STAGES /\ Blamed = err
    BY <1>12 DEF Failure, HistoryInv, Blamed
  <2>2. log' \in Events /\ events' = Window(log')
    BY <1>12, <2>1, AddKeepsWindow DEF Failure, KINDS
  <2> QED BY <1>12, <2>2, WindowOfNothing DEF Failure, HistoryInv
<1>13. CASE Retry
  BY <1>13 DEF Retry, HistoryInv, history, STAGES
<1>14. CASE Start
  BY <1>14, WindowOfNothing DEF Start, HistoryInv, STAGES
<1>15. CASE Stop
  BY <1>15, WindowOfNothing DEF Stop, HistoryInv, history
<1>16. CASE TakeSnapshot \/ Publish \/ Refresh \/ Trouble \/ UNCHANGED vars
  BY <1>1, <1>16
     DEF TakeSnapshot, Publish, Refresh, Trouble, SshFails, WriteFails, vars
<1> QED
  BY <1>2, <1>3, <1>4, <1>5, <1>6, <1>7, <1>8, <1>9, <1>10, <1>11, <1>12, <1>13, <1>14,
     <1>15, <1>16
     DEF Next, Session

\* Snapshots are taken, published and fetched whole.
LEMMA StepSnapshots ==
    ASSUME DiagnosticsInv, [Next]_vars
    PROVE  SnapshotInv'
<1> USE DEF DiagnosticsInv
<1>1. ASSUME UNCHANGED <<draft, file, record>> PROVE SnapshotInv'
  BY <1>1 DEF SnapshotInv, Honest
<1>2. CASE Session \/ Start \/ UNCHANGED vars
  BY <1>1, <1>2
     DEF Session, Start, vars, Begin, Proceed, ReadSensors, Beat, Measured, Return, Poll,
         OperationFails, ReaderFails, HearOfFailure, Failure, Retry
<1>3. CASE TakeSnapshot
  <2>1. events \in Seq(Event) /\ Len(events) <= Capacity /\ events = Window(log)
    BY WindowShape DEF HistoryInv
  <2>2. Honest(draft')
    BY <1>3, <2>1 DEF TakeSnapshot, Honest, Snapshot, HistoryInv
  <2> QED BY <1>3, <2>2 DEF TakeSnapshot, SnapshotInv, Honest
<1>4. CASE Publish
  BY <1>4 DEF Publish, SnapshotInv, Honest
<1>5. CASE Refresh
  <2>1. CASE file # None /\ Accepted(file)
    BY <1>5, <2>1 DEF Refresh, SnapshotInv, Honest
  <2>2. CASE ~(file # None /\ Accepted(file))
    BY <1>5, <2>2 DEF Refresh, SnapshotInv, Honest
  <2> QED BY <2>1, <2>2
<1>6. CASE SshFails
  BY <1>6 DEF SshFails, SnapshotInv, Honest
<1>7. CASE WriteFails \/ Stop
  BY <1>7 DEF WriteFails, Stop, SnapshotInv, Honest
<1> QED BY <1>2, <1>3, <1>4, <1>5, <1>6, <1>7 DEF Next, Trouble

LEMMA Inductive == Spec => []DiagnosticsInv
<1>1. DiagnosticsInv /\ [Next]_vars => DiagnosticsInv'
  BY StepHistory, StepSnapshots DEF DiagnosticsInv
<1> QED BY InitDiagnostics, <1>1, PTL DEF Spec

\* The variables keep their types; in particular, neither the ring nor what
\* is shown of it ever holds more events than the app accepts.
THEOREM TypeCorrect == Spec => []TypeOK
<1>1. DiagnosticsInv => TypeOK
  BY WindowShape DEF DiagnosticsInv, HistoryInv, SnapshotInv, Honest, TypeOK, Events
<1> QED BY Inductive, <1>1, PTL

\* What the file and the page show are the last events there were when the
\* snapshot was taken, each failure blamed on the operation that failed, for
\* a ring of any capacity and any number of events.
THEOREM HistoryIsHonest == Spec => []HistoryHonest
<1>1. DiagnosticsInv => HistoryHonest
  BY DiagnosticsAssumption DEF DiagnosticsInv, SnapshotInv, Honest, HistoryHonest
<1> QED BY Inductive, <1>1, PTL
=============================================================================
