--------------------------- MODULE SessionProofs ---------------------------
(***************************************************************************)
(* The session of gateway_runtime/main.go keeps its promises for any       *)
(* number of overlapping sessions and commands and for all capacities:     *)
(* "ready" and "online" are said only while somebody listens, and a stored *)
(* or repeated command never reaches a mower.                              *)
(***************************************************************************)
EXTENDS GatewaySession, TLAPS

\* The stages at which the main goroutine has a session.
InSession == {"connect", "subscribe", "suback", "announce", "loop", "leaving", "closing"}

-----------------------------------------------------------------------------
(* Types.                                                                  *)

\* A slot is held for as long as a session lasts, and a reader that is
\* passing something on has it.
Typed ==
    /\ TypeOK
    /\ slot \in Slots <=> stage \in InSession
    /\ \A e \in Ends : reader[e] = "passing" => hand[e] \in Message

\* What a channel holds: its first element, the rest, and one more.
LEMMA FirstAndRest ==
    ASSUME NEW S, NEW q \in Seq(S), q # << >>
    PROVE  Head(q) \in S /\ Tail(q) \in Seq(S)
OBVIOUS

LEMMA OneMore ==
    ASSUME NEW S, NEW q \in Seq(S), NEW x \in S
    PROVE  Append(q, x) \in Seq(S)
OBVIOUS

\* What is left of it when its first n elements are thrown away.
LEMMA WithoutFirst ==
    ASSUME NEW S, NEW q \in Seq(S), NEW n \in Nat, n <= Len(q)
    PROVE  /\ SubSeq(q, n + 1, Len(q)) \in Seq(S)
           /\ Len(SubSeq(q, n + 1, Len(q))) = Len(q) - n
           /\ \A i \in 1 .. Len(q) - n : SubSeq(q, n + 1, Len(q))[i] = q[n + i]
OBVIOUS

LEMMA EndsOfSlot ==
    \A s \in Slots : <<s, "mqtt">> \in Ends /\ <<s, "ws">> \in Ends
BY DEF Ends, Links

LEMMA EndsArePairs ==
    \A e \in Ends : e[1] \in Slots /\ e[2] \in Links /\ e = <<e[1], e[2]>>
BY DEF Ends

LEMMA SaysTypes ==
    ASSUME Typed, NEW s \in Slots, NEW what \in {"online", "offline"}, Says(s, what)
    PROVE  toBroker' \in [Slots -> Seq({"online", "offline"})]
BY DEF Says, Typed, TypeOK

LEMMA ExecutesTypes ==
    ASSUME Typed, NEW c \in Commands, Executes(c)
    PROVE  executed' \in [Commands -> 0 .. 2]
<1>1. executed[c] \in 0 .. 2
    BY DEF Typed, TypeOK
<1>2. (IF executed[c] = 2 THEN 2 ELSE executed[c] + 1) \in 0 .. 2
    BY <1>1
<1> QED
    BY <1>2 DEF Executes, Typed, TypeOK

LEMMA ProcessGoneTypes ==
    ASSUME Typed, ProcessGone
    PROVE  /\ slot' = None
           /\ pending' \in [Commands -> {"no", "waiting", "late"}]
           /\ link' \in [Ends -> {"none", "open", "lost", "closed"}]
           /\ reader' = [e \in Ends |-> "none"]
           /\ inbox' \in [Ends -> Seq(Message)]
           /\ hand' \in [Ends -> Message \cup {None}]
           /\ queue' \in [Ends -> Seq(Message)]
           /\ failed' \in [Slots -> 0 .. FailCapacity]
           /\ done' \in [Slots -> BOOLEAN]
BY DEF ProcessGone, NoPending, FailCapacity, Typed, TypeOK

LEMMA InitTyped == Init => Typed
<1> SUFFICES ASSUME Init PROVE Typed
    OBVIOUS
<1>1. /\ stage = "stopped" /\ slot = None /\ stage \notin InSession
      /\ slot \notin Slots
    BY SessionAssumption DEF Init, InSession
<1>2. /\ broker \in [Slots -> {"gone", "connected", "asked", "subscribed"}]
      /\ availability \in {"online", "offline"}
    BY DEF Init
<1>3. toBroker \in [Slots -> Seq({"online", "offline"})]
    BY DEF Init
<1>4. /\ inbox \in [Ends -> Seq(Message)] /\ queue \in [Ends -> Seq(Message)]
      /\ hand \in [Ends -> Message \cup {None}]
      /\ \A e \in Ends : reader[e] = "none"
    BY DEF Init
<1>5. /\ failed \in [Slots -> 0 .. FailCapacity] /\ executed \in [Commands -> 0 .. 2]
      /\ pending \in [Commands -> {"no", "waiting", "late"}]
    BY DEF Init, NoPending, FailCapacity
<1> QED
    BY <1>1, <1>2, <1>3, <1>4, <1>5 DEF Init, Typed, TypeOK, Dead

\* The steps of the process, of the way to the loop and out of it.
LEMMA ProcessTyped ==
    ASSUME Typed, ServiceStart \/ ServiceStop \/ Crash \/ Restart \/ Begin \/ Exit
    PROVE  Typed'
<1> USE SessionAssumption DEF Dead, InSession
<1>1. CASE ServiceStart
    BY <1>1 DEF ServiceStart, Typed, TypeOK, readerVars, brokerVars, history
<1>2. CASE ServiceStop
    BY <1>2 DEF ServiceStop, Typed, TypeOK, readerVars, brokerVars, history
<1>3. CASE Crash
  <2>1. stage' \in Dead /\ ready' \in BOOLEAN /\ ProcessGone
    BY <1>3 DEF Crash, Typed, TypeOK
  <2> QED
    BY <1>3, <2>1, ProcessGoneTypes DEF Crash, Typed, TypeOK, brokerVars, history
<1>4. CASE Restart
    BY <1>4 DEF Restart, Typed, TypeOK, readerVars, brokerVars, history
<1>5. CASE Begin
    BY <1>5 DEF Begin, Typed, TypeOK, readerVars, brokerVars, history
<1>6. CASE Exit
    BY <1>6, ProcessGoneTypes DEF Exit, Typed, TypeOK, brokerVars, history
<1> QED
    BY <1>1, <1>2, <1>3, <1>4, <1>5, <1>6

LEMMA SetupTyped ==
    ASSUME Typed,
           OpenWebSocket \/ ConnectBroker \/ Subscribe \/ AwaitSuback \/ Announce \/ SetupFails
    PROVE  Typed'
<1> USE SessionAssumption DEF Dead, InSession
<1>1. CASE OpenWebSocket
  <2>1. slot' \in Slots /\ stage' = "connect"
    BY <1>1 DEF OpenWebSocket
  <2>2. link' \in [Ends -> {"none", "open", "lost", "closed"}]
    BY <1>1 DEF OpenWebSocket, Typed, TypeOK
  <2>3. inbox' \in [Ends -> Seq(Message)] /\ queue' \in [Ends -> Seq(Message)]
    BY <1>1 DEF OpenWebSocket, Typed, TypeOK
  <2>4. hand' \in [Ends -> Message \cup {None}]
    BY <1>1 DEF OpenWebSocket, Typed, TypeOK
  <2>5. failed' \in [Slots -> 0 .. FailCapacity] /\ done' \in [Slots -> BOOLEAN]
    BY <1>1 DEF OpenWebSocket, Typed, TypeOK, FailCapacity
  <2>6. \A e \in Ends : reader'[e] = "passing" => hand'[e] \in Message
    <3>1. PICK s \in Slots : Unused(s) /\ hand' = [e \in Ends |-> IF e[1] = s THEN None ELSE hand[e]]
        BY <1>1 DEF OpenWebSocket
    <3>2. \A e \in Ends : e[1] = s => reader[e] = "none"
      <4>1. \A l \in Links : reader[<<s, l>>] = "none"
        BY <3>1 DEF Unused
      <4> QED
        BY <4>1, EndsArePairs
    <3> QED
        BY <1>1, <3>1, <3>2 DEF OpenWebSocket, Typed
  <2> QED
    BY <1>1, <2>1, <2>2, <2>3, <2>4, <2>5, <2>6
       DEF OpenWebSocket, Typed, TypeOK, brokerVars, history
<1>2. CASE ConnectBroker
    BY <1>2, EndsOfSlot DEF ConnectBroker, SetLink, Typed, TypeOK, readerVars, history
<1>3. CASE Subscribe
    BY <1>3 DEF Subscribe, Typed, TypeOK, readerVars, history
<1>4. CASE AwaitSuback
  <2>1. inbox' \in [Ends -> Seq(Message)]
    <3>1. PICK n \in 0 .. Len(inbox[<<slot, "mqtt">>]) :
              inbox' = [inbox EXCEPT ![<<slot, "mqtt">>] = SubSeq(@, n + 1, Len(@))]
        BY <1>4 DEF AwaitSuback
    <3>2. inbox[<<slot, "mqtt">>] \in Seq(Message)
        BY <1>4, EndsOfSlot DEF AwaitSuback, Typed, TypeOK
    <3>3. SubSeq(inbox[<<slot, "mqtt">>], n + 1, Len(inbox[<<slot, "mqtt">>])) \in Seq(Message)
      <4>0. Len(inbox[<<slot, "mqtt">>]) \in Nat
        BY <3>2
      <4>1. n \in Nat /\ n <= Len(inbox[<<slot, "mqtt">>])
        BY <4>0
      <4> QED
        BY <3>2, <4>1, WithoutFirst
    <3> QED
        BY <3>1, <3>3 DEF Typed, TypeOK
  <2> QED
    BY <1>4, <2>1 DEF AwaitSuback, Typed, TypeOK, brokerVars, history
<1>5. CASE Announce
  <2>1. toBroker' \in [Slots -> Seq({"online", "offline"})]
    BY <1>5, SaysTypes DEF Announce, Typed, TypeOK
  <2>2. reader' \in [Ends -> {"none", "reading", "passing", "failing"}]
    BY <1>5 DEF Announce, Typed, TypeOK
  <2>3. \A e \in Ends : reader'[e] = "passing" => reader[e] = "passing"
    BY <1>5 DEF Announce, Typed, TypeOK
  <2> QED
    BY <1>5, <2>1, <2>2, <2>3 DEF Announce, Typed, TypeOK, history
<1>6. CASE SetupFails
    BY <1>6 DEF SetupFails, SetLink, Typed, TypeOK, readerVars, history
<1> QED
    BY <1>1, <1>2, <1>3, <1>4, <1>5, <1>6

\* The steps of the event loop and of the deferred calls.
LEMMA LoopTyped ==
    ASSUME Typed,
           Stops \/ LoopFails \/ Poll \/ Heartbeat \/ TakeCommand \/ ForwardFails \/ TakeEvent
             \/ (\E c \in Commands : DeadlinePasses(c))
    PROVE  Typed'
<1> USE SessionAssumption DEF Dead, InSession
<1>1. CASE Stops
  <2>1. failed' \in [Slots -> 0 .. FailCapacity]
    BY <1>1 DEF Stops, FailCapacity, Typed, TypeOK
  <2> QED
    BY <1>1, <2>1 DEF Stops, Leave, NoPending, Typed, TypeOK, brokerVars, history
<1>2. CASE LoopFails
    BY <1>2 DEF LoopFails, Leave, NoPending, Typed, TypeOK, readerVars, brokerVars, history
<1>3. CASE Poll
  <2>1. toBroker' \in [Slots -> Seq({"online", "offline"})]
    BY <1>3, SaysTypes DEF Poll, Typed, TypeOK
  <2> QED
    BY <1>3, <2>1 DEF Poll, Typed, TypeOK, readerVars, history
<1>4. CASE Heartbeat
    BY <1>4 DEF Heartbeat, Typed, TypeOK, readerVars, brokerVars, history
<1>5. CASE TakeCommand
  <2>1. /\ queue[<<slot, "mqtt">>] \in Seq(Message) /\ inbox[<<slot, "ws">>] \in Seq(Message)
        /\ <<slot, "mqtt">> \in Ends /\ <<slot, "ws">> \in Ends
    BY <1>5, EndsOfSlot DEF TakeCommand, Typed, TypeOK
  <2>2. First("mqtt") \in Message
    BY <1>5, <2>1, FirstAndRest DEF TakeCommand, First
  <2>3. queue' \in [Ends -> Seq(Message)]
    BY <1>5, <2>1, FirstAndRest DEF TakeCommand, Takes, Typed, TypeOK
  <2>4. Append(inbox[<<slot, "ws">>], First("mqtt")) \in Seq(Message)
    BY <2>1, <2>2, OneMore
  <2>5. inbox' \in [Ends -> Seq(Message)]
    BY <1>5, <2>4 DEF TakeCommand, Typed, TypeOK
  <2>6. First("mqtt").command \in Commands
    BY <2>2 DEF Message
  <2>7. CASE Accepts(First("mqtt"))
    <3>1. executed' \in [Commands -> 0 .. 2]
        BY <1>5, <2>6, <2>7, ExecutesTypes DEF TakeCommand
    <3>2. pending' \in [Commands -> {"no", "waiting", "late"}]
        BY <1>5, <2>6, <2>7 DEF TakeCommand, Typed, TypeOK
    <3> QED
        BY <1>5, <2>3, <2>5, <3>1, <3>2 DEF TakeCommand, Typed, TypeOK, brokerVars
  <2> QED
    BY <1>5, <2>3, <2>5, <2>7 DEF TakeCommand, Typed, TypeOK, brokerVars
<1>6. CASE ForwardFails
  <2>1. queue[<<slot, "mqtt">>] \in Seq(Message)
    BY <1>6, EndsOfSlot DEF ForwardFails, Typed, TypeOK
  <2>2. First("mqtt") \in Message
    BY <1>6, <2>1, FirstAndRest DEF ForwardFails, First
  <2>3. queue' \in [Ends -> Seq(Message)]
    BY <1>6, <2>1, FirstAndRest DEF ForwardFails, Takes, Typed, TypeOK
  <2>4. executed' \in [Commands -> 0 .. 2]
    <3>1. First("mqtt").command \in Commands
        BY <2>2 DEF Message
    <3> QED
        BY <1>6, <3>1, ExecutesTypes DEF ForwardFails, Typed, TypeOK
  <2> QED
    BY <1>6, <2>3, <2>4 DEF ForwardFails, Leave, NoPending, Typed, TypeOK, brokerVars
<1>7. CASE TakeEvent
  <2>1. queue[<<slot, "ws">>] \in Seq(Message)
    BY <1>7, EndsOfSlot DEF TakeEvent, Typed, TypeOK
  <2>2. queue' \in [Ends -> Seq(Message)]
    BY <1>7, <2>1, FirstAndRest DEF TakeEvent, Takes, Typed, TypeOK
  <2> QED
    BY <1>7, <2>2 DEF TakeEvent, Typed, TypeOK, brokerVars, history
<1>8. ASSUME NEW c \in Commands, DeadlinePasses(c) PROVE Typed'
    BY <1>8 DEF DeadlinePasses, Typed, TypeOK, readerVars, brokerVars, history
<1> QED
    BY <1>1, <1>2, <1>3, <1>4, <1>5, <1>6, <1>7, <1>8

LEMMA LeavingTyped ==
    ASSUME Typed, SayOffline \/ Close
    PROVE  Typed'
<1> USE SessionAssumption DEF Dead, InSession
<1>1. CASE SayOffline
  <2>1. toBroker' \in [Slots -> Seq({"online", "offline"})]
    BY <1>1, SaysTypes DEF SayOffline, Typed, TypeOK
  <2> QED
    BY <1>1, <2>1 DEF SayOffline, Typed, TypeOK, readerVars, history
<1>2. CASE Close
  <2>1. link' \in [Ends -> {"none", "open", "lost", "closed"}]
    BY <1>2 DEF Close, Typed, TypeOK
  <2>2. inbox' \in [Ends -> Seq(Message)]
    BY <1>2 DEF Close, Typed, TypeOK
  <2>3. slot' = None /\ None \notin Slots /\ stage' = "retry"
    BY <1>2 DEF Close
  <2> QED
    BY <1>2, <2>1, <2>2, <2>3 DEF Close, Typed, TypeOK, brokerVars, history
<1> QED
    BY <1>1, <1>2

\* The steps of a reader.
LEMMA ReaderTyped ==
    ASSUME Typed, NEW s \in Slots, NEW l \in Links, ReaderStep(s, l)
    PROVE  Typed'
<1> USE DEF mainVars
<1>1. <<s, l>> \in Ends /\ inbox[<<s, l>>] \in Seq(Message) /\ queue[<<s, l>>] \in Seq(Message)
    BY DEF Ends, Typed, TypeOK
<1>2. CASE ReaderReads(s, l)
  <2>1. hand'[<<s, l>>] \in Message /\ hand' \in [Ends -> Message \cup {None}]
    BY <1>1, <1>2, FirstAndRest DEF ReaderReads, Typed, TypeOK
  <2>2. inbox' \in [Ends -> Seq(Message)]
    BY <1>1, <1>2, FirstAndRest DEF ReaderReads, Typed, TypeOK
  <2>3. \A e \in Ends : reader'[e] = "passing" => hand'[e] \in Message
    BY <1>1, <1>2, <2>1 DEF ReaderReads, Typed, TypeOK
  <2> QED
    BY <1>1, <1>2, <2>1, <2>2, <2>3 DEF ReaderReads, Typed, TypeOK, brokerVars, history
<1>3. CASE ReaderPasses(s, l)
  <2>1. queue' \in [Ends -> Seq(Message)]
    BY <1>1, <1>3, OneMore DEF ReaderPasses, Typed, TypeOK
  <2>2. \A e \in Ends : reader'[e] = "passing" => hand'[e] \in Message
    BY <1>1, <1>3 DEF ReaderPasses, Typed, TypeOK
  <2> QED
    BY <1>1, <1>3, <2>1, <2>2 DEF ReaderPasses, Typed, TypeOK, brokerVars, history
<1>4. CASE ReaderIsTold(s, l)
    BY <1>1, <1>4 DEF ReaderIsTold, Typed, TypeOK, brokerVars, history
<1>5. CASE ReaderFails(s, l)
    BY <1>1, <1>5 DEF ReaderFails, Typed, TypeOK, brokerVars, history
<1>6. CASE ReaderReports(s, l)
  <2>1. failed' \in [Slots -> 0 .. FailCapacity]
    <3>1. failed[s] \in 0 .. 2
        BY DEF FailCapacity, Typed, TypeOK
    <3>2. failed[s] + 1 \in 0 .. 2
        BY <1>6, <3>1 DEF ReaderReports, FailCapacity
    <3> QED
        BY <1>6, <3>2 DEF ReaderReports, FailCapacity, Typed, TypeOK
  <2>2. reader' \in [Ends -> {"none", "reading", "passing", "failing"}]
    BY <1>6 DEF ReaderReports, Typed, TypeOK
  <2>3. \A e \in Ends : reader'[e] = "passing" => reader[e] = "passing"
    BY <1>1, <1>6 DEF ReaderReports, Typed, TypeOK
  <2> QED
    BY <1>6, <2>1, <2>2, <2>3 DEF ReaderReports, Typed, TypeOK, brokerVars, history
<1> QED
    BY <1>2, <1>3, <1>4, <1>5, <1>6 DEF ReaderStep

\* The steps of the network, the broker and the users.
LEMMA OutsideTyped ==
    ASSUME Typed, NEW s \in Slots,
           BrokerStep(s) \/ (\E l \in Links : LinkLost(s, l))
    PROVE  Typed'
<1> USE DEF mainVars
<1>1. ASSUME NEW l \in Links, LinkLost(s, l) PROVE Typed'
    BY <1>1 DEF LinkLost, SetLink, Typed, TypeOK, readerVars, brokerVars, history
<1>2. CASE BrokerSubscribes(s)
  <2>1. <<s, "mqtt">> \in Ends /\ inbox[<<s, "mqtt">>] \in Seq(Message)
    BY EndsOfSlot DEF Typed, TypeOK
  <2>2. ASSUME stored # None
        PROVE  Append(inbox[<<s, "mqtt">>], [command |-> stored, retained |-> TRUE]) \in Seq(Message)
    BY <2>1, <2>2, OneMore DEF Message, Typed, TypeOK
  <2>3. inbox' \in [Ends -> Seq(Message)]
    BY <1>2, <2>1, <2>2 DEF BrokerSubscribes, Typed, TypeOK
  <2> QED
    BY <1>2, <2>3 DEF BrokerSubscribes, Typed, TypeOK, history
<1>3. CASE BrokerReads(s)
  <2>1. toBroker[s] \in Seq({"online", "offline"})
    BY DEF Typed, TypeOK
  <2>2. availability' \in {"online", "offline"} /\ toBroker' \in [Slots -> Seq({"online", "offline"})]
    BY <1>3, <2>1, FirstAndRest DEF BrokerReads, Typed, TypeOK
  <2> QED
    BY <1>3, <2>2 DEF BrokerReads, Typed, TypeOK, readerVars, history
<1>4. CASE BrokerNotices(s)
  <2>1. toBroker' \in [Slots -> Seq({"online", "offline"})]
    BY <1>4 DEF BrokerNotices, Typed, TypeOK
  <2> QED
    BY <1>4, <2>1 DEF BrokerNotices, AfterWill, Typed, TypeOK, readerVars, history
<1> QED
    BY <1>1, <1>2, <1>3, <1>4 DEF BrokerStep

LEMMA PublishTyped ==
    ASSUME Typed, NEW c \in Commands, NEW retain \in BOOLEAN, Publish(c, retain)
    PROVE  Typed'
<1>1. \A e \in Ends : Append(inbox[e], [command |-> c, retained |-> FALSE]) \in Seq(Message)
    BY OneMore DEF Message, Typed, TypeOK
<1>2. inbox' \in [Ends -> Seq(Message)]
    BY <1>1 DEF Publish, Typed, TypeOK
<1> QED
    BY <1>2 DEF Publish, Typed, TypeOK, mainVars

\* The next-state relation as a list of its actions.
LEMMA NextByAction ==
    ASSUME Next
    PROVE  \/ ServiceStart \/ ServiceStop \/ Crash \/ Restart \/ Begin \/ Exit
           \/ OpenWebSocket \/ ConnectBroker \/ Subscribe \/ AwaitSuback \/ Announce \/ SetupFails
           \/ Stops \/ LoopFails \/ Poll \/ Heartbeat \/ TakeCommand \/ ForwardFails \/ TakeEvent
           \/ \E c \in Commands : DeadlinePasses(c)
           \/ SayOffline \/ Close
           \/ \E s \in Slots : \E l \in Links : ReaderStep(s, l)
           \/ \E s \in Slots : \E l \in Links : LinkLost(s, l)
           \/ \E s \in Slots : BrokerStep(s)
           \/ \E c \in Commands : \E retain \in BOOLEAN : Publish(c, retain)
BY DEF Next, SetupStep, TakeStep, EndStep, Fails

LEMMA TypedStep == Typed /\ [Next]_vars => Typed'
<1> SUFFICES ASSUME Typed, [Next]_vars PROVE Typed'
    OBVIOUS
<1>1. CASE UNCHANGED vars
    BY <1>1 DEF vars, mainVars, readerVars, brokerVars, history, Typed, TypeOK
<1>2. CASE Next
    BY <1>2, NextByAction, ProcessTyped, SetupTyped, LoopTyped, LeavingTyped, ReaderTyped,
       OutsideTyped, PublishTyped
<1> QED
    BY <1>1, <1>2

LEMMA TypedHolds == Spec => []Typed
BY InitTyped, TypedStep, PTL DEF Spec

\* Every variable keeps a value of its type, for any slots, commands and
\* capacities: among others the channel fail never holds more than two errors.
THEOREM TypeCorrect == Spec => []TypeOK
<1>1. Typed => TypeOK
    BY DEF Typed
<1> QED
    BY <1>1, TypedHolds, PTL

-----------------------------------------------------------------------------
(* What the service says of itself.                                        *)

\* The current session, if its connection stands, is subscribed.
Serves == Open(slot, "mqtt") => broker[slot] = "subscribed"

\* "ready" is written when the subscription was accepted, and taken back
\* before the next session begins.
ReadyAtStage ==
    /\ stage \in {"api", "connect", "subscribe", "suback", "announce", "closing", "retry"} => ~ready
    /\ stage \in {"announce", "loop"} => Serves
    /\ stage = "leaving" /\ ready => Serves

\* What is under way to the broker on a connection.
OnTheStream(s) == {toBroker[s][i] : i \in 1 .. Len(toBroker[s])}

\* Only the current session has an open connection, which the broker knows;
\* a client that says "online" is subscribed.
Connections ==
    /\ \A s \in Slots : Open(s, "mqtt") => s = slot /\ broker[s] # "gone"
    /\ \A s \in Slots : broker[s] = "gone" => toBroker[s] = << >>
    /\ \A s \in Slots : "online" \in OnTheStream(s) => broker[s] = "subscribed"
    /\ stage = "connect" => broker[slot] = "gone"
    /\ stage = "subscribe" => broker[slot] \in {"connected", "gone"}

SaysWhatIs == ReadyAtStage /\ Connections

\* What a stream holds when a message is added or its first one is read.
LEMMA StreamGrows ==
    ASSUME Typed, NEW s \in Slots, NEW what \in {"online", "offline"}, Says(s, what)
    PROVE  /\ \A t \in Slots \ {s} : toBroker'[t] = toBroker[t]
           /\ ~Open(s, "mqtt") => toBroker' = toBroker
           /\ OnTheStream(s)' \subseteq OnTheStream(s) \cup {what}
<1>1. toBroker[s] \in Seq({"online", "offline"}) /\ toBroker \in [Slots -> Seq({"online", "offline"})]
    BY DEF Typed, TypeOK
<1>2. CASE Open(s, "mqtt")
  <2>1. toBroker'[s] = Append(toBroker[s], what)
    BY <1>1, <1>2 DEF Says
  <2>2. Len(toBroker'[s]) = Len(toBroker[s]) + 1
    BY <1>1, <2>1
  <2>3. ASSUME NEW i \in 1 .. Len(toBroker'[s])
        PROVE  toBroker'[s][i] \in OnTheStream(s) \cup {what}
    BY <1>1, <2>1, <2>2 DEF OnTheStream
  <2> QED
    BY <1>1, <1>2, <2>3 DEF Says, OnTheStream
<1>3. CASE ~Open(s, "mqtt")
    BY <1>1, <1>3 DEF Says, OnTheStream
<1> QED
    BY <1>2, <1>3

LEMMA StreamShrinks ==
    ASSUME Typed, NEW s \in Slots, toBroker[s] # << >>,
           toBroker' = [toBroker EXCEPT ![s] = Tail(@)]
    PROVE  /\ \A t \in Slots \ {s} : toBroker'[t] = toBroker[t]
           /\ OnTheStream(s)' \subseteq OnTheStream(s)
           /\ Head(toBroker[s]) \in OnTheStream(s)
<1>1. toBroker[s] \in Seq({"online", "offline"}) /\ toBroker'[s] = Tail(toBroker[s])
    BY DEF Typed, TypeOK
<1>2. /\ Len(Tail(toBroker[s])) = Len(toBroker[s]) - 1
      /\ \A i \in 1 .. Len(Tail(toBroker[s])) : Tail(toBroker[s])[i] = toBroker[s][i + 1]
      /\ Head(toBroker[s]) = toBroker[s][1] /\ Len(toBroker[s]) \in Nat \ {0}
    BY <1>1
<1>3. \A i \in 1 .. Len(Tail(toBroker[s])) : i + 1 \in 1 .. Len(toBroker[s])
    BY <1>2
<1> QED
    BY <1>1, <1>2, <1>3 DEF OnTheStream, Typed, TypeOK

LEMMA InitSaysWhatIs == Init => SaysWhatIs
BY DEF Init, SaysWhatIs, ReadyAtStage, Connections, OnTheStream, Open, Ends, Links

\* Steps that touch neither the connection to the broker nor the status.
LEMMA SameConnections ==
    ASSUME SaysWhatIs, UNCHANGED <<stage, slot, ready, link, broker, toBroker>>
    PROVE  SaysWhatIs'
BY DEF SaysWhatIs, ReadyAtStage, Connections, OnTheStream, Open, Serves

\* ... or leave it to the stage alone.
LEMMA StageOnly ==
    ASSUME Connections, UNCHANGED <<slot, link, broker, toBroker>>,
           stage' \notin {"connect", "subscribe"}
    PROVE  Connections' /\ (Serves => Serves')
BY DEF Connections, OnTheStream, Open, Serves

LEMMA ProcessSaysWhatIs ==
    ASSUME Typed, SaysWhatIs,
           ServiceStart \/ ServiceStop \/ Crash \/ Restart \/ Begin \/ Exit
    PROVE  SaysWhatIs'
<1>1. ASSUME ProcessGone
      PROVE  \A s \in Slots : ~Open(s, "mqtt")'
    BY <1>1, EndsOfSlot DEF ProcessGone, Open
<1>2. CASE ServiceStart
    BY <1>2, StageOnly DEF ServiceStart, SaysWhatIs, ReadyAtStage, brokerVars
<1>3. CASE ServiceStop
  <2>1. CASE stage = "crashed"
    BY <1>3, <2>1, StageOnly DEF ServiceStop, SaysWhatIs, ReadyAtStage, brokerVars
  <2>2. CASE stage # "crashed"
    BY <1>3, <2>2, SameConnections DEF ServiceStop, brokerVars
  <2> QED
    BY <2>1, <2>2
<1>4. CASE Crash
  <2>1. stage' \in Dead /\ UNCHANGED <<broker, toBroker>>
    BY <1>4 DEF Crash, Dead, brokerVars
  <2> QED
    BY <1>1, <1>4, <2>1 DEF Crash, Dead, SaysWhatIs, ReadyAtStage, Connections, OnTheStream
<1>5. CASE Restart
    BY <1>5, StageOnly DEF Restart, SaysWhatIs, ReadyAtStage, brokerVars
<1>6. CASE Begin
    BY <1>6, StageOnly DEF Begin, SaysWhatIs, ReadyAtStage, brokerVars
<1>7. CASE Exit
  <2>1. stage' = "stopped" /\ UNCHANGED <<broker, toBroker>>
    BY <1>7 DEF Exit, brokerVars
  <2> QED
    BY <1>1, <1>7, <2>1 DEF Exit, SaysWhatIs, ReadyAtStage, Connections, OnTheStream
<1> QED
    BY <1>2, <1>3, <1>4, <1>5, <1>6, <1>7

LEMMA OpenWebSocketSaysWhatIs == Typed /\ SaysWhatIs /\ OpenWebSocket => SaysWhatIs'
<1> SUFFICES ASSUME Typed, SaysWhatIs, OpenWebSocket PROVE SaysWhatIs'
    OBVIOUS
<1>1. PICK s \in Slots :
          /\ Unused(s) /\ slot' = s
          /\ link' = [link EXCEPT ![<<s, "ws">>] = "open", ![<<s, "mqtt">>] = "none"]
    BY DEF OpenWebSocket
<1>2. slot \notin Slots
    BY DEF OpenWebSocket, Typed, InSession
<1>3. \A t \in Slots : ~Open(t, "mqtt")
    BY <1>2 DEF SaysWhatIs, Connections
<1>4. \A t \in Slots : ~Open(t, "mqtt")'
    BY <1>1, <1>3, EndsOfSlot DEF Open, Typed, TypeOK
<1>5. broker'[slot'] = "gone" /\ UNCHANGED <<broker, toBroker>>
    BY <1>1 DEF OpenWebSocket, Unused, brokerVars
<1>6. Connections'
    BY <1>4, <1>5 DEF OpenWebSocket, SaysWhatIs, Connections, OnTheStream
<1> QED
    BY <1>6 DEF OpenWebSocket, SaysWhatIs, ReadyAtStage

LEMMA ConnectBrokerSaysWhatIs == Typed /\ SaysWhatIs /\ ConnectBroker => SaysWhatIs'
<1> SUFFICES ASSUME Typed, SaysWhatIs, ConnectBroker PROVE SaysWhatIs'
    OBVIOUS
<1>1. slot \in Slots /\ slot' = slot /\ toBroker' = toBroker
    BY DEF ConnectBroker, Typed, InSession
<1>2. broker[slot] = "gone" /\ toBroker[slot] = << >>
    BY <1>1 DEF ConnectBroker, SaysWhatIs, Connections
<1>3. \A t \in Slots : Open(t, "mqtt")' => t = slot
    BY <1>1, EndsOfSlot DEF ConnectBroker, SetLink, SaysWhatIs, Connections, Open, Typed, TypeOK
<1>4. /\ broker'[slot] = "connected"
      /\ \A t \in Slots \ {slot} : broker'[t] = broker[t]
    BY <1>1 DEF ConnectBroker, Typed, TypeOK
<1>5. OnTheStream(slot)' = {}
    BY <1>1, <1>2 DEF OnTheStream
<1>6. Connections'
    BY <1>1, <1>3, <1>4, <1>5 DEF ConnectBroker, SaysWhatIs, Connections, OnTheStream
<1> QED
    BY <1>6 DEF ConnectBroker, SaysWhatIs, ReadyAtStage

LEMMA SubscribeSaysWhatIs == Typed /\ SaysWhatIs /\ Subscribe => SaysWhatIs'
<1> SUFFICES ASSUME Typed, SaysWhatIs, Subscribe PROVE SaysWhatIs'
    OBVIOUS
<1>1. /\ slot \in Slots /\ UNCHANGED <<slot, link, toBroker, ready>>
      /\ broker[slot] \in {"connected", "gone"}
    BY DEF Subscribe, Typed, InSession, SaysWhatIs, Connections
<1>2. "online" \notin OnTheStream(slot)
    BY <1>1 DEF SaysWhatIs, Connections
<1>3. /\ broker'[slot] = IF Open(slot, "mqtt") THEN "asked" ELSE broker[slot]
      /\ \A t \in Slots \ {slot} : broker'[t] = broker[t]
    BY <1>1 DEF Subscribe, Typed, TypeOK
<1>4. broker'[slot] = "gone" => broker[slot] = "gone"
    BY <1>3
<1>5. Connections'
    BY <1>1, <1>2, <1>3, <1>4 DEF Subscribe, SaysWhatIs, Connections, OnTheStream, Open
<1> QED
    BY <1>5 DEF Subscribe, SaysWhatIs, ReadyAtStage

LEMMA AwaitSubackSaysWhatIs == Typed /\ SaysWhatIs /\ AwaitSuback => SaysWhatIs'
<1> SUFFICES ASSUME Typed, SaysWhatIs, AwaitSuback PROVE SaysWhatIs'
    OBVIOUS
<1>1. Connections' /\ Serves'
    BY StageOnly DEF AwaitSuback, SaysWhatIs, Serves, brokerVars
<1> QED
    BY <1>1 DEF AwaitSuback, SaysWhatIs, ReadyAtStage

\* A message that may be said leaves the connections as they are.
LEMMA SaysKeepsConnections ==
    ASSUME Typed, Connections, slot \in Slots,
           NEW what \in {"online", "offline"}, Says(slot, what),
           what = "online" => Serves,
           UNCHANGED <<slot, link, broker>>, stage' \notin {"connect", "subscribe"}
    PROVE  Connections' /\ (Serves => Serves')
<1>1. CASE Open(slot, "mqtt")
  <2>1. \A s \in Slots : "online" \in OnTheStream(s)' => broker[s] = "subscribed"
    <3>1. \A s \in Slots \ {slot} : OnTheStream(s)' = OnTheStream(s)
        BY StreamGrows DEF OnTheStream
    <3>2. OnTheStream(slot)' \subseteq OnTheStream(slot) \cup {what}
        BY StreamGrows
    <3> QED
        BY <1>1, <3>1, <3>2 DEF Connections, Serves
  <2>2. \A s \in Slots : broker[s] = "gone" => s # slot
    BY <1>1 DEF Connections
  <2> QED
    BY <2>1, <2>2, StreamGrows DEF Connections, Serves, Open
<1>2. CASE ~Open(slot, "mqtt")
    BY <1>2, StreamGrows, StageOnly
<1> QED
    BY <1>1, <1>2

LEMMA AnnounceSaysWhatIs == Typed /\ SaysWhatIs /\ Announce => SaysWhatIs'
<1> SUFFICES ASSUME Typed, SaysWhatIs, Announce PROVE SaysWhatIs'
    OBVIOUS
<1>1. slot \in Slots /\ Serves
    BY DEF Announce, Typed, InSession, SaysWhatIs, ReadyAtStage
<1>2. Connections' /\ Serves'
    BY <1>1, SaysKeepsConnections DEF Announce, SaysWhatIs
<1> QED
    BY <1>2 DEF Announce, SaysWhatIs, ReadyAtStage

LEMMA SetupFailsSaysWhatIs == Typed /\ SaysWhatIs /\ SetupFails => SaysWhatIs'
<1> SUFFICES ASSUME Typed, SaysWhatIs, SetupFails PROVE SaysWhatIs'
    OBVIOUS
<1>1. ~ready /\ ready' = ready /\ stage' \in {"retry", "closing", "leaving"}
    BY DEF SetupFails, SaysWhatIs, ReadyAtStage
<1>2. CASE UNCHANGED <<link, broker>>
    BY <1>1, <1>2, StageOnly DEF SetupFails, SaysWhatIs, ReadyAtStage
<1>3. CASE stage = "connect" /\ SetLink(slot, "mqtt", "closed")
           /\ broker' = [broker EXCEPT ![slot] = "connected"]
  <2>1. slot \in Slots /\ slot' = slot /\ toBroker' = toBroker
    BY <1>3 DEF SetupFails, Typed, InSession
  <2>2. broker[slot] = "gone" /\ OnTheStream(slot) = {}
    BY <1>3, <2>1 DEF SaysWhatIs, Connections, OnTheStream
  <2>3. \A t \in Slots : Open(t, "mqtt")' => t # slot /\ Open(t, "mqtt")
    BY <1>3, <2>1, EndsOfSlot DEF SetLink, Open, Typed, TypeOK
  <2>4. /\ broker'[slot] = "connected"
        /\ \A t \in Slots \ {slot} : broker'[t] = broker[t]
    BY <1>3, <2>1 DEF Typed, TypeOK
  <2> QED
    BY <1>1, <2>1, <2>2, <2>3, <2>4 DEF SaysWhatIs, ReadyAtStage, Connections, OnTheStream
<1> QED
    BY <1>2, <1>3 DEF SetupFails

\* The session returns: only its stage changes, and that nobody waits.
LEMMA LeaveSaysWhatIs ==
    ASSUME Typed, SaysWhatIs, stage = "loop", stage' = "leaving",
           UNCHANGED <<slot, ready, link, broker, toBroker>>
    PROVE  SaysWhatIs'
BY StageOnly DEF SaysWhatIs, ReadyAtStage

LEMMA LoopSaysWhatIs ==
    ASSUME Typed, SaysWhatIs,
           Stops \/ LoopFails \/ Poll \/ Heartbeat \/ TakeCommand \/ ForwardFails \/ TakeEvent
             \/ (\E c \in Commands : DeadlinePasses(c))
    PROVE  SaysWhatIs'
<1>1. CASE Stops
    BY <1>1, LeaveSaysWhatIs DEF Stops, Leave, brokerVars
<1>2. CASE LoopFails
    BY <1>2, LeaveSaysWhatIs DEF LoopFails, Leave, brokerVars
<1>3. CASE Poll
  <2>1. slot \in Slots /\ Serves
    BY <1>3 DEF Poll, Typed, InSession, SaysWhatIs, ReadyAtStage
  <2>2. Connections' /\ Serves'
    BY <1>3, <2>1, SaysKeepsConnections DEF Poll, SaysWhatIs
  <2> QED
    BY <1>3, <2>2 DEF Poll, SaysWhatIs, ReadyAtStage
<1>4. CASE Heartbeat
    BY <1>4, SameConnections DEF Heartbeat, brokerVars
<1>5. CASE TakeCommand
    BY <1>5, SameConnections DEF TakeCommand, brokerVars
<1>6. CASE ForwardFails
    BY <1>6, LeaveSaysWhatIs DEF ForwardFails, Leave, brokerVars
<1>7. CASE TakeEvent
    BY <1>7, SameConnections DEF TakeEvent, brokerVars
<1>8. ASSUME NEW c \in Commands, DeadlinePasses(c) PROVE SaysWhatIs'
    BY <1>8, SameConnections DEF DeadlinePasses, brokerVars
<1> QED
    BY <1>1, <1>2, <1>3, <1>4, <1>5, <1>6, <1>7, <1>8

LEMMA LeavingSaysWhatIs ==
    ASSUME Typed, SaysWhatIs, SayOffline \/ Close
    PROVE  SaysWhatIs'
<1>1. CASE SayOffline
  <2>1. slot \in Slots
    BY <1>1 DEF SayOffline, Typed, InSession
  <2>2. Connections'
    BY <1>1, <2>1, SaysKeepsConnections, StageOnly DEF SayOffline, SaysWhatIs
  <2> QED
    BY <1>1, <2>2 DEF SayOffline, SaysWhatIs, ReadyAtStage
<1>2. CASE Close
  <2>1. slot \in Slots /\ UNCHANGED <<broker, toBroker, ready>> /\ stage' = "retry" /\ ~ready
    BY <1>2 DEF Close, Typed, InSession, SaysWhatIs, ReadyAtStage, brokerVars
  <2>2. /\ link'[<<slot, "mqtt">>] # "open"
        /\ \A t \in Slots \ {slot} : link'[<<t, "mqtt">>] = link[<<t, "mqtt">>]
    BY <1>2, <2>1, EndsOfSlot DEF Close, Typed, TypeOK
  <2>3. \A t \in Slots : ~Open(t, "mqtt")'
    BY <2>1, <2>2 DEF SaysWhatIs, Connections, Open
  <2> QED
    BY <2>1, <2>3 DEF SaysWhatIs, ReadyAtStage, Connections, OnTheStream
<1> QED
    BY <1>1, <1>2

LEMMA ReaderSaysWhatIs ==
    ASSUME SaysWhatIs, NEW s \in Slots, NEW l \in Links, ReaderStep(s, l)
    PROVE  SaysWhatIs'
BY SameConnections DEF ReaderStep, ReaderReads, ReaderPasses, ReaderIsTold, ReaderFails,
                       ReaderReports, mainVars, brokerVars

LEMMA OutsideSaysWhatIs ==
    ASSUME Typed, SaysWhatIs, NEW s \in Slots,
           BrokerStep(s) \/ (\E l \in Links : LinkLost(s, l))
    PROVE  SaysWhatIs'
<1> USE DEF mainVars
<1>1. ASSUME NEW l \in Links, LinkLost(s, l) PROVE SaysWhatIs'
  <2>1. \A t \in Slots : Open(t, "mqtt")' => Open(t, "mqtt")
    BY <1>1, EndsOfSlot DEF LinkLost, SetLink, Open, Typed, TypeOK
  <2>2. slot \in Slots => (Serves => Serves')
    BY <1>1, <2>1 DEF LinkLost, Serves, brokerVars
  <2>3. stage \in {"announce", "loop", "leaving"} => slot \in Slots
    BY DEF Typed, InSession
  <2> QED
    BY <1>1, <2>1, <2>2, <2>3
       DEF LinkLost, brokerVars, SaysWhatIs, ReadyAtStage, Connections, OnTheStream
<1>2. CASE BrokerSubscribes(s)
  <2>1. /\ broker'[s] = "subscribed" /\ broker[s] = "asked"
        /\ \A t \in Slots \ {s} : broker'[t] = broker[t]
    BY <1>2 DEF BrokerSubscribes, Typed, TypeOK
  <2>2. Serves => Serves'
    BY <1>2, <2>1 DEF BrokerSubscribes, Serves, Open
  <2>3. stage \in {"connect", "subscribe"} => slot \in Slots /\ slot # s
    BY <2>1 DEF SaysWhatIs, Connections, Typed, InSession
  <2> QED
    BY <1>2, <2>1, <2>2, <2>3
       DEF BrokerSubscribes, SaysWhatIs, ReadyAtStage, Connections, OnTheStream, Open
<1>3. CASE BrokerReads(s)
  <2>1. UNCHANGED <<stage, slot, ready, link, broker>> /\ broker[s] # "gone"
    BY <1>3 DEF BrokerReads
  <2>2. \A t \in Slots : OnTheStream(t)' \subseteq OnTheStream(t)
    BY <1>3, StreamShrinks DEF BrokerReads, OnTheStream
  <2>3. \A t \in Slots \ {s} : toBroker'[t] = toBroker[t]
    BY <1>3, StreamShrinks DEF BrokerReads
  <2> QED
    BY <2>1, <2>2, <2>3 DEF SaysWhatIs, ReadyAtStage, Connections, Serves, Open
<1>4. CASE BrokerNotices(s)
  <2>1. UNCHANGED <<stage, slot, ready, link>> /\ ~Open(s, "mqtt")
    BY <1>4 DEF BrokerNotices
  <2>2. broker'[s] = "gone" /\ \A t \in Slots \ {s} : broker'[t] = broker[t]
    BY <1>4 DEF BrokerNotices, Typed, TypeOK
  <2>3. toBroker'[s] = << >> /\ \A t \in Slots \ {s} : toBroker'[t] = toBroker[t]
    BY <1>4 DEF BrokerNotices, Typed, TypeOK
  <2>4. slot \in Slots => (Serves => Serves')
    <3>1. CASE slot = s
        BY <2>1, <3>1 DEF Serves, Open
    <3>2. CASE slot # s
        BY <2>1, <2>2, <3>2 DEF Serves, Open
    <3> QED
        BY <3>1, <3>2
  <2>5. \A t \in Slots : "online" \in OnTheStream(t)' => t # s /\ OnTheStream(t)' = OnTheStream(t)
    BY <2>3 DEF OnTheStream
  <2>6. stage \in {"announce", "loop", "leaving"} => slot \in Slots
    BY DEF Typed, InSession
  <2>7. Connections'
    <3>1. \A t \in Slots : Open(t, "mqtt")' => t = slot' /\ broker'[t] # "gone"
        BY <2>1, <2>2 DEF SaysWhatIs, Connections, Open
    <3>2. \A t \in Slots : broker'[t] = "gone" => toBroker'[t] = << >>
        BY <2>2, <2>3 DEF SaysWhatIs, Connections
    <3>3. \A t \in Slots : "online" \in OnTheStream(t)' => broker'[t] = "subscribed"
        BY <2>2, <2>5 DEF SaysWhatIs, Connections
    <3>4. stage \in {"connect", "subscribe"} => slot \in Slots
        BY DEF Typed, InSession
    <3>5. /\ stage' = "connect" => broker'[slot'] = "gone"
          /\ stage' = "subscribe" => broker'[slot'] \in {"connected", "gone"}
        BY <2>1, <2>2, <3>4 DEF SaysWhatIs, Connections
    <3> QED
        BY <3>1, <3>2, <3>3, <3>5 DEF Connections
  <2> QED
    BY <2>1, <2>4, <2>6, <2>7 DEF SaysWhatIs, ReadyAtStage
<1> QED
    BY <1>1, <1>2, <1>3, <1>4 DEF BrokerStep

LEMMA SaysWhatIsStep == Typed /\ SaysWhatIs /\ [Next]_vars => SaysWhatIs'
<1> SUFFICES ASSUME Typed, SaysWhatIs, [Next]_vars PROVE SaysWhatIs'
    OBVIOUS
<1>1. CASE UNCHANGED vars
    BY <1>1, SameConnections DEF vars, mainVars, brokerVars
<1>2. CASE \E c \in Commands : \E retain \in BOOLEAN : Publish(c, retain)
    BY <1>2, SameConnections DEF Publish, mainVars
<1>3. CASE Next
    BY <1>2, <1>3, NextByAction, ProcessSaysWhatIs, OpenWebSocketSaysWhatIs,
       ConnectBrokerSaysWhatIs, SubscribeSaysWhatIs, AwaitSubackSaysWhatIs,
       AnnounceSaysWhatIs, SetupFailsSaysWhatIs, LoopSaysWhatIs, LeavingSaysWhatIs,
       ReaderSaysWhatIs, OutsideSaysWhatIs
<1> QED
    BY <1>1, <1>3

LEMMA SaysWhatIsHolds == Spec => []SaysWhatIs
BY InitSaysWhatIs, TypedHolds, SaysWhatIsStep, PTL DEF Spec

\* The status file says "ready" only while the session is up and, as long as
\* its connection stands, subscribed to the commands (main.go, status).
THEOREM ReadyMeansServingHolds == Spec => []ReadyMeansServing
<1>1. Typed /\ SaysWhatIs => ReadyMeansServing
    BY DEF Typed, TypeOK, SaysWhatIs, ReadyAtStage, ReadyMeansServing, Serves, Dead
<1> QED
    BY <1>1, TypedHolds, SaysWhatIsHolds, PTL

\* The availability the broker shows turns to "online" only while a session
\* is subscribed: wills and messages of old connections never say it.
THEOREM OnlineMeansListeningHolds == Spec => OnlineMeansListening
<1> DEFINE Turns == availability # "online" /\ availability' = "online" => Listening # {}
<1>1. Typed /\ SaysWhatIs /\ [Next]_vars => [Turns]_vars
  <2> SUFFICES ASSUME Typed, SaysWhatIs, Next, availability # "online", availability' = "online"
               PROVE  Listening # {}
    OBVIOUS
  <2>1. PICK s \in Slots : BrokerStep(s)
    <3>1. ~(ServiceStart \/ ServiceStop \/ Crash \/ Restart \/ Begin \/ Exit)
      BY DEF ServiceStart, ServiceStop, Crash, Restart, Begin, Exit, brokerVars
    <3>2. ~(OpenWebSocket \/ ConnectBroker \/ Subscribe \/ AwaitSuback \/ Announce \/ SetupFails)
      BY DEF OpenWebSocket, ConnectBroker, Subscribe, AwaitSuback, Announce, SetupFails,
         brokerVars
    <3>3. ~(Stops \/ LoopFails \/ Poll \/ Heartbeat \/ TakeCommand \/ ForwardFails \/ TakeEvent)
      BY DEF Stops, LoopFails, Poll, Heartbeat, TakeCommand, ForwardFails, TakeEvent, brokerVars
    <3>4. ~(SayOffline \/ Close \/ \E c \in Commands : DeadlinePasses(c))
      BY DEF SayOffline, Close, DeadlinePasses, brokerVars
    <3>5. ASSUME NEW s \in Slots, NEW l \in Links PROVE ~(ReaderStep(s, l) \/ LinkLost(s, l))
      <4>1. ~(ReaderReads(s, l) \/ ReaderPasses(s, l) \/ ReaderIsTold(s, l))
        BY DEF ReaderReads, ReaderPasses, ReaderIsTold, brokerVars
      <4>2. ~(ReaderFails(s, l) \/ ReaderReports(s, l) \/ LinkLost(s, l))
        BY DEF ReaderFails, ReaderReports, LinkLost, brokerVars
      <4> QED
        BY <4>1, <4>2 DEF ReaderStep
    <3>6. ~\E c \in Commands : \E retain \in BOOLEAN : Publish(c, retain)
      BY DEF Publish
    <3> QED
      BY <3>1, <3>2, <3>3, <3>4, <3>5, <3>6, NextByAction
  <2>2. BrokerReads(s)
    BY <2>1 DEF BrokerStep, BrokerSubscribes, BrokerNotices, AfterWill
  <2>3. "online" \in OnTheStream(s)
    BY <2>2, StreamShrinks DEF BrokerReads
  <2> QED
    BY <2>3 DEF SaysWhatIs, Connections, Listening
<1> QED
    BY <1>1, TypedHolds, SaysWhatIsHolds, PTL DEF Spec, OnlineMeansListening

-----------------------------------------------------------------------------
(* What reaches a mower.                                                   *)

\* A copy of command c that a session would forward.
Fresh(m, c) == m.command = c /\ ~m.retained

\* q holds such a copy, or no two of them.
Has(q, c) == \E i \in 1 .. Len(q) : Fresh(q[i], c)
Single(q, c) == \A i, j \in 1 .. Len(q) : Fresh(q[i], c) /\ Fresh(q[j], c) => i = j

LEMMA HeadAndTail ==
    ASSUME NEW q \in Seq(Message), q # << >>, NEW c
    PROVE  /\ Fresh(Head(q), c) => Has(q, c)
           /\ Has(Tail(q), c) => Has(q, c)
           /\ Single(q, c) => Single(Tail(q), c)
           /\ Single(q, c) /\ Fresh(Head(q), c) => ~Has(Tail(q), c)
<1>1. /\ Len(q) \in Nat \ {0} /\ Len(Tail(q)) = Len(q) - 1 /\ Head(q) = q[1]
      /\ \A i \in 1 .. Len(Tail(q)) : Tail(q)[i] = q[i + 1]
    OBVIOUS
<1>2. \A i \in 1 .. Len(Tail(q)) : i + 1 \in 1 .. Len(q) /\ i + 1 # 1
    BY <1>1
<1>3. 1 \in 1 .. Len(q)
    BY <1>1
<1>4. Single(q, c) => Single(Tail(q), c)
  <2> SUFFICES ASSUME Single(q, c), NEW i \in 1 .. Len(Tail(q)), NEW j \in 1 .. Len(Tail(q)),
                      Fresh(Tail(q)[i], c), Fresh(Tail(q)[j], c)
               PROVE  i = j
    BY DEF Single
  <2>1. i + 1 = j + 1
    BY <1>1, <1>2 DEF Single
  <2> QED
    BY <1>1, <2>1
<1> QED
    BY <1>1, <1>2, <1>3, <1>4 DEF Has, Single

LEMMA AddedAtTheEnd ==
    ASSUME NEW q \in Seq(Message), NEW m \in Message, NEW c
    PROVE  /\ Has(Append(q, m), c) => Has(q, c) \/ Fresh(m, c)
           /\ Single(q, c) /\ ~(Has(q, c) /\ Fresh(m, c)) => Single(Append(q, m), c)
<1>1. /\ Len(q) \in Nat /\ Len(Append(q, m)) = Len(q) + 1
      /\ \A i \in 1 .. Len(q) : Append(q, m)[i] = q[i]
      /\ Append(q, m)[Len(q) + 1] = m
    OBVIOUS
<1>2. \A i \in 1 .. Len(q) + 1 : i \in 1 .. Len(q) \/ i = Len(q) + 1
    BY <1>1
<1> QED
    BY <1>1, <1>2 DEF Has, Single

LEMMA FirstThrownAway ==
    ASSUME NEW q \in Seq(Message), NEW n \in Nat, n <= Len(q), NEW c
    PROVE  /\ Has(SubSeq(q, n + 1, Len(q)), c) => Has(q, c)
           /\ Single(q, c) => Single(SubSeq(q, n + 1, Len(q)), c)
<1> DEFINE rest == SubSeq(q, n + 1, Len(q))
<1>1. /\ Len(rest) = Len(q) - n /\ Len(q) \in Nat
      /\ \A i \in 1 .. Len(q) - n : rest[i] = q[n + i]
    BY WithoutFirst
<1>2. \A i \in 1 .. Len(q) - n : n + i \in 1 .. Len(q)
    BY <1>1
<1>3. \A i, j \in 1 .. Len(q) - n : n + i = n + j => i = j
    BY <1>1
<1> HIDE DEF rest
<1>4. Has(rest, c) => Has(q, c)
    BY <1>1, <1>2 DEF Has
<1>5. Single(q, c) => Single(rest, c)
    BY <1>1, <1>2, <1>3 DEF Single
<1> QED
    BY <1>4, <1>5 DEF rest

\* Where copies of a command are on their way: with the network, the reader
\* or the channel of slot s.
Holds(s, c) == reader[<<s, "mqtt">>] = "passing" /\ Fresh(hand[<<s, "mqtt">>], c)

OnTheWay(s, c) ==
    Has(inbox[<<s, "mqtt">>], c) \/ Holds(s, c) \/ Has(queue[<<s, "mqtt">>], c)

\* There is no more than one copy in all of these.
Once(s, c) ==
    /\ Single(inbox[<<s, "mqtt">>], c) /\ Single(queue[<<s, "mqtt">>], c)
    /\ ~(Has(inbox[<<s, "mqtt">>], c) /\ Holds(s, c))
    /\ ~(Has(inbox[<<s, "mqtt">>], c) /\ Has(queue[<<s, "mqtt">>], c))
    /\ ~(Holds(s, c) /\ Has(queue[<<s, "mqtt">>], c))

\* A command was executed at most once, and then it was live; one that is on
\* its way was not executed yet.
ExecutedOnce == \A c \in Commands : executed[c] \in {0, 1} /\ (executed[c] = 1 => c \in live)

Underway ==
    slot \in Slots =>
        \A c \in Commands :
            Once(slot, c) /\ (OnTheWay(slot, c) => c \in live /\ executed[c] = 0)

ToldOnce == ExecutedOnce /\ Underway

LEMMA InitToldOnce == Init => ToldOnce
BY SessionAssumption DEF Init, ToldOnce, ExecutedOnce, Underway

\* Nothing moves on the way, or a reader has dropped what it held.
LEMMA NothingMoves ==
    ASSUME ToldOnce, UNCHANGED <<slot, live, executed>>,
           slot \in Slots =>
               /\ inbox'[<<slot, "mqtt">>] = inbox[<<slot, "mqtt">>]
               /\ queue'[<<slot, "mqtt">>] = queue[<<slot, "mqtt">>]
               /\ \A c \in Commands : Holds(slot, c)' => Holds(slot, c)
    PROVE  ToldOnce'
BY DEF ToldOnce, ExecutedOnce, Underway, Once, OnTheWay

\* ... which a step that leaves the readers alone cannot do.
LEMMA NothingTouched ==
    ASSUME ToldOnce, UNCHANGED <<slot, live, executed, inbox, queue, reader, hand>>
    PROVE  ToldOnce'
BY NothingMoves DEF Holds

\* There is no session whose commands could be under way.
LEMMA NoSession ==
    ASSUME ToldOnce, UNCHANGED <<live, executed>>, slot' \notin Slots
    PROVE  ToldOnce'
BY DEF ToldOnce, ExecutedOnce, Underway

LEMMA ProcessToldOnce ==
    ASSUME ToldOnce, ServiceStart \/ ServiceStop \/ Crash \/ Restart \/ Begin \/ Exit
    PROVE  ToldOnce'
<1>1. CASE Crash \/ Exit
    BY <1>1, SessionAssumption, NoSession DEF Crash, Exit, ProcessGone, history
<1>2. CASE ServiceStart \/ ServiceStop \/ Restart \/ Begin
    BY <1>2, NothingTouched DEF ServiceStart, ServiceStop, Restart, Begin, readerVars, history
<1> QED
    BY <1>1, <1>2

LEMMA SetupToldOnce ==
    ASSUME Typed, ToldOnce,
           OpenWebSocket \/ ConnectBroker \/ Subscribe \/ AwaitSuback \/ Announce \/ SetupFails
    PROVE  ToldOnce'
<1>1. CASE OpenWebSocket
  <2>1. PICK s \in Slots :
            /\ Unused(s) /\ slot' = s
            /\ inbox' = [e \in Ends |-> IF e[1] = s THEN << >> ELSE inbox[e]]
            /\ queue' = [e \in Ends |-> IF e[1] = s THEN << >> ELSE queue[e]]
    BY <1>1 DEF OpenWebSocket
  <2>2. inbox'[<<s, "mqtt">>] = << >> /\ queue'[<<s, "mqtt">>] = << >>
    BY <2>1, EndsOfSlot
  <2>3. reader'[<<s, "mqtt">>] = "none"
    BY <1>1, <2>1 DEF OpenWebSocket, Unused, Links
  <2>4. \A c \in Commands : ~OnTheWay(s, c)' /\ Once(s, c)'
    BY <2>2, <2>3 DEF OnTheWay, Once, Holds, Has, Single
  <2> QED
    BY <1>1, <2>1, <2>4
       DEF OpenWebSocket, ToldOnce, ExecutedOnce, Underway, history, Once, OnTheWay, Holds
<1>2. CASE ConnectBroker \/ Subscribe \/ SetupFails
    BY <1>2, NothingTouched DEF ConnectBroker, Subscribe, SetupFails, readerVars, history
<1>3. CASE AwaitSuback
  <2>1. slot \in Slots /\ inbox[<<slot, "mqtt">>] \in Seq(Message)
    BY <1>3, EndsOfSlot DEF AwaitSuback, Typed, TypeOK, InSession
  <2>2. PICK n \in 0 .. Len(inbox[<<slot, "mqtt">>]) :
            inbox' = [inbox EXCEPT ![<<slot, "mqtt">>] = SubSeq(@, n + 1, Len(@))]
    BY <1>3 DEF AwaitSuback
  <2>3. n \in Nat /\ n <= Len(inbox[<<slot, "mqtt">>])
    BY <2>1
  <2>4. inbox'[<<slot, "mqtt">>] =
            SubSeq(inbox[<<slot, "mqtt">>], n + 1, Len(inbox[<<slot, "mqtt">>]))
    BY <2>1, <2>2, EndsOfSlot DEF Typed, TypeOK
  <2>5. \A c \in Commands :
            /\ Has(inbox'[<<slot, "mqtt">>], c) => Has(inbox[<<slot, "mqtt">>], c)
            /\ Single(inbox[<<slot, "mqtt">>], c) => Single(inbox'[<<slot, "mqtt">>], c)
    BY <2>1, <2>3, <2>4, FirstThrownAway
  <2>6. UNCHANGED <<slot, reader, hand, queue, live, executed>>
    BY <1>3 DEF AwaitSuback, history
  <2> QED
    BY <2>5, <2>6 DEF ToldOnce, ExecutedOnce, Underway, Once, OnTheWay, Holds
<1>4. CASE Announce
  <2>1. reader'[<<slot, "mqtt">>] = "reading"
    BY <1>4, EndsOfSlot DEF Announce, Typed, TypeOK, InSession
  <2> QED
    BY <1>4, <2>1, NothingMoves DEF Announce, Holds, history
<1> QED
    BY <1>1, <1>2, <1>3, <1>4

\* The session takes the first message of the channel: what it does not hold
\* any more is not on its way again.
LEMMA FirstTaken ==
    ASSUME Typed, ToldOnce, stage = "loop", queue[<<slot, "mqtt">>] # << >>, Takes("mqtt"),
           inbox'[<<slot, "mqtt">>] = inbox[<<slot, "mqtt">>], UNCHANGED <<slot, reader, hand>>
    PROVE  /\ slot \in Slots /\ First("mqtt") \in Message
           /\ Fresh(First("mqtt"), First("mqtt").command) =>
                  OnTheWay(slot, First("mqtt").command)
           /\ \A c \in Commands :
                  /\ Once(slot, c)'
                  /\ OnTheWay(slot, c)' => OnTheWay(slot, c) /\ ~Fresh(First("mqtt"), c)
<1>1. slot \in Slots /\ queue[<<slot, "mqtt">>] \in Seq(Message)
    BY EndsOfSlot DEF Typed, TypeOK, InSession
<1>2. First("mqtt") \in Message /\ First("mqtt") = Head(queue[<<slot, "mqtt">>])
    BY <1>1 DEF First
<1>3. queue'[<<slot, "mqtt">>] = Tail(queue[<<slot, "mqtt">>])
    BY <1>1, EndsOfSlot DEF Takes, Typed, TypeOK
<1>4. First("mqtt").command \in Commands
    BY <1>2 DEF Message
<1>5. Fresh(First("mqtt"), First("mqtt").command) => OnTheWay(slot, First("mqtt").command)
    BY <1>1, <1>2, HeadAndTail DEF OnTheWay
<1>6. ASSUME NEW c \in Commands
      PROVE  /\ Once(slot, c)'
             /\ OnTheWay(slot, c)' => OnTheWay(slot, c) /\ ~Fresh(First("mqtt"), c)
  <2>1. Once(slot, c)
    BY <1>1 DEF ToldOnce, Underway
  <2>2. /\ Fresh(First("mqtt"), c) => Has(queue[<<slot, "mqtt">>], c)
        /\ Has(queue'[<<slot, "mqtt">>], c) => Has(queue[<<slot, "mqtt">>], c)
        /\ Single(queue[<<slot, "mqtt">>], c) => Single(queue'[<<slot, "mqtt">>], c)
        /\ Single(queue[<<slot, "mqtt">>], c) /\ Fresh(First("mqtt"), c) =>
               ~Has(queue'[<<slot, "mqtt">>], c)
    BY <1>1, <1>2, <1>3, HeadAndTail
  <2>3. Holds(slot, c)' <=> Holds(slot, c)
    BY DEF Holds
  <2> QED
    BY <2>1, <2>2, <2>3 DEF Once, OnTheWay
<1> QED
    BY <1>1, <1>2, <1>5, <1>6

LEMMA TakeCommandToldOnce == Typed /\ ToldOnce /\ TakeCommand => ToldOnce'
<1> SUFFICES ASSUME Typed, ToldOnce, TakeCommand PROVE ToldOnce'
    OBVIOUS
<1> DEFINE m == First("mqtt")
<1>1. inbox'[<<slot, "mqtt">>] = inbox[<<slot, "mqtt">>]
  <2>1. <<slot, "mqtt">> \in Ends /\ <<slot, "mqtt">> # <<slot, "ws">>
    BY EndsOfSlot DEF TakeCommand, Typed, TypeOK, InSession
  <2> QED
    BY <2>1 DEF TakeCommand, Typed, TypeOK
<1>2. /\ slot \in Slots /\ m \in Message
      /\ Fresh(m, m.command) => OnTheWay(slot, m.command)
      /\ \A c \in Commands :
             Once(slot, c)' /\ (OnTheWay(slot, c)' => OnTheWay(slot, c) /\ ~Fresh(m, c))
    BY <1>1, FirstTaken DEF TakeCommand
<1>3. m.command \in Commands
    BY <1>2 DEF Message
<1>4. CASE Accepts(m)
  <2>1. Fresh(m, m.command)
    BY <1>4 DEF Accepts, Fresh
  <2>2. m.command \in live /\ executed[m.command] = 0
    BY <1>2, <1>3, <2>1 DEF ToldOnce, Underway
  <2>3. /\ executed'[m.command] = 1
        /\ \A c \in Commands \ {m.command} : executed'[c] = executed[c]
    BY <1>3, <1>4, <2>2 DEF TakeCommand, Executes, Typed, TypeOK
  <2>4. \A c \in Commands : OnTheWay(slot, c)' => c # m.command
    BY <1>2, <2>1
  <2> QED
    BY <1>2, <2>2, <2>3, <2>4 DEF TakeCommand, ToldOnce, ExecutedOnce, Underway
<1>5. CASE ~Accepts(m)
    BY <1>2, <1>5 DEF TakeCommand, ToldOnce, ExecutedOnce, Underway
<1> QED
    BY <1>4, <1>5

LEMMA ForwardFailsToldOnce == Typed /\ ToldOnce /\ ForwardFails => ToldOnce'
<1> SUFFICES ASSUME Typed, ToldOnce, ForwardFails PROVE ToldOnce'
    OBVIOUS
<1> DEFINE m == First("mqtt")
<1>1. /\ slot \in Slots /\ m \in Message
      /\ Fresh(m, m.command) => OnTheWay(slot, m.command)
      /\ \A c \in Commands :
             Once(slot, c)' /\ (OnTheWay(slot, c)' => OnTheWay(slot, c) /\ ~Fresh(m, c))
    BY FirstTaken DEF ForwardFails
<1>2. m.command \in Commands
    BY <1>1 DEF Message
<1>3. Fresh(m, m.command)
    BY DEF ForwardFails, Accepts, Fresh
<1>4. m.command \in live /\ executed[m.command] = 0
    BY <1>1, <1>2, <1>3 DEF ToldOnce, Underway
<1>5. /\ executed'[m.command] \in {0, 1}
      /\ \A c \in Commands \ {m.command} : executed'[c] = executed[c]
    BY <1>2, <1>4 DEF ForwardFails, Executes, Typed, TypeOK
<1>6. \A c \in Commands : OnTheWay(slot, c)' => c # m.command
    BY <1>1, <1>3
<1> QED
    BY <1>1, <1>4, <1>5, <1>6 DEF ForwardFails, ToldOnce, ExecutedOnce, Underway

LEMMA LoopToldOnce ==
    ASSUME Typed, ToldOnce,
           Stops \/ LoopFails \/ Poll \/ Heartbeat \/ TakeEvent
             \/ (\E c \in Commands : DeadlinePasses(c)) \/ SayOffline \/ Close
    PROVE  ToldOnce'
<1>1. CASE Stops \/ LoopFails
    BY <1>1, NothingTouched DEF Stops, LoopFails, Leave, readerVars, history
<1>2. CASE Poll \/ Heartbeat \/ SayOffline
    BY <1>2, NothingTouched DEF Poll, Heartbeat, SayOffline, readerVars, history
<1>3. CASE \E c \in Commands : DeadlinePasses(c)
    BY <1>3, NothingTouched DEF DeadlinePasses, readerVars, history
<1>4. CASE TakeEvent
  <2>1. <<slot, "mqtt">> \in Ends /\ <<slot, "mqtt">> # <<slot, "ws">>
    BY <1>4, EndsOfSlot DEF TakeEvent, Typed, TypeOK, InSession
  <2>2. queue'[<<slot, "mqtt">>] = queue[<<slot, "mqtt">>]
    BY <1>4, <2>1 DEF TakeEvent, Takes, Typed, TypeOK
  <2> QED
    BY <1>4, <2>2, NothingMoves DEF TakeEvent, Holds, history
<1>5. CASE Close
    BY <1>5, SessionAssumption, NoSession DEF Close, history
<1> QED
    BY <1>1, <1>2, <1>3, <1>4, <1>5

LEMMA ReaderToldOnce ==
    ASSUME Typed, ToldOnce, NEW s \in Slots, NEW l \in Links, ReaderStep(s, l)
    PROVE  ToldOnce'
<1> DEFINE e == <<s, l>>
<1>1. e \in Ends /\ inbox[e] \in Seq(Message) /\ queue[e] \in Seq(Message)
    BY DEF Ends, Typed, TypeOK
<1>2. UNCHANGED <<slot, live, executed>>
    BY DEF ReaderStep, ReaderReads, ReaderPasses, ReaderIsTold, ReaderFails, ReaderReports,
           mainVars, history
<1>3. \A d \in Ends \ {e} : /\ inbox'[d] = inbox[d] /\ queue'[d] = queue[d]
                           /\ reader'[d] = reader[d] /\ hand'[d] = hand[d]
    BY DEF ReaderStep, ReaderReads, ReaderPasses, ReaderIsTold, ReaderFails, ReaderReports,
           Typed, TypeOK
\* The reader is not the one that commands pass through.
<1>4. CASE slot \in Slots => e # <<slot, "mqtt">>
    BY <1>2, <1>3, <1>4, EndsOfSlot, NothingMoves DEF Holds
<1>5. CASE slot \in Slots /\ e = <<slot, "mqtt">>
  <2>1. s = slot /\ l = "mqtt"
    BY <1>5
  <2>2. \A c \in Commands :
            Once(s, c) /\ (OnTheWay(s, c) => c \in live /\ executed[c] = 0)
    BY <1>5, <2>1 DEF ToldOnce, Underway
  <2>3. ASSUME \A c \in Commands : Once(s, c)' /\ (OnTheWay(s, c)' => OnTheWay(s, c))
        PROVE  ToldOnce'
    BY <1>2, <2>1, <2>2, <2>3 DEF ToldOnce, ExecutedOnce, Underway, Once, OnTheWay, Holds
  <2>4. CASE ReaderReads(s, l)
    <3>1. /\ inbox[e] # << >> /\ inbox'[e] = Tail(inbox[e]) /\ hand'[e] = Head(inbox[e])
          /\ reader[e] = "reading" /\ queue'[e] = queue[e]
        BY <1>1, <2>4 DEF ReaderReads, Typed, TypeOK
    <3>2. ASSUME NEW c \in Commands
          PROVE  Once(s, c)' /\ (OnTheWay(s, c)' => OnTheWay(s, c))
      <4>1. /\ Fresh(Head(inbox[e]), c) => Has(inbox[e], c)
            /\ Has(Tail(inbox[e]), c) => Has(inbox[e], c)
            /\ Single(inbox[e], c) => Single(Tail(inbox[e]), c)
            /\ Single(inbox[e], c) /\ Fresh(Head(inbox[e]), c) => ~Has(Tail(inbox[e]), c)
        BY <1>1, <3>1, HeadAndTail
      <4> QED
        BY <2>1, <2>2, <3>1, <4>1 DEF Once, OnTheWay, Holds
    <3> QED
        BY <2>3, <3>2
  <2>5. CASE ReaderPasses(s, l)
    <3>1. /\ queue'[e] = Append(queue[e], hand[e]) /\ inbox'[e] = inbox[e]
          /\ reader[e] = "passing" /\ reader'[e] = "reading" /\ hand[e] \in Message
        BY <1>1, <2>5 DEF ReaderPasses, Typed, TypeOK
    <3>2. ASSUME NEW c \in Commands
          PROVE  Once(s, c)' /\ (OnTheWay(s, c)' => OnTheWay(s, c))
      <4>1. /\ Has(queue'[e], c) => Has(queue[e], c) \/ Fresh(hand[e], c)
            /\ Single(queue[e], c) /\ ~(Has(queue[e], c) /\ Fresh(hand[e], c)) =>
                   Single(queue'[e], c)
        BY <1>1, <3>1, AddedAtTheEnd
      <4> QED
        BY <2>1, <2>2, <3>1, <4>1 DEF Once, OnTheWay, Holds
    <3> QED
        BY <2>3, <3>2
  <2>6. CASE ReaderIsTold(s, l) \/ ReaderFails(s, l) \/ ReaderReports(s, l)
    <3>1. inbox' = inbox /\ queue' = queue /\ reader'[e] # "passing"
        BY <1>1, <2>6 DEF ReaderIsTold, ReaderFails, ReaderReports, Typed, TypeOK
    <3> QED
        BY <1>2, <1>5, <3>1, NothingMoves DEF Holds
  <2> QED
    BY <2>4, <2>5, <2>6 DEF ReaderStep
<1> QED
    BY <1>4, <1>5

LEMMA OutsideToldOnce ==
    ASSUME Typed, ToldOnce, NEW s \in Slots,
           BrokerStep(s) \/ (\E l \in Links : LinkLost(s, l))
    PROVE  ToldOnce'
<1> USE DEF mainVars, readerVars, history
<1>1. CASE (\E l \in Links : LinkLost(s, l)) \/ BrokerReads(s) \/ BrokerNotices(s)
    BY <1>1, NothingTouched DEF LinkLost, BrokerReads, BrokerNotices
<1>2. CASE BrokerSubscribes(s)
  <2>1. /\ UNCHANGED <<slot, reader, hand, queue, live, executed>>
        /\ \A t \in Slots \ {s} : inbox'[<<t, "mqtt">>] = inbox[<<t, "mqtt">>]
    BY <1>2, EndsOfSlot DEF BrokerSubscribes, Typed, TypeOK
  <2>2. CASE stored # None /\ Open(s, "mqtt")
    <3> DEFINE m == [command |-> stored, retained |-> TRUE]
    <3>1. m \in Message /\ inbox[<<s, "mqtt">>] \in Seq(Message)
        BY <2>2, EndsOfSlot DEF Message, Typed, TypeOK
    <3>2. inbox'[<<s, "mqtt">>] = Append(inbox[<<s, "mqtt">>], m)
        BY <1>2, <2>2, EndsOfSlot DEF BrokerSubscribes, Typed, TypeOK
    <3>3. \A c \in Commands : ~Fresh(m, c)
        BY DEF Fresh
    <3>4. \A c \in Commands :
              /\ Has(inbox'[<<s, "mqtt">>], c) => Has(inbox[<<s, "mqtt">>], c)
              /\ Single(inbox[<<s, "mqtt">>], c) => Single(inbox'[<<s, "mqtt">>], c)
      <4> HIDE DEF m
      <4> QED
        BY <3>1, <3>2, <3>3, AddedAtTheEnd
    <3> QED
        BY <2>1, <3>4 DEF ToldOnce, ExecutedOnce, Underway, Once, OnTheWay, Holds
  <2>3. CASE ~(stored # None /\ Open(s, "mqtt"))
    BY <1>2, <2>1, <2>3, NothingTouched DEF BrokerSubscribes
  <2> QED
    BY <2>2, <2>3
<1> QED
    BY <1>1, <1>2 DEF BrokerStep

\* A command is published live while it was not: it was neither executed nor
\* is it on its way, and only a slot that listens gets it.
LEMMA PublishToldOnce ==
    ASSUME Typed, ToldOnce, NEW c \in Commands, NEW retain \in BOOLEAN, Publish(c, retain)
    PROVE  ToldOnce'
<1> DEFINE m == [command |-> c, retained |-> FALSE]
           e == <<slot, "mqtt">>
<1>1. /\ UNCHANGED <<slot, reader, hand, queue, executed>> /\ live \subseteq live'
      /\ executed[c] = 0 /\ c \notin live
    BY DEF Publish, mainVars
<1>2. ExecutedOnce'
    BY <1>1 DEF ToldOnce, ExecutedOnce
<1>3. CASE slot \in Slots /\ slot \in Listening /\ Open(slot, "mqtt")
  <2>1. c \in live' /\ inbox'[e] = Append(inbox[e], m)
    BY <1>3, EndsOfSlot DEF Publish
  <2>2. m \in Message /\ inbox[e] \in Seq(Message) /\ \A d \in Commands : Fresh(m, d) => d = c
    BY <1>3, EndsOfSlot DEF Message, Fresh, Typed, TypeOK
  <2>3. \A d \in Commands :
            /\ Has(inbox'[e], d) => Has(inbox[e], d) \/ d = c
            /\ Single(inbox[e], d) /\ (d = c => ~Has(inbox[e], d)) => Single(inbox'[e], d)
    <3> HIDE DEF m
    <3> QED
        BY <2>1, <2>2, AddedAtTheEnd
  <2>4. ~OnTheWay(slot, c)
    BY <1>1, <1>3 DEF ToldOnce, Underway
  <2>5. ASSUME NEW d \in Commands
        PROVE  Once(slot, d)' /\ (OnTheWay(slot, d)' => d \in live' /\ executed'[d] = 0)
    <3>1. Once(slot, d) /\ (OnTheWay(slot, d) => d \in live /\ executed[d] = 0)
        BY <1>3 DEF ToldOnce, Underway
    <3>2. Holds(slot, d)' <=> Holds(slot, d)
        BY <1>1 DEF Holds
    <3> QED
        BY <1>1, <2>1, <2>3, <2>4, <3>1, <3>2 DEF Once, OnTheWay
  <2> QED
    BY <1>1, <1>2, <2>5 DEF ToldOnce, Underway
<1>4. CASE ~(slot \in Slots /\ slot \in Listening /\ Open(slot, "mqtt"))
  <2>1. slot \in Slots => inbox'[e] = inbox[e]
    BY <1>4, EndsOfSlot DEF Publish
  <2>2. \A d \in Commands : slot \in Slots =>
            (Once(slot, d)' <=> Once(slot, d)) /\ (OnTheWay(slot, d)' <=> OnTheWay(slot, d))
    BY <1>1, <2>1 DEF Once, OnTheWay, Holds
  <2> QED
    BY <1>1, <1>2, <2>2 DEF ToldOnce, Underway
<1> QED
    BY <1>3, <1>4

LEMMA ToldOnceStep == Typed /\ ToldOnce /\ [Next]_vars => ToldOnce'
<1> SUFFICES ASSUME Typed, ToldOnce, [Next]_vars PROVE ToldOnce'
    OBVIOUS
<1>1. CASE UNCHANGED vars
    BY <1>1, NothingTouched DEF vars, mainVars, readerVars, history
<1>2. CASE Next
    BY <1>2, NextByAction, ProcessToldOnce, SetupToldOnce, LoopToldOnce, TakeCommandToldOnce,
       ForwardFailsToldOnce, ReaderToldOnce, OutsideToldOnce, PublishToldOnce
<1> QED
    BY <1>1, <1>2

\* A mower is told a command once at most, and only one that was published
\* while a session listened (main.go, the check of the retain flag), however
\* often the service reconnects, dies and is started again.
THEOREM NoStoredCommandHolds == Spec => []NoStoredCommand
<1>1. Spec => []ToldOnce
    BY InitToldOnce, TypedHolds, ToldOnceStep, PTL DEF Spec
<1>2. ToldOnce => NoStoredCommand
    BY DEF ToldOnce, ExecutedOnce, NoStoredCommand
<1> QED
    BY <1>1, <1>2, PTL

-----------------------------------------------------------------------------
(* The end of the readers.                                                 *)

\* A reader that has not ended yet may report an error once.
MayReport(s, l) == IF reader[<<s, l>>] = "none" THEN 0 ELSE 1

Setup == {"connect", "subscribe", "suback", "announce"}

\* There is room for every error that is still to come.
RoomForErrors ==
    /\ \A s \in Slots : failed[s] + MayReport(s, "mqtt") + MayReport(s, "ws") <= 2
    /\ stage \in Setup =>
           failed[slot] = 0 /\ reader[<<slot, "mqtt">>] = "none" /\ reader[<<slot, "ws">>] = "none"

LEMMA ErrorsAreFew ==
    ASSUME Typed, NEW s \in Slots
    PROVE  failed[s] \in 0 .. 2
BY DEF FailCapacity, Typed, TypeOK

LEMMA RoomUntouched ==
    ASSUME RoomForErrors, UNCHANGED <<slot, reader, failed>>,
           stage' \in Setup => stage \in Setup
    PROVE  RoomForErrors'
BY DEF RoomForErrors, MayReport

LEMMA RoomStep == Typed /\ RoomForErrors /\ [Next]_vars => RoomForErrors'
<1> SUFFICES ASSUME Typed, RoomForErrors, [Next]_vars PROVE RoomForErrors'
    OBVIOUS
<1> USE DEF Setup
<1>1. CASE UNCHANGED vars
    BY <1>1, RoomUntouched DEF vars, mainVars, readerVars
<1>2. CASE ServiceStart \/ ServiceStop \/ Restart \/ Begin
    BY <1>2, RoomUntouched DEF ServiceStart, ServiceStop, Restart, Begin, readerVars
<1>3. CASE Crash \/ Exit
  <2>1. stage' \notin Setup /\ ProcessGone
    BY <1>3 DEF Crash, Exit, Dead
  <2> QED
    BY <2>1, EndsOfSlot DEF ProcessGone, RoomForErrors, MayReport
<1>4. CASE OpenWebSocket
  <2>1. PICK s \in Slots : Unused(s) /\ slot' = s /\ failed' = [failed EXCEPT ![s] = 0]
    BY <1>4 DEF OpenWebSocket
  <2>2. reader' = reader /\ reader[<<s, "mqtt">>] = "none" /\ reader[<<s, "ws">>] = "none"
    BY <1>4, <2>1 DEF OpenWebSocket, Unused, Links
  <2> QED
    BY <2>1, <2>2 DEF RoomForErrors, MayReport, Typed, TypeOK
<1>5. CASE ConnectBroker \/ Subscribe \/ AwaitSuback \/ SetupFails
    BY <1>5, RoomUntouched DEF ConnectBroker, Subscribe, AwaitSuback, SetupFails, readerVars
<1>6. CASE Announce
  <2>1. slot \in Slots /\ failed[slot] = 0 /\ UNCHANGED <<slot, failed>> /\ stage' = "loop"
    BY <1>6 DEF Announce, Typed, InSession, RoomForErrors
  <2>2. \A s \in Slots \ {slot} : \A l \in Links : reader'[<<s, l>>] = reader[<<s, l>>]
    BY <1>6, EndsOfSlot DEF Announce, Links, Typed, TypeOK
  <2>3. ASSUME NEW s \in Slots
        PROVE  failed'[s] + MayReport(s, "mqtt")' + MayReport(s, "ws")' <= 2
    <3>1. CASE s = slot
        BY <2>1, <3>1 DEF MayReport
    <3>2. CASE s # slot
        BY <2>1, <2>2, <3>2 DEF RoomForErrors, MayReport, Links
    <3> QED
        BY <3>1, <3>2
  <2> QED
    BY <2>1, <2>3 DEF RoomForErrors
<1>7. CASE Stops
  <2>1. ASSUME NEW s \in Slots
        PROVE  failed'[s] \in Nat /\ failed[s] \in Nat /\ failed'[s] <= failed[s]
    <3>1. failed[s] \in 0 .. 2
        BY ErrorsAreFew
    <3> QED
        BY <1>7, <3>1 DEF Stops, Typed, TypeOK
  <2> QED
    BY <1>7, <2>1 DEF Stops, Leave, RoomForErrors, MayReport
<1>8. CASE \/ LoopFails \/ Poll \/ Heartbeat \/ TakeCommand \/ ForwardFails \/ TakeEvent
           \/ (\E c \in Commands : DeadlinePasses(c)) \/ SayOffline
    BY <1>8, RoomUntouched DEF LoopFails, Poll, Heartbeat, TakeCommand, ForwardFails, TakeEvent,
       DeadlinePasses, SayOffline, Leave, readerVars
<1>9. CASE Close
    BY <1>9 DEF Close, RoomForErrors, MayReport
<1>10. ASSUME NEW s \in Slots, NEW l \in Links, ReaderStep(s, l) PROVE RoomForErrors'
  <2>1. UNCHANGED <<stage, slot>> /\ reader[<<s, l>>] # "none"
    BY <1>10 DEF ReaderStep, ReaderReads, ReaderPasses, ReaderIsTold, ReaderFails,
       ReaderReports, mainVars
  <2>2. \A e \in Ends \ {<<s, l>>} : reader'[e] = reader[e]
    BY <1>10 DEF ReaderStep, ReaderReads, ReaderPasses, ReaderIsTold, ReaderFails,
       ReaderReports, Typed, TypeOK
  <2>3. stage \in Setup => s # slot
    BY <2>1 DEF RoomForErrors, Links
  <2>4. \A t \in Slots \ {s} : failed'[t] = failed[t] /\ \A k \in Links : reader'[<<t, k>>] = reader[<<t, k>>]
    BY <1>10, <2>2 DEF ReaderStep, ReaderReads, ReaderPasses, ReaderIsTold, ReaderFails,
       ReaderReports, Ends, Typed, TypeOK
  <2>5. failed'[s] + MayReport(s, "mqtt")' + MayReport(s, "ws")' <= 2
    <3>1. failed[s] \in Nat /\ failed[s] + MayReport(s, "mqtt") + MayReport(s, "ws") <= 2
      <4>1. failed[s] \in 0 .. 2
        BY ErrorsAreFew
      <4> QED
        BY <4>1 DEF RoomForErrors
    <3>2. \/ failed'[s] = failed[s]
          \/ failed'[s] = failed[s] + 1 /\ reader'[<<s, l>>] = "none"
        BY <1>10 DEF ReaderStep, ReaderReads, ReaderPasses, ReaderIsTold, ReaderFails,
           ReaderReports, Ends, Typed, TypeOK
    <3>3. \A k \in Links : k # l => reader'[<<s, k>>] = reader[<<s, k>>]
        BY <2>2 DEF Ends
    <3> QED
        BY <2>1, <3>1, <3>2, <3>3 DEF MayReport, Links
  <2>6. stage \in Setup => slot \in Slots
    BY DEF Typed, InSession
  <2> QED
    BY <2>1, <2>3, <2>4, <2>5, <2>6 DEF RoomForErrors, MayReport, Links
<1>11. ASSUME NEW s \in Slots, BrokerStep(s) \/ (\E l \in Links : LinkLost(s, l))
       PROVE  RoomForErrors'
    BY <1>11, RoomUntouched DEF BrokerStep, BrokerSubscribes, BrokerReads, BrokerNotices,
       LinkLost, mainVars, readerVars
<1>12. CASE \E c \in Commands : \E retain \in BOOLEAN : Publish(c, retain)
    BY <1>12, RoomUntouched DEF Publish, mainVars
<1> QED
    BY <1>1, <1>2, <1>3, <1>4, <1>5, <1>6, <1>7, <1>8, <1>9, <1>10, <1>11, <1>12, NextByAction

\* A reader whose connection failed finds room for its error although nobody
\* may take it any more (main.go, the channel fail has room for two): it does
\* not stay behind, whatever becomes of its session.
ReportsFindRoom ==
    \A s \in Slots, l \in Links : reader[<<s, l>>] = "failing" => failed[s] < FailCapacity

\* No reader goroutine hangs on its report, in any number of sessions.
THEOREM ReportsFindRoomHolds == Spec => []ReportsFindRoom
<1>1. Init => RoomForErrors
    BY EndsOfSlot DEF Init, RoomForErrors, MayReport, Setup
<1>2. Typed /\ RoomForErrors => ReportsFindRoom
  <2> SUFFICES ASSUME Typed, RoomForErrors, NEW s \in Slots, NEW l \in Links,
                      reader[<<s, l>>] = "failing"
               PROVE  failed[s] < FailCapacity
    BY DEF ReportsFindRoom
  <2>1. failed[s] \in Nat /\ failed[s] + MayReport(s, "mqtt") + MayReport(s, "ws") <= 2
    BY DEF FailCapacity, Typed, TypeOK, RoomForErrors
  <2> QED
    BY <2>1 DEF MayReport, Links, FailCapacity
<1> QED
    BY <1>1, <1>2, TypedHolds, RoomStep, PTL DEF Spec
=============================================================================
