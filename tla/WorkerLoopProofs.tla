-------------------------- MODULE WorkerLoopProofs --------------------------
(***************************************************************************)
(* The worker's loop keeps its connection to the broker alive, for all     *)
(* times that satisfy TimesAssumption and however long it took to get into *)
(* the loop, and forwards commands in order.                               *)
(***************************************************************************)
EXTENDS WorkerLoop, TLAPS

-----------------------------------------------------------------------------
(* Types.                                                                  *)

\* A connection that is about to be read has something to read.
ReadableOK ==
    /\ place \notin {"mqtt", "ws"} => readable = {}
    /\ place = "mqtt" => fromBroker # << >> \/ ~Connected
    /\ place = "ws" => "ws" \in readable
    /\ "ws" \in readable => fromGateway # << >>

TypeInv == TypeOK /\ ReadableOK

\* The times are natural numbers.
LEMMA TimesAreNat ==
    /\ OpenTime \in Nat /\ DiscoverTime \in Nat
    /\ SelectTime \in Nat /\ PacketTime \in Nat /\ SshTime \in Nat /\ CollectTime \in Nat
    /\ PollPeriod \in Nat /\ PingAfter \in Nat /\ Patience \in Nat
BY LoopAssumption

\* The clocks stay natural numbers when time passes or a packet goes by.
LEMMA ElapseIsNat ==
    ASSUME TypeOK, NEW d \in Nat, Elapse(d)
    PROVE  {sinceSend', sinceIo', toPoll'} \subseteq Nat
<1>1. sinceSend \in Nat /\ sinceIo \in Nat /\ toPoll \in Nat
    BY DEF TypeOK
<1>2. sinceSend' \in Nat /\ sinceIo' \in Nat /\ toPoll' \in Nat
    BY <1>1 DEF Elapse
<1> QED
    BY <1>2

LEMMA ReceiveIsNat ==
    ASSUME TypeOK, NEW d \in Nat, ReceiveAfter(d)
    PROVE  {sinceSend', sinceIo', toPoll'} \subseteq Nat
BY SMTT(30) DEF TypeOK, ReceiveAfter

LEMMA SendIsNat ==
    ASSUME TypeOK, NEW d \in Nat, NEW next \in Nat, SendAfter(d, next)
    PROVE  {sinceSend', sinceIo', toPoll'} \subseteq Nat
BY DEF TypeOK, SendAfter

\* What a stream holds, from its first packet to one more.
LEMMA HeadAndTail ==
    ASSUME NEW S, NEW s \in Seq(S), s # << >>
    PROVE  Head(s) \in S /\ Tail(s) \in Seq(S)
OBVIOUS

LEMMA OneMore ==
    ASSUME NEW S, NEW s \in Seq(S), NEW x \in S
    PROVE  Append(s, x) \in Seq(S)
OBVIOUS

\* A frame of each kind has the parts of its kind.
LEMMA FrameParts ==
    ASSUME NEW frame \in Frame
    PROVE  /\ frame[1] \in {"devices", "update", "result"}
           /\ frame[1] = "devices" => frame[2] \in Services /\ frame[3] \in Activities \cup {None}
           /\ frame[1] = "update" => frame[2] \in Activities \cup {None}
           /\ frame[1] = "result" => frame[2] \in Commands /\ frame[3] \in Outcome
BY DEF Frame

LEMMA InitTypeInv == Init => TypeInv
<1> SUFFICES ASSUME Init PROVE TypeInv
    OBVIOUS
<1>1. fromBroker \in Seq(Packet) /\ toGateway \in Seq(Commands) /\ fromGateway \in Seq(Frame)
    BY DEF Init
<1>2. {given, forwarded} \subseteq 0 .. CommandCount
    BY LoopAssumption DEF Init
<1>3. /\ outcome \in [Commands -> Outcome]
      /\ verdict \in [Commands -> {"none", "confirmed", "declined", "unconfirmed"}]
    BY DEF Init, Outcome
<1>4. ReadableOK
    BY DEF Init, ReadableOK
<1>5. {known, real, shown} \subseteq Activities \cup {None}
    BY DEF Init
<1>6. {sinceSend, sinceIo, toPoll} \subseteq Nat
    BY TimesAreNat DEF Init
<1> QED
    BY <1>1, <1>2, <1>3, <1>4, <1>5, <1>6 DEF Init, TypeOK, TypeInv

LEMMA DiscoverTypeInv == TypeInv /\ Discover => TypeInv'
<1> SUFFICES ASSUME TypeInv, Discover PROVE TypeInv'
    OBVIOUS
<1>1. Head(fromGateway) \in Frame /\ fromGateway' \in Seq(Frame)
    BY HeadAndTail DEF Discover, TypeInv, TypeOK
<1>2. asked' \subseteq Services /\ known' \in Activities \cup {None} /\ overlooked' \in BOOLEAN
    BY <1>1, FrameParts DEF Discover, TypeInv, TypeOK
<1>3. ReadableOK'
    BY DEF Discover, TypeInv, ReadableOK
<1>4. {sinceSend', sinceIo', toPoll'} \subseteq Nat
    BY TimesAreNat, ElapseIsNat DEF Discover, TypeInv
<1> QED
    BY <1>1, <1>2, <1>3, <1>4 DEF TypeInv, TypeOK, Discover, commandVars, mower

LEMMA EnterLoopTypeInv == TypeInv /\ EnterLoop => TypeInv'
<1> SUFFICES ASSUME TypeInv, EnterLoop PROVE TypeInv'
    OBVIOUS
<1>1. {sinceSend', sinceIo', toPoll'} \subseteq Nat
    BY TimesAreNat, SendIsNat DEF EnterLoop, TypeInv
<1>2. fromBroker' \in Seq(Packet)
  <2>1. CASE fromBroker' = << >>
    BY <2>1
  <2>2. ASSUME NEW c \in 1 .. given, fromBroker' = << <<"stored", c>> >>
        PROVE  fromBroker' \in Seq(Packet)
    <3>1. c \in Commands
        BY SMTT(30), LoopAssumption DEF Commands, TypeInv, TypeOK
    <3>2. <<"stored", c>> \in Packet
        BY <3>1 DEF Packet
    <3> QED
        BY <2>2, <3>2
  <2> QED
    BY <2>1, <2>2 DEF EnterLoop
<1>3. ReadableOK'
    BY DEF EnterLoop, TypeInv, ReadableOK
<1> QED
    BY <1>1, <1>2, <1>3 DEF TypeInv, TypeOK, EnterLoop, commandVars, mower, Loop

LEMMA ActivateTypeInv == TypeInv /\ Activate => TypeInv'
<1> SUFFICES ASSUME TypeInv, Activate PROVE TypeInv'
    OBVIOUS
<1>1. {sinceSend', sinceIo', toPoll'} \subseteq Nat
    BY TimesAreNat DEF Activate
<1>2. fromBroker' \in Seq(Packet)
    BY DEF Activate
<1>3. ReadableOK'
    BY DEF Activate, TypeInv, ReadableOK
<1> QED
    BY <1>1, <1>2, <1>3 DEF TypeInv, TypeOK, Activate, commandVars, mower, Loop

LEMMA NoRequestTypeInv == TypeInv /\ NoRequest => TypeInv'
BY DEF TypeInv, TypeOK, ReadableOK, NoRequest, commandVars, mower, Loop, clocks, streams

LEMMA PollTypeInv == TypeInv /\ Poll => TypeInv'
<1> SUFFICES ASSUME TypeInv, Poll PROVE TypeInv'
    OBVIOUS
<1>1. {sinceSend', sinceIo', toPoll'} \subseteq Nat
  <2>1. sinceSend \in Nat /\ sinceIo \in Nat
      BY DEF TypeInv, TypeOK
  <2>2. PICK d \in 0 .. SshTime :
            \/ SendAfter(d, NextPoll)
            \/ sinceSend' = sinceSend + d /\ sinceIo' = sinceIo + d /\ toPoll' = NextPoll
      BY DEF Poll
  <2>3. d \in Nat /\ NextPoll \in Nat
      BY TimesAreNat DEF NextPoll
  <2>4. sinceSend' \in Nat /\ sinceIo' \in Nat /\ toPoll' \in Nat
      BY <2>1, <2>2, <2>3 DEF SendAfter
  <2> QED
      BY <2>4
<1>2. shown' \in Activities \cup {None}
    BY DEF Poll, ShowActivity, TypeInv, TypeOK
<1>3. ReadableOK'
    BY DEF Poll, TypeInv, ReadableOK, streams
<1> QED
    BY <1>1, <1>2, <1>3 DEF TypeInv, TypeOK, Poll, commandVars, mower, streams, Loop

LEMMA WaitTypeInv == TypeInv /\ Wait => TypeInv'
<1> SUFFICES ASSUME TypeInv, Wait PROVE TypeInv'
    OBVIOUS
<1>1. {sinceSend', sinceIo', toPoll'} \subseteq Nat
    BY TimesAreNat, ElapseIsNat DEF Wait, TypeInv
<1>2. place' \in Loop /\ readable' \subseteq {"mqtt", "ws"}
    BY DEF Wait, Loop
<1>3. ReadableOK'
  <2>1. sinceSend \in Nat /\ Patience \in Nat /\ SelectTime \in Nat
    BY TimesAreNat DEF TypeInv, TypeOK
  <2>2. ~Connected => ~Connected'
    BY <2>1 DEF Wait, Elapse, Connected
  <2> QED
    BY <2>2 DEF Wait, ReadableOK, streams
<1> QED
    BY <1>1, <1>2, <1>3 DEF TypeInv, TypeOK, Wait, commandVars, mower, streams

LEMMA ReadMqttTypeInv == TypeInv /\ ReadMqtt => TypeInv'
<1> SUFFICES ASSUME TypeInv, ReadMqtt PROVE TypeInv'
    OBVIOUS
<1> DEFINE packet == Head(fromBroker)
<1>1. {sinceSend', sinceIo', toPoll'} \subseteq Nat
    BY TimesAreNat, ReceiveIsNat DEF ReadMqtt, TypeInv
<1>2. /\ toGateway' \in Seq(Commands) /\ pending' \subseteq Commands
      /\ pending \subseteq pending' /\ forwarded' \in 0 .. CommandCount
  <2>1. CASE Forwards(packet)
    <3>1. packet[2] \in Commands
        BY <2>1 DEF Forwards
    <3>2. packet[2] \in 0 .. CommandCount
        BY <3>1, LoopAssumption DEF Commands
    <3>3. /\ toGateway' = Append(toGateway, packet[2])
          /\ pending' = pending \cup {packet[2]} /\ forwarded' = packet[2]
        BY <2>1 DEF ReadMqtt
    <3>4. toGateway' \in Seq(Commands)
        BY <3>1, <3>3, OneMore DEF TypeInv, TypeOK
    <3> QED
        BY <3>1, <3>2, <3>3, <3>4 DEF TypeInv, TypeOK
  <2>2. CASE ~Forwards(packet)
    BY <2>2 DEF ReadMqtt, TypeInv, TypeOK
  <2> QED
    BY <2>1, <2>2
<1>3. place' \in {"top", "ws", "end"} /\ readable' \subseteq {"mqtt", "ws"}
    BY DEF ReadMqtt, TypeInv, TypeOK
<1>4. fromBroker' \in Seq(Packet)
    BY HeadAndTail DEF ReadMqtt, TypeInv, TypeOK, ReadableOK
<1>5. ReadableOK'
    BY DEF ReadMqtt, TypeInv, ReadableOK
<1>6. late' \subseteq pending' /\ {given', forwarded'} \subseteq 0 .. CommandCount
    BY <1>2 DEF ReadMqtt, TypeInv, TypeOK
<1> QED
    BY <1>1, <1>2, <1>3, <1>4, <1>5, <1>6 DEF TypeInv, TypeOK, ReadMqtt, mower, Loop

LEMMA ReadWebSocketTypeInv == TypeInv /\ ReadWebSocket => TypeInv'
<1> SUFFICES ASSUME TypeInv, ReadWebSocket PROVE TypeInv'
    OBVIOUS
<1> DEFINE frame == Head(fromGateway)
<1>1. frame \in Frame /\ fromGateway' \in Seq(Frame)
    BY HeadAndTail DEF ReadWebSocket, TypeInv, TypeOK, ReadableOK
<1>2. ReadableOK'
    BY DEF ReadWebSocket, TypeInv, ReadableOK
<1>3. CASE frame[1] = "result"
  <2>1. {sinceSend', sinceIo', toPoll'} \subseteq Nat
    BY <1>3, TimesAreNat, ElapseIsNat DEF ReadWebSocket, TypeInv
  <2>2. /\ pending' \subseteq Commands /\ late' \subseteq pending'
        /\ verdict' \in [Commands -> {"none", "confirmed", "declined", "unconfirmed"}]
    BY <1>3 DEF ReadWebSocket, Report, TypeInv, TypeOK
  <2>3. /\ place' \in Loop /\ readable' = {}
        /\ UNCHANGED <<active, asked, known, real, shown, given, forwarded, fromBroker,
                       toGateway, owes, outcome, overlooked>>
    BY <1>3 DEF ReadWebSocket, mower, Loop
  <2> QED
    BY <1>1, <1>2, <2>1, <2>2, <2>3 DEF TypeInv, TypeOK
<1>4. CASE frame[1] = "update"
  <2>1. {sinceSend', sinceIo', toPoll'} \subseteq Nat
    <3>1. PICK d \in 0 .. PacketTime :
             \/ SendAfter(d, IF toPoll > d THEN toPoll - d ELSE 0)
             \/ Elapse(d)
        BY <1>4 DEF ReadWebSocket
    <3>2. d \in Nat /\ (IF toPoll > d THEN toPoll - d ELSE 0) \in Nat
        BY TimesAreNat DEF TypeInv, TypeOK
    <3> QED
        BY <3>1, <3>2, ElapseIsNat, SendIsNat DEF TypeInv
  <2>2. known' \in Activities \cup {None} /\ shown' \in Activities \cup {None}
    BY <1>1, <1>4, FrameParts DEF ReadWebSocket, Apply, ShowActivity, TypeInv, TypeOK
  <2> QED
    BY <1>1, <1>2, <1>4, <2>1, <2>2 DEF TypeInv, TypeOK, ReadWebSocket, mower, Loop
<1> QED
    BY <1>3, <1>4 DEF ReadWebSocket

LEMMA EndRoundTypeInv == TypeInv /\ EndRound => TypeInv'
<1> SUFFICES ASSUME TypeInv, EndRound PROVE TypeInv'
    OBVIOUS
<1>1. {sinceSend', sinceIo', toPoll'} \subseteq Nat
    BY SendIsNat DEF EndRound, TypeInv, TypeOK, clocks
<1>2. /\ pending' \subseteq Commands /\ late' \subseteq pending'
      /\ verdict' \in [Commands -> {"none", "confirmed", "declined", "unconfirmed"}]
    BY DEF EndRound, Expire, Report, TypeInv, TypeOK
<1>3. ReadableOK'
    BY DEF EndRound, TypeInv, ReadableOK, streams
<1> QED
    BY <1>1, <1>2, <1>3 DEF TypeInv, TypeOK, EndRound, mower, streams, Loop

LEMMA FailTypeInv == TypeInv /\ Fail => TypeInv'
<1> SUFFICES ASSUME TypeInv, Fail PROVE TypeInv'
    OBVIOUS
<1>1. fromBroker' \in Seq(Packet) /\ toGateway' \in Seq(Commands) /\ fromGateway' \in Seq(Frame)
    BY DEF Fail
<1>2. ReadableOK'
    BY DEF Fail, ReadableOK
<1>3. {known', real', shown'} \subseteq Activities \cup {None}
    BY DEF Fail, mower, TypeInv, TypeOK
<1>4. {sinceSend', sinceIo', toPoll'} \subseteq Nat
    BY TimesAreNat DEF Fail, OpenSession
<1> QED
    BY <1>1, <1>2, <1>3, <1>4 DEF TypeInv, TypeOK, Fail, mower

LEMMA GiveCommandTypeInv == TypeInv /\ GiveCommand => TypeInv'
<1> SUFFICES ASSUME TypeInv, GiveCommand PROVE TypeInv'
    OBVIOUS
<1>0. given \in 0 .. CommandCount /\ CommandCount \in Nat
    BY LoopAssumption DEF TypeInv, TypeOK
<1>a. given < CommandCount /\ given' = given + 1
    BY DEF GiveCommand
<1>1. given' \in Commands /\ given' \in 0 .. CommandCount
    BY <1>0, <1>a DEF Commands
<1>2. <<"live", given'>> \in Packet
    BY <1>1 DEF Packet
<1>3. fromBroker' \in Seq(Packet)
    BY <1>2, OneMore DEF GiveCommand, Deliver, TypeInv, TypeOK
<1>4. ReadableOK'
    BY SMTT(30) DEF GiveCommand, Deliver, TypeInv, TypeOK, ReadableOK
<1> QED
    BY <1>1, <1>3, <1>4 DEF TypeInv, TypeOK, GiveCommand, clocks, mower

LEMMA DeliverUselessTypeInv ==
    ASSUME TypeInv, NEW packet \in {<<"other">>, <<"invalid">>}, DeliverUseless(packet)
    PROVE  TypeInv'
<1>1. packet \in Packet
    BY DEF Packet
<1>2. fromBroker' \in Seq(Packet)
    BY <1>1, OneMore DEF DeliverUseless, Deliver, TypeInv, TypeOK
<1>3. ReadableOK'
    BY SMTT(30) DEF DeliverUseless, Deliver, TypeInv, TypeOK, ReadableOK
<1> QED
    BY <1>2, <1>3 DEF TypeInv, TypeOK, DeliverUseless, clocks, mower, commandVars

LEMMA TakeCommandTypeInv == TypeInv /\ TakeCommand => TypeInv'
<1> SUFFICES ASSUME TypeInv, TakeCommand PROVE TypeInv'
    OBVIOUS
<1>1. Head(toGateway) \in Commands /\ toGateway' \in Seq(Commands)
    BY HeadAndTail DEF TakeCommand, TypeInv, TypeOK
<1>2. /\ outcome' \in [Commands -> Outcome]
      /\ owes' \subseteq ({"devices"} \X Services) \cup ({"result"} \X Commands)
    BY <1>1 DEF TakeCommand, TypeInv, TypeOK, Outcome
<1>3. ReadableOK'
    BY DEF TakeCommand, TypeInv, ReadableOK, Connected, clocks
<1> QED
    BY <1>1, <1>2, <1>3 DEF TypeInv, TypeOK, TakeCommand, clocks, commandVars

LEMMA AnswerTypeInv == TypeInv /\ Answer => TypeInv'
<1> SUFFICES ASSUME TypeInv, Answer PROVE TypeInv'
    OBVIOUS
<1> DEFINE answer(debt) == IF debt[1] = "result" THEN outcome[debt[2]]
                             ELSE IF debt[2] = "own" THEN real ELSE None
<1>1. PICK debt \in owes : SendFrame(<<debt[1], debt[2], answer(debt)>>) /\ owes' = owes \ {debt}
    BY DEF Answer
<1>2. <<debt[1], debt[2], answer(debt)>> \in Frame
  <2>1. CASE debt \in {"result"} \X Commands
    <3>1. debt[1] = "result" /\ debt[2] \in Commands
        BY <2>1
    <3>2. answer(debt) \in Outcome
        BY <3>1 DEF TypeInv, TypeOK
    <3> HIDE DEF answer
    <3> QED
        BY <3>1, <3>2 DEF Frame
  <2>2. CASE debt \in {"devices"} \X Services
    <3>1. debt[1] = "devices" /\ debt[2] \in Services
        BY <2>2
    <3>2. answer(debt) \in Activities \cup {None}
        BY <3>1 DEF TypeInv, TypeOK
    <3> HIDE DEF answer
    <3> QED
        BY <3>1, <3>2 DEF Frame
  <2> QED
    BY <2>1, <2>2 DEF TypeInv, TypeOK
<1>3. fromGateway' \in Seq(Frame) /\ fromGateway' # << >>
  <2>1. PICK frame \in Frame : SendFrame(frame)
    BY <1>1, <1>2, Zenon
  <2> QED
    BY <2>1, OneMore DEF SendFrame, TypeInv, TypeOK
<1>4. owes' \subseteq ({"devices"} \X Services) \cup ({"result"} \X Commands)
    BY <1>1 DEF TypeInv, TypeOK
<1>5. ReadableOK'
    BY <1>3 DEF Answer, TypeInv, ReadableOK, Connected, clocks
<1> QED
    BY <1>3, <1>4, <1>5 DEF TypeInv, TypeOK, Answer, clocks, commandVars, mower

LEMMA MowerChangesTypeInv == TypeInv /\ MowerChanges => TypeInv'
<1> SUFFICES ASSUME TypeInv, MowerChanges PROVE TypeInv'
    OBVIOUS
<1>1. PICK a \in Activities \ {real} : real' = a /\ SendFrame(<<"update", a>>)
    BY DEF MowerChanges
<1>2. <<"update", a>> \in Frame
    BY DEF Frame
<1>3. fromGateway' \in Seq(Frame) /\ fromGateway' # << >>
    BY <1>1, <1>2, OneMore DEF SendFrame, TypeInv, TypeOK
<1>4. ReadableOK'
    BY <1>3 DEF MowerChanges, TypeInv, ReadableOK, Connected, clocks
<1> QED
    BY <1>1, <1>3, <1>4 DEF TypeInv, TypeOK, MowerChanges, clocks, commandVars

LEMMA BecomesLateTypeInv == TypeInv /\ BecomesLate => TypeInv'
<1> SUFFICES ASSUME TypeInv, BecomesLate PROVE TypeInv'
    OBVIOUS
<1>1. late' \subseteq pending
    BY DEF BecomesLate, TypeInv, TypeOK
<1>2. ReadableOK'
    BY DEF BecomesLate, TypeInv, ReadableOK, streams, Connected, clocks
<1> QED
    BY <1>1, <1>2 DEF TypeInv, TypeOK, BecomesLate, clocks, streams, mower

LEMMA NextTypeInv == TypeInv /\ [Next]_vars => TypeInv'
<1> SUFFICES ASSUME TypeInv, [Next]_vars PROVE TypeInv'
    OBVIOUS
<1>1. CASE WorkerStep
    BY <1>1, DiscoverTypeInv, EnterLoopTypeInv, ActivateTypeInv, NoRequestTypeInv, PollTypeInv,
       WaitTypeInv, ReadMqttTypeInv, ReadWebSocketTypeInv, EndRoundTypeInv,
       FailTypeInv DEF WorkerStep, FindsClosed
<1>2. CASE Environment
    BY <1>2, GiveCommandTypeInv, DeliverUselessTypeInv, TakeCommandTypeInv, AnswerTypeInv,
       MowerChangesTypeInv, BecomesLateTypeInv DEF Environment
<1>3. CASE UNCHANGED vars
    BY <1>3 DEF vars, TypeInv, TypeOK, ReadableOK, Connected, commandVars, clocks, streams, mower
<1> QED
    BY <1>1, <1>2, <1>3, FailTypeInv DEF Next

\* Every state of the loop has its type, and it never reads from a
\* connection that select did not report.
THEOREM TypeCorrect == Spec => [](TypeOK /\ ReadableOK)
<1>1. TypeInv <=> TypeOK /\ ReadableOK
    BY DEF TypeInv
<1> QED
    BY <1>1, InitTypeInv, NextTypeInv, PTL DEF Spec
-----------------------------------------------------------------------------
(* Keep-alive.                                                             *)

\* How old the last packet to the broker may be at each place of the loop.
\* While the next poll is to come, no older than the last one; at "top" the
\* ping has seen to it that the last packet in either direction is recent;
\* and in between, what was received last was received in a round that
\* began before the poll was due.
Round == PollPeriod + SelectTime + PacketTime

Punctual ==
    /\ place \in Loop
    /\ toPoll <= PollPeriod
    /\ toPoll > 0 => sinceSend <= PollPeriod - toPoll
    /\ place = "top" => sinceIo <= PingAfter
    /\ place # "poll" => sinceSend <= sinceIo + Round
    /\ place = "poll" => sinceSend + SshTime <= Patience
    /\ place = "wait" => sinceSend <= PollPeriod - toPoll
    /\ place = "mqtt" => sinceSend <= PollPeriod + SelectTime
    /\ place = "ws" => sinceSend <= Round
    /\ place = "end" => sinceSend <= Round + PacketTime

\* A worker that resumed control too late has nothing to forward and will find
\* out: it waits no second time.
TooLate ==
    /\ place \in {"top", "poll", "wait", "mqtt"}
    /\ pending = {} /\ fromBroker = << >>

\* Before the loop nothing is controlled or pending.
Idle == ~active /\ pending = {}

LoopInv ==
    /\ TypeInv
    /\ place = "discover" => Idle
    /\ active => IF Connected THEN Punctual ELSE TooLate

\* In the loop the clocks are numbers that Punctual can be reasoned about.
LEMMA ClocksAreNat ==
    /\ TypeInv => sinceSend \in Nat /\ sinceIo \in Nat /\ toPoll \in Nat
    /\ TypeInv' => sinceSend' \in Nat /\ sinceIo' \in Nat /\ toPoll' \in Nat
BY DEF TypeInv, TypeOK

\* Wherever the loop is, Punctual bounds the silence by the patience of the
\* broker.
LEMMA PunctualIsConnected == ASSUME TypeInv', Punctual' PROVE Connected'
BY TimesAreNat, TimesAssumption, ClocksAreNat DEF Punctual, Loop, Round, Connected

\* Once the broker has lost patience, sending does not help.
LEMMA StaysUnheard ==
    ASSUME TypeInv, ~Connected, NEW d \in Nat, NEW next,
           Elapse(d) \/ SendAfter(d, next)
    PROVE  ~Connected'
BY TimesAreNat, ClocksAreNat DEF Connected, Elapse, SendAfter

\* A session starts with a packet to the broker, if that still listens, and a
\* takeover with the collection and two ssh calls.
LEMMA EnterLoopPunctual ==
    ASSUME LoopInv, EnterLoop
    PROVE  IF Connected' THEN Punctual' ELSE TooLate'
<1>1. PICK d \in 0 .. 2 * SshTime : SendAfter(d, 0)
    BY DEF EnterLoop
<1>2. CASE Connected'
  <2>1. sinceSend' = 0 /\ sinceIo' = 0 /\ toPoll' = 0 /\ place' = "top"
    BY <1>1, <1>2, TimesAreNat, ClocksAreNat DEF EnterLoop, Connected, SendAfter, LoopInv
  <2> QED
    BY <1>2, <2>1, TimesAreNat DEF Punctual, Loop, Round
<1>3. CASE ~Connected'
    BY <1>3 DEF EnterLoop, LoopInv, Idle, TooLate, commandVars
<1> QED
    BY <1>2, <1>3

LEMMA ActivatePunctual == ASSUME LoopInv, Activate PROVE Punctual'
<1>1. /\ sinceSend' \in Nat /\ sinceSend' <= CollectTime + 2 * SshTime
      /\ toPoll' = 0 /\ place' = "poll"
    BY TimesAreNat DEF Activate
<1>2. \A s \in Nat : s <= CollectTime + 2 * SshTime => s + SshTime <= Patience
    BY TimesAreNat, TimesAssumption
<1>3. sinceSend' + SshTime <= Patience
    BY <1>1, <1>2
<1>4. toPoll' <= PollPeriod /\ ~(toPoll' > 0)
    BY <1>1, TimesAreNat
<1> QED
    BY <1>1, <1>3, <1>4 DEF Punctual, Loop

LEMMA NoRequestPunctual == ASSUME TypeInv, Punctual, NoRequest, active PROVE Punctual'
BY TimesAreNat, TimesAssumption, ClocksAreNat
   DEF NoRequest, Punctual, Loop, Round, clocks

LEMMA PollPunctual == ASSUME TypeInv, Punctual, Poll, active PROVE Punctual'
<1>1. PICK d \in 0 .. SshTime : SendAfter(d, NextPoll)
    BY DEF Poll
<1>2. sinceSend + d <= Patience
    BY TimesAreNat, ClocksAreNat DEF Poll, Punctual
<1>3. sinceSend' = 0 /\ sinceIo' = 0 /\ toPoll' = PollPeriod
    BY <1>1, <1>2 DEF SendAfter, NextPoll
<1> QED
    BY <1>3, TimesAreNat DEF Poll, Punctual, Loop, Round

LEMMA WaitPunctual == ASSUME TypeInv, Punctual, Wait, active PROVE Punctual'
<1>1. PICK d \in 0 .. SelectTime : Elapse(d)
    BY DEF Wait
<1>2. place' \in {"mqtt", "ws", "end"}
    BY DEF Wait
<1>3. sinceSend <= PollPeriod - toPoll /\ toPoll <= PollPeriod
    BY DEF Wait, Punctual
<1> QED
    BY <1>1, <1>2, <1>3, TimesAreNat, ClocksAreNat DEF Elapse, Punctual, Loop, Round

LEMMA ReadMqttPunctual == ASSUME TypeInv, Punctual, ReadMqtt, active PROVE Punctual'
<1>1. PICK d \in 0 .. PacketTime : ReceiveAfter(d)
    BY DEF ReadMqtt
<1>2. place' \in {"top", "ws", "end"}
    BY DEF ReadMqtt
<1>3. /\ sinceSend <= PollPeriod + SelectTime
      /\ toPoll <= PollPeriod /\ (toPoll > 0 => sinceSend <= PollPeriod - toPoll)
    BY DEF ReadMqtt, Punctual
<1> QED
    BY <1>1, <1>2, <1>3, TimesAreNat, ClocksAreNat
       DEF ReceiveAfter, Punctual, Loop, Round

LEMMA ReadWebSocketPunctual == ASSUME TypeInv, Punctual, ReadWebSocket, active PROVE Punctual'
<1>1. PICK d \in 0 .. PacketTime :
         \/ SendAfter(d, IF toPoll > d THEN toPoll - d ELSE 0)
         \/ Elapse(d)
    BY DEF ReadWebSocket
<1>2. /\ place = "ws" /\ place' = "end" /\ sinceSend <= Round
      /\ toPoll <= PollPeriod /\ (toPoll > 0 => sinceSend <= PollPeriod - toPoll)
      /\ sinceSend <= sinceIo + Round
    BY DEF ReadWebSocket, Punctual
<1>3. CASE Elapse(d)
    BY <1>2, <1>3, TimesAreNat, ClocksAreNat DEF Elapse, Punctual, Loop, Round
<1>4. CASE SendAfter(d, IF toPoll > d THEN toPoll - d ELSE 0)
  <2>1. sinceSend + d <= Patience
    BY <1>2, TimesAreNat, TimesAssumption, ClocksAreNat DEF Round
  <2>2. /\ sinceSend' = 0 /\ sinceIo' = 0
        /\ toPoll' = IF toPoll > d THEN toPoll - d ELSE 0
    BY <1>4, <2>1 DEF SendAfter
  <2> QED
    BY <1>2, <2>2, TimesAreNat, ClocksAreNat DEF Punctual, Loop, Round
<1> QED
    BY <1>1, <1>3, <1>4

LEMMA EndRoundPunctual == ASSUME TypeInv, Punctual, EndRound, active PROVE Punctual'
<1>1. /\ sinceSend <= Round + PacketTime /\ sinceSend <= sinceIo + Round
      /\ toPoll <= PollPeriod /\ (toPoll > 0 => sinceSend <= PollPeriod - toPoll)
    BY DEF EndRound, Punctual
<1>2. CASE sinceIo > PingAfter
  <2>0. sinceSend <= Patience
    BY <1>1, TimesAreNat, TimesAssumption, ClocksAreNat DEF Round
  <2>1. sinceSend' = 0 /\ sinceIo' = 0 /\ toPoll' = toPoll
    BY <1>2, <2>0, TimesAreNat, ClocksAreNat DEF EndRound, SendAfter
  <2> QED
    BY <1>1, <2>1, TimesAreNat, ClocksAreNat DEF EndRound, Punctual, Loop, Round
<1>3. CASE ~(sinceIo > PingAfter)
    BY <1>1, <1>3, TimesAreNat, ClocksAreNat
       DEF EndRound, Punctual, Loop, Round, clocks
<1> QED
    BY <1>2, <1>3

\* A worker that the broker has given up gets no further than to where it
\* reads from it.
LEMMA LateStays ==
    ASSUME LoopInv, active, ~Connected, WorkerStep, active'
    PROVE  ~Connected' /\ TooLate'
<1>1. TooLate
    BY DEF LoopInv
<1>2. CASE NoRequest
    BY <1>1, <1>2 DEF NoRequest, TooLate, Connected, commandVars, clocks, streams
<1>3. CASE Poll
  <2>1. ~Connected'
    BY <1>3, StaysUnheard, TimesAreNat DEF Poll, LoopInv
  <2> QED
    BY <1>1, <1>3, <2>1 DEF Poll, TooLate, commandVars, streams
<1>4. CASE Wait
  <2>1. ~Connected'
    BY <1>4, StaysUnheard, TimesAreNat DEF Wait, LoopInv
  <2>2. place' = "mqtt"
    BY <1>4 DEF Wait, Connected
  <2> QED
    BY <1>1, <1>4, <2>1, <2>2 DEF Wait, TooLate, commandVars, streams
<1>5. CASE FindsClosed
    BY <1>5 DEF FindsClosed, Fail
<1> QED
    BY <1>1, <1>2, <1>3, <1>4, <1>5
       DEF WorkerStep, TooLate, LoopInv, Idle, Discover, EnterLoop, Activate, ReadMqtt,
           ReadWebSocket, EndRound

LEMMA OnTimeStays ==
    ASSUME LoopInv, active, Connected, WorkerStep, active'
    PROVE  Punctual'
<1>1. Punctual /\ TypeInv /\ place # "discover"
    BY DEF LoopInv, Idle
<1>2. CASE NoRequest \/ Poll \/ Wait \/ ReadMqtt \/ ReadWebSocket \/ EndRound
    BY <1>1, <1>2, NoRequestPunctual, PollPunctual, WaitPunctual, ReadMqttPunctual,
       ReadWebSocketPunctual, EndRoundPunctual
<1> QED
    BY <1>1, <1>2 DEF WorkerStep, Discover, EnterLoop, Activate, FindsClosed

LEMMA NextPunctual ==
    ASSUME LoopInv, [Next]_vars, active'
    PROVE  IF Connected' THEN Punctual' ELSE TooLate'
<1>1. CASE Environment \/ UNCHANGED vars
  <2>1. /\ UNCHANGED <<place, active, sinceSend, sinceIo, toPoll, pending>>
        /\ fromBroker' = fromBroker \/ Connected
    BY <1>1 DEF Environment, GiveCommand, DeliverUseless, Deliver, TakeCommand, Answer,
                MowerChanges, BecomesLate, clocks, commandVars, streams, vars
  <2> QED
    BY <2>1 DEF LoopInv, Punctual, TooLate, Connected
<1>2. CASE Fail
    BY <1>2 DEF Fail
<1>3. CASE WorkerStep /\ active
  <2>1. CASE Connected
    BY <1>3, <2>1, OnTimeStays, PunctualIsConnected, NextTypeInv DEF LoopInv
  <2>2. CASE ~Connected
    BY <1>3, <2>2, LateStays
  <2> QED
    BY <2>1, <2>2
<1>4. CASE WorkerStep /\ ~active
  <2>1. CASE EnterLoop
    BY <2>1, EnterLoopPunctual
  <2>2. CASE Activate
    BY <2>2, ActivatePunctual, PunctualIsConnected, NextTypeInv DEF LoopInv
  <2>3. CASE ~EnterLoop /\ ~Activate
    BY <1>4, <2>3 DEF WorkerStep, Discover, NoRequest, Poll, Wait, ReadMqtt, ReadWebSocket,
       EndRound, FindsClosed, Fail
  <2> QED
    BY <2>1, <2>2, <2>3
<1> QED
    BY <1>1, <1>2, <1>3, <1>4 DEF Next

LEMMA NextIdle ==
    ASSUME LoopInv, [Next]_vars, place' = "discover"
    PROVE  Idle'
<1>1. CASE Discover \/ Environment \/ UNCHANGED vars
  <2>1. UNCHANGED <<place, active, pending>>
    BY <1>1 DEF Discover, Environment, GiveCommand, DeliverUseless, Deliver, TakeCommand,
                Answer, MowerChanges, BecomesLate, commandVars, vars
  <2> QED
    BY <2>1 DEF LoopInv, Idle
<1>2. CASE Fail \/ FindsClosed
    BY <1>2 DEF Fail, FindsClosed, Idle
<1>3. CASE \/ EnterLoop \/ Activate \/ NoRequest \/ Poll \/ Wait \/ ReadMqtt \/ ReadWebSocket
           \/ EndRound
    BY <1>3 DEF EnterLoop, Activate, NoRequest, Poll, Wait, ReadMqtt, ReadWebSocket, EndRound
<1> QED
    BY <1>1, <1>2, <1>3 DEF Next, WorkerStep

\* A worker in control that the broker knows is never silent for longer than
\* the broker's patience, whatever the times are, as long as TimesAssumption
\* holds of them: 81 s of 90 s with those of the code.  However long it took to
\* resume control, one that the broker does not know forwards nothing.
THEOREM StaysConnected == Spec => KeepAlive
<1>1. Init => LoopInv
    BY InitTypeInv DEF Init, LoopInv, Idle
<1>2. LoopInv /\ [Next]_vars => LoopInv'
    BY NextTypeInv, NextPunctual, NextIdle DEF LoopInv
<1>3. LoopInv /\ LoopInv' /\ [Next]_vars
        => [/\ active /\ Connected /\ active' => Connected'
            /\ active' /\ ~Connected' =>
                  pending' = {} /\ place' \in {"top", "poll", "wait", "mqtt"}]_vars
  <2> SUFFICES ASSUME LoopInv, LoopInv', Next, active'
               PROVE  /\ active /\ Connected => Connected'
                      /\ ~Connected' => TooLate'
    BY DEF TooLate
  <2>1. ~Connected' => TooLate'
    BY DEF LoopInv
  <2>2. ASSUME active, Connected PROVE Connected'
    <3>1. CASE WorkerStep
      BY <2>2, <3>1, OnTimeStays, PunctualIsConnected DEF LoopInv
    <3>2. CASE Environment
      BY <2>2, <3>2 DEF Environment, GiveCommand, DeliverUseless, TakeCommand, Answer,
         MowerChanges, BecomesLate, clocks, Connected
    <3>3. CASE Fail
      BY <3>3 DEF Fail
    <3> QED
      BY <3>1, <3>2, <3>3 DEF Next
  <2> QED
    BY <2>1, <2>2
<1> QED
    BY <1>1, <1>2, <1>3, PTL DEF Spec, KeepAlive
-----------------------------------------------------------------------------
(* Commands.                                                               *)

\* Live commands arrive in order, and none has been forwarded yet.
BrokerInOrder ==
    /\ forwarded <= given
    /\ \A j \in 1 .. Len(fromBroker) :
          fromBroker[j][1] = "live" =>
              /\ forwarded < fromBroker[j][2] /\ fromBroker[j][2] <= given
              /\ \A k \in 1 .. j - 1 :
                    fromBroker[k][1] = "live" => fromBroker[k][2] < fromBroker[j][2]

\* Commands on the way to the gateway are different ones, and nothing has
\* been done about them or about those not forwarded yet.
GatewayInOrder ==
    /\ \A c \in Commands : c > forwarded => outcome[c] = "none"
    /\ \A j \in 1 .. Len(toGateway) :
          /\ toGateway[j] <= forwarded /\ outcome[toGateway[j]] = "none"
          /\ \A k \in 1 .. j - 1 : toGateway[k] # toGateway[j]

\* What is answered has been done.
AnswersTrue ==
    /\ \A c \in Commands : <<"result", c>> \in owes => outcome[c] # "none"
    /\ \A j \in 1 .. Len(fromGateway) :
          fromGateway[j][1] = "result" =>
              /\ fromGateway[j][3] = outcome[fromGateway[j][2]]
              /\ fromGateway[j][3] # "none"

\* A command is pending or reported, and only if it was forwarded.
ReportedOnce ==
    \A c \in Commands :
        /\ c \in pending => c <= forwarded /\ verdict[c] = "none"
        /\ c > forwarded => verdict[c] = "none"

CommandInv ==
    TypeInv /\ BrokerInOrder /\ GatewayInOrder /\ AnswersTrue /\ ReportedOnce /\ VerdictsTrue

Parts == BrokerInOrder /\ GatewayInOrder /\ AnswersTrue /\ ReportedOnce /\ VerdictsTrue

\* What the parts are about.
commandState == <<fromBroker, toGateway, fromGateway, owes, outcome, given, forwarded, pending,
                  verdict>>

\* Streams by position.
LEMMA TailByPosition ==
    ASSUME NEW S, NEW s \in Seq(S), s # << >>
    PROVE  /\ Head(s) = s[1] /\ Len(s) \in Nat /\ 1 \in 1 .. Len(s)
           /\ Len(Tail(s)) = Len(s) - 1
           /\ \A j \in 1 .. Len(s) - 1 : Tail(s)[j] = s[j + 1]
OBVIOUS

LEMMA AppendByPosition ==
    ASSUME NEW S, NEW s \in Seq(S), NEW x
    PROVE  /\ Len(s) \in Nat /\ Len(Append(s, x)) = Len(s) + 1
           /\ Append(s, x)[Len(s) + 1] = x
           /\ \A j \in 1 .. Len(s) : Append(s, x)[j] = s[j]
OBVIOUS

LEMMA CommandsAreInt == Commands \subseteq Nat
BY LoopAssumption DEF Commands

LEMMA CountersAreInt == TypeInv => given \in Nat /\ forwarded \in Nat
BY LoopAssumption DEF TypeInv, TypeOK

LEMMA UnchangedParts == ASSUME CommandInv, UNCHANGED commandState PROVE Parts'
BY DEF CommandInv, Parts, commandState, BrokerInOrder, GatewayInOrder, AnswersTrue, ReportedOnce,
       VerdictsTrue

\* A frame that was read is forgotten.
LEMMA DropFrame ==
    ASSUME CommandInv, fromGateway # << >>, fromGateway' = Tail(fromGateway),
           UNCHANGED <<owes, outcome>>
    PROVE  AnswersTrue'
<1>1. /\ Len(fromGateway') = Len(fromGateway) - 1 /\ Len(fromGateway) \in Nat
      /\ \A j \in 1 .. Len(fromGateway) - 1 : fromGateway'[j] = fromGateway[j + 1]
    BY TailByPosition DEF CommandInv, TypeInv, TypeOK
<1>2. ASSUME NEW j \in 1 .. Len(fromGateway')
      PROVE  j + 1 \in 1 .. Len(fromGateway) /\ fromGateway'[j] = fromGateway[j + 1]
    BY <1>1
<1> QED
    BY <1>2 DEF CommandInv, AnswersTrue

\* A frame that is sent is true if what it answers has been done.
LEMMA AddFrame ==
    ASSUME CommandInv, NEW frame, SendFrame(frame), UNCHANGED outcome, owes' \subseteq owes,
           frame[1] = "result" => frame[3] = outcome[frame[2]] /\ frame[3] # "none"
    PROVE  AnswersTrue'
<1>1. /\ Len(fromGateway') = Len(fromGateway) + 1 /\ Len(fromGateway) \in Nat
      /\ fromGateway'[Len(fromGateway) + 1] = frame
      /\ \A j \in 1 .. Len(fromGateway) : fromGateway'[j] = fromGateway[j]
    BY AppendByPosition DEF SendFrame, CommandInv, TypeInv, TypeOK
<1>2. ASSUME NEW j \in 1 .. Len(fromGateway')
      PROVE  j \in 1 .. Len(fromGateway) \/ j = Len(fromGateway) + 1
    BY <1>1
<1> QED
    BY <1>1, <1>2 DEF CommandInv, AnswersTrue

LEMMA DiscoverParts == ASSUME CommandInv, Discover PROVE Parts'
<1>1. AnswersTrue'
    BY DropFrame DEF Discover, mower
<1> QED
    BY <1>1 DEF Discover, CommandInv, Parts, commandVars, mower, BrokerInOrder, GatewayInOrder,
                ReportedOnce, VerdictsTrue

LEMMA EnterLoopParts == ASSUME CommandInv, EnterLoop PROVE Parts'
<1>1. \A j \in 1 .. Len(fromBroker') : fromBroker'[j][1] # "live"
  <2>1. CASE fromBroker' = << >>
    BY <2>1
  <2>2. ASSUME NEW c, fromBroker' = << <<"stored", c>> >>
        PROVE  \A j \in 1 .. Len(fromBroker') : fromBroker'[j][1] # "live"
    <3>1. Len(fromBroker') = 1 /\ fromBroker'[1][1] = "stored"
        BY <2>2
    <3> QED
        BY <3>1
  <2> QED
    BY <2>1, <2>2 DEF EnterLoop
<1>2. BrokerInOrder'
    BY <1>1 DEF EnterLoop, CommandInv, BrokerInOrder, commandVars
<1> QED
    BY <1>2 DEF EnterLoop, CommandInv, Parts, commandVars, mower, GatewayInOrder, AnswersTrue,
                ReportedOnce, VerdictsTrue

LEMMA ActivateParts == ASSUME CommandInv, Activate PROVE Parts'
<1>1. BrokerInOrder'
    BY DEF Activate, CommandInv, BrokerInOrder, commandVars
<1> QED
    BY <1>1 DEF Activate, CommandInv, Parts, commandVars, mower, GatewayInOrder, AnswersTrue,
                ReportedOnce, VerdictsTrue

LEMMA ReadMqttParts == ASSUME CommandInv, ReadMqtt PROVE Parts'
<1> DEFINE packet == Head(fromBroker)
<1>1. /\ packet = fromBroker[1] /\ 1 \in 1 .. Len(fromBroker) /\ Len(fromBroker) \in Nat
      /\ Len(fromBroker') = Len(fromBroker) - 1
      /\ \A j \in 1 .. Len(fromBroker) - 1 : fromBroker'[j] = fromBroker[j + 1]
    BY TailByPosition DEF ReadMqtt, CommandInv, TypeInv, TypeOK, ReadableOK
<1>2. ASSUME NEW j \in 1 .. Len(fromBroker')
      PROVE  /\ j + 1 \in 1 .. Len(fromBroker) /\ fromBroker'[j] = fromBroker[j + 1]
             /\ 1 \in 1 .. (j + 1) - 1
             /\ \A k \in 1 .. j - 1 : k + 1 \in 1 .. (j + 1) - 1 /\ k \in 1 .. Len(fromBroker')
    BY <1>1
<1>3. UNCHANGED <<outcome, owes, fromGateway, given, verdict>>
    BY DEF ReadMqtt, mower
<1>4. AnswersTrue' /\ VerdictsTrue'
    BY <1>3 DEF CommandInv, AnswersTrue, VerdictsTrue
<1>5. CASE ~Forwards(packet)
  <2>1. UNCHANGED <<toGateway, pending, forwarded>>
    BY <1>5 DEF ReadMqtt
  <2>2. BrokerInOrder'
    BY <1>2, <1>3, <2>1 DEF CommandInv, BrokerInOrder
  <2>3. GatewayInOrder' /\ ReportedOnce'
    BY <1>3, <2>1 DEF CommandInv, GatewayInOrder, ReportedOnce
  <2> QED
    BY <1>4, <2>2, <2>3 DEF Parts
<1>6. CASE Forwards(packet)
  <2> DEFINE c == packet[2]
  <2>1. packet[1] = "live" /\ c \in Commands
    BY <1>6 DEF Forwards
  <2>2. /\ toGateway' = Append(toGateway, c) /\ pending' = pending \cup {c}
        /\ forwarded' = c
    BY <1>6 DEF ReadMqtt
  <2>3. forwarded < c /\ c <= given /\ c \in Nat /\ forwarded \in Nat
    BY <1>1, <2>1, CommandsAreInt, CountersAreInt DEF CommandInv, BrokerInOrder
  <2>4. BrokerInOrder'
    <3>1. ASSUME NEW j \in 1 .. Len(fromBroker'), fromBroker'[j][1] = "live"
          PROVE  /\ c < fromBroker'[j][2] /\ fromBroker'[j][2] <= given
                 /\ \A k \in 1 .. j - 1 :
                       fromBroker'[k][1] = "live" => fromBroker'[k][2] < fromBroker'[j][2]
        BY <1>1, <1>2, <2>1, <3>1 DEF CommandInv, BrokerInOrder
    <3> QED
        BY <1>3, <2>2, <2>3, <3>1 DEF BrokerInOrder
  <2>5. outcome[c] = "none" /\ verdict[c] = "none"
    BY <2>1, <2>3 DEF CommandInv, GatewayInOrder, ReportedOnce
  <2>6. GatewayInOrder'
    <3>1. /\ Len(toGateway') = Len(toGateway) + 1 /\ Len(toGateway) \in Nat
          /\ toGateway'[Len(toGateway) + 1] = c
          /\ \A j \in 1 .. Len(toGateway) : toGateway'[j] = toGateway[j]
        BY <2>2, AppendByPosition DEF CommandInv, TypeInv, TypeOK
    <3>2. \A j \in 1 .. Len(toGateway) : toGateway[j] \in Nat /\ toGateway[j] < c
      <4>a. \A j \in 1 .. Len(toGateway) : toGateway[j] \in Commands
        BY DEF CommandInv, TypeInv, TypeOK
      <4>1. \A j \in 1 .. Len(toGateway) : toGateway[j] \in Nat /\ toGateway[j] <= forwarded
        BY <4>a, CommandsAreInt DEF CommandInv, GatewayInOrder
      <4> QED
        BY <2>3, <4>1
    <3>3. \A d \in Commands : d > c => outcome[d] = "none"
        BY <2>3, CommandsAreInt DEF CommandInv, GatewayInOrder
    <3>4. ASSUME NEW j \in 1 .. Len(toGateway')
          PROVE  /\ toGateway'[j] <= c /\ outcome[toGateway'[j]] = "none"
                 /\ \A k \in 1 .. j - 1 : toGateway'[k] # toGateway'[j]
      <4>1. CASE j = Len(toGateway) + 1
        BY <2>3, <2>5, <3>1, <3>2, <4>1
      <4>2. CASE j \in 1 .. Len(toGateway)
        <5>1. \A k \in 1 .. j - 1 : k \in 1 .. Len(toGateway)
            BY <3>1, <4>2
        <5> QED
            BY <2>3, <3>1, <3>2, <4>2, <5>1 DEF CommandInv, GatewayInOrder
      <4> QED
        BY <3>1, <4>1, <4>2
    <3> QED
        BY <1>3, <2>2, <3>3, <3>4 DEF GatewayInOrder
  <2>7. ReportedOnce'
    BY <1>3, <2>2, <2>3, <2>5, CommandsAreInt DEF CommandInv, ReportedOnce
  <2> QED
    BY <1>4, <2>4, <2>6, <2>7 DEF Parts
<1> QED
    BY <1>5, <1>6

\* Commands that are settled were pending, so they have no verdict yet.
LEMMA ReportParts ==
    ASSUME CommandInv, NEW settled, settled \subseteq pending,
           NEW result \in {"confirmed", "declined", "unconfirmed"}, Report(settled, result),
           \A c \in settled :
              /\ result = "confirmed" => outcome[c] = "done"
              /\ result = "declined" => outcome[c] = "refused",
           UNCHANGED <<forwarded, outcome>>
    PROVE  ReportedOnce' /\ VerdictsTrue'
<1>1. \A c \in Commands : verdict'[c] = IF c \in settled THEN result ELSE verdict[c]
    BY DEF Report
<1>2. \A c \in Commands : c \in settled => c <= forwarded
    BY DEF CommandInv, ReportedOnce
<1>3. \A c \in Commands : c > forwarded => c \notin settled
    BY <1>2, CommandsAreInt, CountersAreInt DEF CommandInv
<1>4. ReportedOnce'
    BY <1>1, <1>3 DEF Report, CommandInv, ReportedOnce
<1>5. VerdictsTrue'
    BY <1>1 DEF CommandInv, VerdictsTrue
<1> QED
    BY <1>4, <1>5

LEMMA ReadWebSocketParts == ASSUME CommandInv, ReadWebSocket PROVE Parts'
<1> DEFINE frame == Head(fromGateway)
<1>1. fromGateway # << >> /\ fromGateway \in Seq(Frame)
    BY DEF ReadWebSocket, CommandInv, TypeInv, TypeOK, ReadableOK
<1>2. frame \in Frame /\ frame = fromGateway[1] /\ 1 \in 1 .. Len(fromGateway)
    BY <1>1, HeadAndTail, TailByPosition
<1>3. UNCHANGED <<given, forwarded, fromBroker, toGateway, owes, outcome>>
    BY DEF ReadWebSocket, mower
<1>4. AnswersTrue'
    BY <1>1, <1>3, DropFrame DEF ReadWebSocket
<1>5. BrokerInOrder' /\ GatewayInOrder'
    BY <1>3 DEF CommandInv, BrokerInOrder, GatewayInOrder
<1>6. ReportedOnce' /\ VerdictsTrue'
  <2>1. CASE frame[1] = "result"
    <3>1. /\ frame[2] \in Commands /\ frame[3] = outcome[frame[2]]
          /\ frame[3] \in {"done", "refused"}
        BY <1>2, <2>1, FrameParts DEF CommandInv, AnswersTrue, Outcome
    <3>2. Report(Settled(frame[2]), IF frame[3] = "done" THEN "confirmed" ELSE "declined")
        BY <2>1 DEF ReadWebSocket
    <3> QED
        BY <1>3, <3>1, <3>2, ReportParts DEF Settled
  <2>2. CASE frame[1] # "result"
    BY <1>3, <2>2 DEF ReadWebSocket, CommandInv, ReportedOnce, VerdictsTrue
  <2> QED
    BY <2>1, <2>2
<1> QED
    BY <1>4, <1>5, <1>6 DEF Parts

LEMMA EndRoundParts == ASSUME CommandInv, EndRound PROVE Parts'
<1>1. UNCHANGED <<given, forwarded, fromBroker, toGateway, fromGateway, owes, outcome>>
    BY DEF EndRound, streams, mower
<1>2. ReportedOnce' /\ VerdictsTrue'
  <2>1. late \subseteq pending /\ Report(late, "unconfirmed")
    BY DEF EndRound, Expire, CommandInv, TypeInv, TypeOK
  <2> QED
    BY <1>1, <2>1, ReportParts
<1>3. BrokerInOrder' /\ GatewayInOrder' /\ AnswersTrue'
    BY <1>1 DEF CommandInv, BrokerInOrder, GatewayInOrder, AnswersTrue
<1> QED
    BY <1>2, <1>3 DEF Parts

LEMMA FailParts == ASSUME CommandInv, Fail PROVE Parts'
<1>1. /\ fromBroker' = << >> /\ toGateway' = << >> /\ fromGateway' = << >>
      /\ owes' = {"devices"} \X Services /\ pending' = {}
      /\ UNCHANGED <<given, forwarded, verdict, outcome>>
    BY DEF Fail, mower
<1>2. BrokerInOrder' /\ GatewayInOrder'
    BY <1>1 DEF CommandInv, BrokerInOrder, GatewayInOrder
<1>3. \A c : <<"result", c>> \notin owes'
    BY <1>1
<1>4. AnswersTrue'
    BY <1>1, <1>3 DEF AnswersTrue
<1>5. ReportedOnce' /\ VerdictsTrue'
    BY <1>1 DEF CommandInv, ReportedOnce, VerdictsTrue
<1> QED
    BY <1>2, <1>4, <1>5 DEF Parts

\* A packet that arrives comes last.
LEMMA DeliverInOrder ==
    ASSUME CommandInv, NEW packet, Deliver(packet), UNCHANGED forwarded,
           given' \in Nat, given <= given',
           packet[1] = "live" => packet[2] \in Nat /\ given < packet[2] /\ packet[2] <= given'
    PROVE  BrokerInOrder'
<1>1. /\ Len(fromBroker') = Len(fromBroker) + 1 /\ Len(fromBroker) \in Nat
      /\ fromBroker'[Len(fromBroker) + 1] = packet
      /\ \A j \in 1 .. Len(fromBroker) : fromBroker'[j] = fromBroker[j]
    BY AppendByPosition DEF Deliver, CommandInv, TypeInv, TypeOK
<1>2. \A j \in 1 .. Len(fromBroker) : fromBroker[j][1] = "live" => fromBroker[j][2] \in Nat
  <2>1. ASSUME NEW j \in 1 .. Len(fromBroker), fromBroker[j][1] = "live"
        PROVE  fromBroker[j][2] \in Nat
    <3>1. fromBroker[j] \in Packet
        BY DEF CommandInv, TypeInv, TypeOK
    <3>2. fromBroker[j] \in {"live", "stored"} \X Commands
        BY <2>1, <3>1 DEF Packet
    <3> QED
        BY <3>2, CommandsAreInt
  <2> QED
    BY <2>1
<1>3. given \in Nat /\ forwarded \in Nat /\ forwarded <= given
    BY CountersAreInt DEF CommandInv, BrokerInOrder
<1>4. ASSUME NEW j \in 1 .. Len(fromBroker'), fromBroker'[j][1] = "live"
      PROVE  /\ forwarded < fromBroker'[j][2] /\ fromBroker'[j][2] <= given'
             /\ \A k \in 1 .. j - 1 :
                   fromBroker'[k][1] = "live" => fromBroker'[k][2] < fromBroker'[j][2]
  <2>1. CASE j = Len(fromBroker) + 1
    <3>1. \A k \in 1 .. j - 1 : k \in 1 .. Len(fromBroker)
        BY <1>1, <2>1
    <3>2. \A k \in 1 .. Len(fromBroker) : fromBroker[k][1] = "live" => fromBroker[k][2] <= given
        BY DEF CommandInv, BrokerInOrder
    <3> QED
        BY <1>1, <1>2, <1>3, <1>4, <2>1, <3>1, <3>2
  <2>2. CASE j \in 1 .. Len(fromBroker)
    <3>1. \A k \in 1 .. j - 1 : k \in 1 .. Len(fromBroker)
        BY <1>1, <2>2
    <3> QED
        BY <1>1, <1>2, <1>3, <1>4, <2>2, <3>1 DEF CommandInv, BrokerInOrder
  <2> QED
    BY <1>1, <2>1, <2>2
<1> QED
    BY <1>3, <1>4 DEF BrokerInOrder

LEMMA GiveCommandParts == ASSUME CommandInv, GiveCommand PROVE Parts'
<1>1. given' = given + 1 /\ given \in Nat
    BY CountersAreInt DEF GiveCommand, CommandInv
<1>2. BrokerInOrder'
    BY <1>1, DeliverInOrder DEF GiveCommand
<1> QED
    BY <1>2 DEF GiveCommand, CommandInv, Parts, mower, GatewayInOrder, AnswersTrue, ReportedOnce,
                VerdictsTrue

LEMMA DeliverUselessParts ==
    ASSUME CommandInv, NEW packet \in {<<"other">>, <<"invalid">>}, DeliverUseless(packet)
    PROVE  Parts'
<1>1. packet[1] # "live"
    OBVIOUS
<1>2. UNCHANGED <<given, forwarded>> /\ given \in Nat
    BY CountersAreInt DEF DeliverUseless, commandVars, CommandInv
<1>3. BrokerInOrder'
    BY <1>1, <1>2, DeliverInOrder DEF DeliverUseless
<1> QED
    BY <1>3 DEF DeliverUseless, CommandInv, Parts, commandVars, mower, GatewayInOrder,
                AnswersTrue, ReportedOnce, VerdictsTrue

LEMMA TakeCommandParts == ASSUME CommandInv, TakeCommand PROVE Parts'
<1> DEFINE c == Head(toGateway)
<1>1. /\ c = toGateway[1] /\ Len(toGateway) \in Nat /\ 1 \in 1 .. Len(toGateway)
      /\ Len(toGateway') = Len(toGateway) - 1
      /\ \A j \in 1 .. Len(toGateway) - 1 : toGateway'[j] = toGateway[j + 1]
    BY TailByPosition DEF TakeCommand, CommandInv, TypeInv, TypeOK
<1>2. c \in Commands /\ outcome[c] = "none" /\ c <= forwarded
    BY <1>1, HeadAndTail DEF TakeCommand, CommandInv, TypeInv, TypeOK, GatewayInOrder
<1>3. PICK result \in {"done", "refused"} : outcome' = [outcome EXCEPT ![c] = result]
    BY DEF TakeCommand
<1>4. \A d \in Commands : outcome'[d] = IF d = c THEN result ELSE outcome[d]
    BY <1>2, <1>3 DEF CommandInv, TypeInv, TypeOK
<1>5. UNCHANGED <<given, forwarded, fromBroker, fromGateway, pending, verdict>>
    BY DEF TakeCommand, commandVars
<1>6. BrokerInOrder' /\ ReportedOnce'
    BY <1>5 DEF CommandInv, BrokerInOrder, ReportedOnce
<1>7. VerdictsTrue'
    BY <1>2, <1>4, <1>5 DEF CommandInv, VerdictsTrue
<1>8. GatewayInOrder'
  <2>1. \A d \in Commands : d > forwarded => d # c
    BY <1>2, CommandsAreInt, CountersAreInt DEF CommandInv
  <2>2. ASSUME NEW j \in 1 .. Len(toGateway')
        PROVE  /\ toGateway'[j] <= forwarded /\ outcome'[toGateway'[j]] = "none"
               /\ \A k \in 1 .. j - 1 : toGateway'[k] # toGateway'[j]
    <3>1. /\ j + 1 \in 1 .. Len(toGateway) /\ toGateway'[j] = toGateway[j + 1]
          /\ 1 \in 1 .. (j + 1) - 1
          /\ \A k \in 1 .. j - 1 : k + 1 \in 1 .. (j + 1) - 1 /\ toGateway'[k] = toGateway[k + 1]
        BY <1>1
    <3>2. toGateway[j + 1] \in Commands /\ toGateway[j + 1] # c
        BY <1>1, <3>1 DEF CommandInv, TypeInv, TypeOK, GatewayInOrder
    <3> QED
        BY <1>4, <3>1, <3>2 DEF CommandInv, GatewayInOrder
  <2> QED
    BY <1>4, <1>5, <2>1, <2>2 DEF CommandInv, GatewayInOrder
<1>9. AnswersTrue'
  <2>1. \A d \in Commands : <<"result", d>> \in owes' => outcome'[d] # "none"
    <3>1. owes' \in {owes, owes \cup {<<"result", c>>}}
        BY DEF TakeCommand
    <3>2. \A d \in Commands : <<"result", d>> \in owes' => d = c \/ <<"result", d>> \in owes
        BY <3>1
    <3> QED
        BY <1>4, <3>2 DEF CommandInv, AnswersTrue
  <2>2. ASSUME NEW j \in 1 .. Len(fromGateway), fromGateway[j][1] = "result"
        PROVE  /\ fromGateway[j][3] = outcome'[fromGateway[j][2]]
               /\ fromGateway[j][3] # "none"
    <3>1. fromGateway[j] \in Frame
        BY DEF CommandInv, TypeInv, TypeOK
    <3>2. fromGateway[j][2] \in Commands
        BY <2>2, <3>1, FrameParts
    <3> QED
        BY <1>2, <1>4, <2>2, <3>2 DEF CommandInv, AnswersTrue
  <2> QED
    BY <1>5, <2>1, <2>2 DEF AnswersTrue
<1> QED
    BY <1>6, <1>7, <1>8, <1>9 DEF Parts

LEMMA AnswerParts == ASSUME CommandInv, Answer PROVE Parts'
<1> DEFINE answer(debt) == IF debt[1] = "result" THEN outcome[debt[2]]
                             ELSE IF debt[2] = "own" THEN real ELSE None
<1>1. PICK debt \in owes : SendFrame(<<debt[1], debt[2], answer(debt)>>) /\ owes' = owes \ {debt}
    BY DEF Answer
<1>2. UNCHANGED <<given, forwarded, fromBroker, toGateway, pending, verdict, outcome>>
    BY DEF Answer, commandVars, mower
<1>3. ASSUME debt[1] = "result"
      PROVE  answer(debt) = outcome[debt[2]] /\ answer(debt) # "none"
  <2>1. debt = <<"result", debt[2]>> /\ debt[2] \in Commands
    BY <1>3 DEF CommandInv, TypeInv, TypeOK
  <2>2. outcome[debt[2]] # "none"
    BY <2>1 DEF CommandInv, AnswersTrue
  <2> QED
    BY <1>3, <2>2
<1>4. AnswersTrue'
  <2> HIDE DEF answer
  <2>1. PICK frame : /\ SendFrame(frame)
                     /\ frame[1] = debt[1] /\ frame[2] = debt[2] /\ frame[3] = answer(debt)
    BY <1>1
  <2> QED
    BY <1>1, <1>2, <1>3, <2>1, AddFrame
<1> QED
    BY <1>2, <1>4 DEF CommandInv, Parts, BrokerInOrder, GatewayInOrder, ReportedOnce, VerdictsTrue

LEMMA MowerChangesParts == ASSUME CommandInv, MowerChanges PROVE Parts'
<1>1. PICK a : SendFrame(<<"update", a>>)
    BY DEF MowerChanges
<1>2. UNCHANGED <<given, forwarded, fromBroker, toGateway, pending, verdict, outcome, owes>>
    BY DEF MowerChanges, commandVars
<1>3. AnswersTrue'
    BY <1>1, <1>2, AddFrame
<1> QED
    BY <1>2, <1>3 DEF CommandInv, Parts, BrokerInOrder, GatewayInOrder, ReportedOnce, VerdictsTrue

LEMMA InitCommandInv == Init => CommandInv
<1> SUFFICES ASSUME Init PROVE CommandInv
    OBVIOUS
<1>1. TypeInv
    BY InitTypeInv
<1>2. \A c : <<"result", c>> \notin owes
    BY DEF Init
<1>3. \A c \in Commands : verdict[c] = "none" /\ outcome[c] = "none"
    BY DEF Init
<1>4. BrokerInOrder /\ GatewayInOrder /\ AnswersTrue /\ ReportedOnce /\ VerdictsTrue
    BY <1>2, <1>3
       DEF Init, BrokerInOrder, GatewayInOrder, AnswersTrue, ReportedOnce, VerdictsTrue
<1> QED
    BY <1>1, <1>4 DEF CommandInv

LEMMA NextCommandInv == CommandInv /\ [Next]_vars => CommandInv'
<1> SUFFICES ASSUME CommandInv, [Next]_vars PROVE Parts'
    BY NextTypeInv DEF CommandInv, Parts
<1>1. CASE NoRequest \/ Poll \/ Wait \/ BecomesLate \/ UNCHANGED vars
  <2>1. UNCHANGED commandState
    BY <1>1 DEF NoRequest, Poll, Wait, BecomesLate, vars, commandState, commandVars, streams, mower
  <2> QED
    BY <2>1, UnchangedParts
<1>2. CASE WorkerStep
    BY <1>1, <1>2, DiscoverParts, EnterLoopParts, ActivateParts, ReadMqttParts,
       ReadWebSocketParts, EndRoundParts, FailParts DEF WorkerStep, FindsClosed
<1>3. CASE Environment
    BY <1>1, <1>3, GiveCommandParts, DeliverUselessParts, TakeCommandParts, AnswerParts,
       MowerChangesParts DEF Environment
<1> QED
    BY <1>1, <1>2, <1>3, FailParts DEF Next

\* What is reported of a command is what the gateway did about it.
THEOREM ReportsAreTrue == Spec => []VerdictsTrue
<1>1. CommandInv => VerdictsTrue
    BY DEF CommandInv
<1> QED
    BY <1>1, InitCommandInv, NextCommandInv, PTL DEF Spec

\* Commands are forwarded in the order in which they were given, each at
\* most once.
THEOREM ForwardsInOrder == Spec => ForwardedInOrder
<1>1. CommandInv /\ [Next]_vars => [forwarded' # forwarded => forwarded' > forwarded]_vars
  <2> SUFFICES ASSUME CommandInv, Next, forwarded' # forwarded PROVE forwarded' > forwarded
    BY DEF vars
  <2>1. ReadMqtt
    BY DEF Next, WorkerStep, Environment, Discover, EnterLoop, Activate, NoRequest, Poll, Wait,
           ReadWebSocket, EndRound, FindsClosed, Fail, GiveCommand, DeliverUseless, TakeCommand,
           Answer, MowerChanges, BecomesLate, commandVars
  <2>2. Forwards(Head(fromBroker)) /\ forwarded' = Head(fromBroker)[2]
    BY <2>1 DEF ReadMqtt
  <2>3. Head(fromBroker) = fromBroker[1] /\ 1 \in 1 .. Len(fromBroker)
    BY <2>1, TailByPosition DEF ReadMqtt, CommandInv, TypeInv, TypeOK, ReadableOK
  <2>4. fromBroker[1][1] = "live" /\ fromBroker[1][2] \in Nat
    BY <2>2, <2>3, CommandsAreInt DEF Forwards
  <2> QED
    BY <2>2, <2>3, <2>4, CountersAreInt DEF CommandInv, BrokerInOrder
<1> QED
    BY <1>1, InitCommandInv, NextCommandInv, PTL DEF Spec, ForwardedInOrder

\* A report is final.
THEOREM ReportsAreFinal == Spec => VerdictFinal
<1> DEFINE Final == \A c \in Commands :
                       verdict[c] # "none" => verdict'[c] = verdict[c] /\ c \notin pending'
<1>1. CommandInv /\ [Next]_vars => [Final]_vars
  <2> SUFFICES ASSUME CommandInv, Next, NEW c \in Commands, verdict[c] # "none"
               PROVE  verdict'[c] = verdict[c] /\ c \notin pending'
    BY DEF vars
  <2>1. c \notin pending /\ ~(c > forwarded)
    BY DEF CommandInv, ReportedOnce
  <2>2. CASE ReadMqtt
    <3>1. CommandInv'
        BY NextCommandInv
    <3>2. verdict' = verdict
        BY <2>2 DEF ReadMqtt
    <3> QED
        BY <3>1, <3>2 DEF CommandInv, ReportedOnce
  <2>3. ASSUME NEW settled, NEW result, settled \subseteq pending, Report(settled, result)
        PROVE  verdict'[c] = verdict[c] /\ c \notin pending'
    BY <2>1, <2>3 DEF Report
  <2>4. CASE ReadWebSocket
    <3>1. \/ UNCHANGED <<pending, verdict>>
          \/ \E settled, result : settled \subseteq pending /\ Report(settled, result)
        BY <2>4 DEF ReadWebSocket, Settled
    <3> QED
        BY <2>1, <2>3, <3>1
  <2>5. CASE EndRound
    BY <2>3, <2>5 DEF EndRound, Expire, CommandInv, TypeInv, TypeOK
  <2>6. CASE Fail
    BY <2>6 DEF Fail
  <2>7. CASE ~(ReadMqtt \/ ReadWebSocket \/ EndRound \/ Fail)
    <3>1. UNCHANGED <<pending, verdict>>
        BY <2>7 DEF Next, WorkerStep, Environment, Discover, EnterLoop, Activate, NoRequest, Poll,
                    Wait, FindsClosed, GiveCommand, DeliverUseless, TakeCommand, Answer,
                    MowerChanges, BecomesLate, commandVars
    <3> QED
        BY <2>1, <3>1
  <2> QED
    BY <2>2, <2>4, <2>5, <2>6, <2>7
<1> QED
    BY <1>1, InitCommandInv, NextCommandInv, PTL DEF Spec, VerdictFinal
=============================================================================
