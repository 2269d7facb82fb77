----------------------------- MODULE MCFraming -----------------------------
(* Framing at its boundaries, against the loops of the code as recursions. *)
(* TLC evaluates the assumptions with the run of MCWorkerLoop.             *)
EXTENDS Framing

\* Around every change of size, and the limits.
Boundaries ==
    {0, 1, 125, 126, 127, 128, 129, 255, 256, 16383, 16384, 16385, 65535, 65536,
     262143, 262144, 262145, 2097151, 2097152, 268435455}

\* _encode_remaining_length as it is written.
RECURSIVE EncodeLoop(_)
EncodeLoop(n) == IF n < 128 THEN <<n>> ELSE <<128 + (n % 128)>> \o EncodeLoop(n \div 128)

\* The length loop of MqttClient.receive: -1 for a refusal.
RECURSIVE ReceiveLoop(_, _, _, _)
ReceiveLoop(bytes, i, multiplier, remaining) ==
    IF i > Len(bytes) \/ multiplier > 2097152 THEN -1
    ELSE LET sum == remaining + ((bytes[i] % 128) * multiplier)
         IN  IF bytes[i] >= 128 THEN ReceiveLoop(bytes, i + 1, multiplier * 128, sum)
             ELSE IF sum > MAX_PACKET_BYTES THEN -1 ELSE sum

Digits == {0, 1, 15, 16, 127, 128, 129, 143, 144, 255}
Lists == UNION {[1 .. k -> Digits] : k \in 0 .. 4} \cup [1 .. 5 -> {127, 128, 255}]

ASSUME EncodedAsWritten == \A n \in Boundaries : Encoded(n) = EncodeLoop(n)

ASSUME ReceivedAsWritten ==
    \A bytes \in Lists :
        LET result == ReceiveLoop(bytes, 1, 1, 0)
        IN  IF result = -1 THEN \A k \in 1 .. 5 : ~AppTakes(bytes, k)
            ELSE \E k \in 1 .. 4 : AppTakes(bytes, k) /\ Value(bytes, k) = result

ASSUME ReadersAgreeHere ==
    \A bytes \in Lists : \A k \in 1 .. 4 : AppTakes(bytes, k) <=> RuntimeTakes(bytes, k)

\* test_remaining_length_encoding.
ASSUME EncodedAsTested ==
    /\ Encoded(0) = <<0>> /\ Encoded(127) = <<127>>
    /\ Encoded(128) = <<128, 1>> /\ Encoded(16384) = <<128, 128, 1>>

ASSUME FramesAtBoundaries ==
    \A n \in Boundaries :
        /\ FrameLength(Header(FALSE, n)) = n
        /\ FrameTaken(Header(FALSE, n)) <=> n <= MAX_PACKET_BYTES
=============================================================================
