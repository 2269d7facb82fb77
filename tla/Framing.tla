------------------------------ MODULE Framing ------------------------------
(***************************************************************************)
(* How a message is cut out of a stream of bytes: the MQTT packets and     *)
(* WebSocket frames of the app (protocol.py) and of the gateway runtime    *)
(* (transport.go).  The two programs have encoders and decoders of their   *)
(* own and talk to the same broker, about the same topics.                 *)
(*                                                                         *)
(* A byte is a number, a string is the sequence of its bytes.  Whether     *)
(* bytes are UTF-8 and what the masking of a client's frames does to them  *)
(* is left out.  Theorems are in FramingProofs.                            *)
(***************************************************************************)
EXTENDS Integers, Sequences

Byte == {b \in Nat : b < 256}
Bytes == Seq(Byte)

\* The largest packet or frame either program takes: 256 KiB.
MAX_PACKET_BYTES == 262144
-----------------------------------------------------------------------------
(* The remaining length of an MQTT packet: one to four digits of seven     *)
(* bits, the lowest first; every digit but the last carries the bit 128.   *)

Weight(i) == <<1, 128, 16384, 2097152>>[i]

\* The lengths that have four digits or less.
Lengths == {n \in Nat : n < 268435456}

\* The loop divides by 128 until nothing is left.
DigitCount(n) ==
    CASE n < 128 -> 1
      [] n >= 128 /\ n < 16384 -> 2
      [] n >= 16384 /\ n < 2097152 -> 3
      [] OTHER -> 4

Encoded(n) ==
    [i \in 1 .. DigitCount(n) |->
        ((n \div Weight(i)) % 128) + (IF i < DigitCount(n) THEN 128 ELSE 0)]

\* What the first k digits say.
Term(bytes, i) == (bytes[i] % 128) * Weight(i)

Value(bytes, k) ==
    Term(bytes, 1) + (IF k >= 2 THEN Term(bytes, 2) ELSE 0)
      + (IF k >= 3 THEN Term(bytes, 3) ELSE 0) + (IF k >= 4 THEN Term(bytes, 4) ELSE 0)

\* A reader goes on to the next digit while the bit is set, four at most.
LengthEnds(bytes, k) ==
    /\ k \in 1 .. 4 /\ k <= Len(bytes)
    /\ bytes[k] < 128
    /\ \A j \in 1 .. k - 1 : bytes[j] >= 128

\* The app looks at the limit when it has the whole length, the runtime
\* after each digit.
AppTakes(bytes, k) == LengthEnds(bytes, k) /\ Value(bytes, k) <= MAX_PACKET_BYTES

RuntimeTakes(bytes, k) ==
    /\ LengthEnds(bytes, k)
    /\ \A j \in 1 .. k : Value(bytes, j) <= MAX_PACKET_BYTES

\* The body of a packet, and where the next packet begins.
Body(bytes, k) == SubSeq(bytes, k + 1, k + Value(bytes, k))
Behind(bytes, k) == SubSeq(bytes, k + Value(bytes, k) + 1, Len(bytes))
-----------------------------------------------------------------------------
(* PUBLISH: a topic with two bytes of length, and the payload.             *)

\* struct.pack refuses a string of 64 KiB or more.
MqttString(s) == <<Len(s) \div 256, Len(s) % 256>> \o s

\* "#", "+" and NUL have no place in a topic.
Wildcards == {35, 43, 0}

Topics ==
    {s \in Bytes : /\ Len(s) > 0 /\ Len(s) < 65536
                   /\ \A i \in 1 .. Len(s) : s[i] \notin Wildcards}

TopicLength(body) == 256 * body[1] + body[2]
TopicOf(body) == SubSeq(body, 3, 2 + TopicLength(body))
PayloadOf(body) == SubSeq(body, 3 + TopicLength(body), Len(body))

\* What parse_publish takes: quality of service 0, a topic inside the body
\* that is not empty and has no wildcard.
Parses(flags, body) ==
    /\ (flags \div 2) % 4 = 0
    /\ Len(body) >= 2
    /\ 2 + TopicLength(body) <= Len(body)
    /\ TopicLength(body) > 0
    /\ \A i \in 1 .. TopicLength(body) : TopicOf(body)[i] \notin Wildcards
-----------------------------------------------------------------------------
(* WebSocket: the second byte has a bit for the mask and seven for the     *)
(* length, or for the news that two or eight bytes with the length follow. *)

\* Lengths of 32 bits.
Words == {n \in Nat : n \div 65536 < 65536}

\* The header of n bytes of text; clients mask what they send.
Header(masked, n) ==
    LET mask == IF masked THEN 128 ELSE 0
    IN  CASE n < 126 -> <<129, mask + n>>
          [] n >= 126 /\ n < 65536 -> <<129, mask + 126, n \div 256, n % 256>>
          [] OTHER -> <<129, mask + 127, 0, 0, 0, 0, n \div 16777216, (n \div 65536) % 256,
                        (n \div 256) % 256, n % 256>>

\* Which bytes of a frame hold its length, and what they say.
HeaderLength(frame) ==
    CASE frame[2] % 128 < 126 -> 2
      [] frame[2] % 128 = 126 -> 4
      [] frame[2] % 128 = 127 -> 10

FrameLength(frame) ==
    CASE HeaderLength(frame) = 2 -> frame[2] % 128
      [] HeaderLength(frame) = 4 -> 256 * frame[3] + frame[4]
      [] HeaderLength(frame) = 10 ->
            IF \E i \in 3 .. 6 : frame[i] # 0 THEN MAX_PACKET_BYTES + 1
            ELSE 16777216 * frame[7] + 65536 * frame[8] + 256 * frame[9] + frame[10]

\* A frame in one piece without extensions and mask, within the limits: at
\* most 125 bytes in a control frame (opcode 8 and more).
FrameTaken(frame) ==
    /\ frame[1] \div 16 = 8 /\ frame[2] < 128
    /\ FrameLength(frame) <= MAX_PACKET_BYTES
    /\ frame[1] % 16 >= 8 => FrameLength(frame) <= 125
=============================================================================
