--------------------------- MODULE FramingProofs ---------------------------
(***************************************************************************)
(* What one side puts into the stream the other side takes out of it, for  *)
(* every length: proofs about the operators of Framing.                    *)
(***************************************************************************)
EXTENDS Framing, TLAPS

LEMMA DigitCountType ==
  ASSUME NEW n \in Lengths
  PROVE  DigitCount(n) \in 1 .. 4
BY SMT DEF DigitCount, Lengths

LEMMA WeightType == \A i \in 1 .. 4 : Weight(i) \in Nat \ {0}
BY SMT DEF Weight

\* Every digit is a byte, and only the last one ends the length.
LEMMA EncodedDigits ==
  ASSUME NEW n \in Lengths
  PROVE  /\ Encoded(n) \in Seq(Byte)
         /\ Len(Encoded(n)) = DigitCount(n)
         /\ \A i \in 1 .. DigitCount(n) :
               /\ Encoded(n)[i] % 128 = (n \div Weight(i)) % 128
               /\ Encoded(n)[i] >= 128 <=> i < DigitCount(n)
<1> DEFINE digit(i) == (n \div Weight(i)) % 128
           byte(i) == digit(i) + (IF i < DigitCount(n) THEN 128 ELSE 0)
<1>1. DigitCount(n) \in 1 .. 4
  BY DigitCountType
<1>2. \A i \in 1 .. 4 : n \div Weight(i) \in Nat
  BY SMT DEF Weight, Lengths
<1>3. \A i \in 1 .. 4 : digit(i) \in 0 .. 127
  BY <1>2
<1>4. \A i \in 1 .. 4 : byte(i) \in Byte /\ byte(i) % 128 = digit(i)
                         /\ (byte(i) >= 128 <=> i < DigitCount(n))
  <2> SUFFICES ASSUME NEW i \in 1 .. 4
               PROVE  byte(i) \in Byte /\ byte(i) % 128 = digit(i)
                         /\ (byte(i) >= 128 <=> i < DigitCount(n))
    OBVIOUS
  <2>1. digit(i) \in 0 .. 127
    BY <1>3
  <2> HIDE DEF digit
  <2> QED
    BY <2>1, <1>1 DEF Byte
<1>5. Encoded(n) = [i \in 1 .. DigitCount(n) |-> byte(i)]
  BY DEF Encoded
<1> HIDE DEF byte
<1>6. Encoded(n) \in Seq(Byte) /\ Len(Encoded(n)) = DigitCount(n)
  BY <1>1, <1>4, <1>5
<1>7. \A i \in 1 .. DigitCount(n) : Encoded(n)[i] = byte(i)
  BY <1>5
<1> QED
  BY <1>1, <1>4, <1>6, <1>7

\* n is the sum of its digits.
LEMMA DigitSum ==
  ASSUME NEW n \in Lengths
  PROVE  /\ n < 128 => n = n % 128
         /\ n < 16384 => n = (n % 128) + ((n \div 128) % 128) * 128
         /\ n < 2097152 =>
               n = (n % 128) + ((n \div 128) % 128) * 128 + ((n \div 16384) % 128) * 16384
         /\ n = (n % 128) + ((n \div 128) % 128) * 128 + ((n \div 16384) % 128) * 16384
                  + ((n \div 2097152) % 128) * 2097152
BY SMT DEF Lengths

\* The remaining length is read as it was written (_encode_remaining_length
\* and MqttClient.receive of protocol.py, send and receive of transport.go),
\* for all lengths of up to four digits and whatever follows in the stream.
THEOREM LengthIsKept ==
  ASSUME NEW n \in Lengths, NEW rest \in Bytes
  PROVE  /\ Encoded(n) \o rest \in Bytes
         /\ LengthEnds(Encoded(n) \o rest, DigitCount(n))
         /\ Value(Encoded(n) \o rest, DigitCount(n)) = n
<1> DEFINE count == DigitCount(n)
           bytes == Encoded(n) \o rest
<1>1. count \in 1 .. 4
  BY DigitCountType
<1>2. /\ Encoded(n) \in Seq(Byte) /\ Len(Encoded(n)) = count
      /\ \A i \in 1 .. count : /\ Encoded(n)[i] % 128 = (n \div Weight(i)) % 128
                               /\ Encoded(n)[i] >= 128 <=> i < count
  BY EncodedDigits
<1>3. bytes \in Bytes /\ Len(bytes) >= count
  BY <1>1, <1>2 DEF Bytes
<1>4. \A i \in 1 .. count : bytes[i] = Encoded(n)[i]
  BY <1>1, <1>2 DEF Bytes
<1>5. \A i \in 1 .. count : bytes[i] \in Nat /\ bytes[i] % 128 = (n \div Weight(i)) % 128
                              /\ (bytes[i] >= 128 <=> i < count)
  <2>1. \A i \in 1 .. count : Encoded(n)[i] \in Byte
    BY <1>1, <1>2
  <2> QED
    BY <2>1, <1>2, <1>4 DEF Byte
<1>6. LengthEnds(bytes, count)
  <2>1. \A j \in 1 .. count - 1 : j \in 1 .. count /\ j < count
    BY <1>1
  <2>2. count \in 1 .. count /\ ~(count < count)
    BY <1>1
  <2> HIDE DEF count, bytes
  <2>3. bytes[count] < 128
    BY <1>5, <2>2
  <2>4. \A j \in 1 .. count - 1 : bytes[j] >= 128
    BY <1>5, <2>1
  <2> QED
    BY <1>1, <1>3, <2>3, <2>4 DEF LengthEnds
<1>7. Value(bytes, count) = n
  <2>0. /\ n < 128 => n = n % 128
        /\ n < 16384 => n = (n % 128) + ((n \div 128) % 128) * 128
        /\ n < 2097152 =>
              n = (n % 128) + ((n \div 128) % 128) * 128 + ((n \div 16384) % 128) * 16384
        /\ n = (n % 128) + ((n \div 128) % 128) * 128 + ((n \div 16384) % 128) * 16384
                 + ((n \div 2097152) % 128) * 2097152
    BY DigitSum
  <2>1. \A i \in 1 .. count : Term(bytes, i) = ((n \div Weight(i)) % 128) * Weight(i)
    BY <1>5 DEF Term
  <2>2. CASE count = 1
    <3>1. n < 128
      BY <2>2, SMT DEF DigitCount, Lengths
    <3>2. Term(bytes, 1) = n % 128
      BY <2>1, <2>2, SMT DEF Weight, Lengths
    <3> QED
      BY <2>2, <3>1, <3>2, <2>0, SMT DEF Value, Lengths
  <2>3. CASE count = 2
    <3>1. n < 16384
      BY <2>3, SMT DEF DigitCount, Lengths
    <3>2. Term(bytes, 1) = n % 128 /\ Term(bytes, 2) = ((n \div 128) % 128) * 128
      BY <2>1, <2>3, SMT DEF Weight, Lengths
    <3> QED
      BY <2>3, <3>1, <3>2, <2>0, SMT DEF Value, Lengths
  <2>4. CASE count = 3
    <3>1. n < 2097152
      BY <2>4, SMT DEF DigitCount, Lengths
    <3>2. /\ Term(bytes, 1) = n % 128 /\ Term(bytes, 2) = ((n \div 128) % 128) * 128
          /\ Term(bytes, 3) = ((n \div 16384) % 128) * 16384
      BY <2>1, <2>4, SMT DEF Weight, Lengths
    <3> QED
      BY <2>4, <3>1, <3>2, <2>0, SMT DEF Value, Lengths
  <2>5. CASE count = 4
    <3>1. /\ Term(bytes, 1) = n % 128 /\ Term(bytes, 2) = ((n \div 128) % 128) * 128
          /\ Term(bytes, 3) = ((n \div 16384) % 128) * 16384
          /\ Term(bytes, 4) = ((n \div 2097152) % 128) * 2097152
      BY <2>1, <2>5, SMT DEF Weight, Lengths
    <3> QED
      BY <2>5, <3>1, <2>0, SMT DEF Value, Lengths
  <2> QED
    BY <1>1, <2>2, <2>3, <2>4, <2>5
<1> QED
  BY <1>3, <1>6, <1>7

\* A reader finds one end of the length only.
LEMMA OneEnd ==
  ASSUME NEW bytes \in Bytes, NEW k, NEW l, LengthEnds(bytes, k), LengthEnds(bytes, l)
  PROVE  k = l
<1>1. k \in 1 .. 4 /\ l \in 1 .. 4 /\ k <= Len(bytes) /\ l <= Len(bytes)
  BY DEF LengthEnds
<1>2. bytes[k] \in Nat /\ bytes[l] \in Nat
  BY <1>1 DEF Bytes, Byte
<1>3. ~(k < l) /\ ~(l < k)
  BY <1>1, <1>2 DEF LengthEnds
<1> QED
  BY <1>1, <1>3

\* With every digit the length can only grow.
LEMMA ValueGrows ==
  ASSUME NEW bytes \in Bytes, NEW k \in 1 .. 4, k <= Len(bytes), NEW j \in 1 .. k
  PROVE  Value(bytes, j) \in Nat /\ Value(bytes, j) <= Value(bytes, k)
<1>1. \A i \in 1 .. k : Term(bytes, i) \in Nat
  <2> SUFFICES ASSUME NEW i \in 1 .. k PROVE Term(bytes, i) \in Nat
    OBVIOUS
  <2>1. bytes[i] \in Nat
    BY DEF Bytes, Byte
  <2>2. bytes[i] % 128 \in Nat
    BY <2>1
  <2>3. Weight(i) \in Nat
    BY WeightType
  <2> QED
    BY <2>2, <2>3 DEF Term
<1>2. /\ Term(bytes, 1) \in Nat /\ (k >= 2 => Term(bytes, 2) \in Nat)
      /\ (k >= 3 => Term(bytes, 3) \in Nat) /\ (k >= 4 => Term(bytes, 4) \in Nat)
  BY <1>1
<1>3. CASE k \in {1, 2}
  BY <1>2, <1>3, SMT DEF Value
<1>4. CASE k = 3
  BY <1>2, <1>4, SMT DEF Value
<1>5. CASE k = 4
  BY <1>2, <1>5, SMT DEF Value
<1> QED
  BY <1>3, <1>4, <1>5

\* The app and the runtime take the same packets, although the runtime looks
\* at the limit after each digit and the app once (protocol.py 158-169,
\* transport.go 38-40).
THEOREM ReadersAgree ==
  ASSUME NEW bytes \in Bytes, NEW k
  PROVE  AppTakes(bytes, k) <=> RuntimeTakes(bytes, k)
<1>1. ASSUME AppTakes(bytes, k) PROVE RuntimeTakes(bytes, k)
  <2>1. k \in 1 .. 4 /\ k <= Len(bytes)
    BY <1>1 DEF AppTakes, LengthEnds
  <2>2. \A j \in 1 .. k : Value(bytes, j) \in Nat /\ Value(bytes, j) <= Value(bytes, k)
    BY <2>1, ValueGrows
  <2>3. Value(bytes, k) \in Nat
    BY <2>1, <2>2
  <2> QED
    BY <1>1, <2>2, <2>3, SMT DEF AppTakes, RuntimeTakes, MAX_PACKET_BYTES
<1>2. ASSUME RuntimeTakes(bytes, k) PROVE AppTakes(bytes, k)
  <2>1. k \in 1 .. k
    BY <1>2 DEF RuntimeTakes, LengthEnds
  <2> QED
    BY <1>2, <2>1 DEF AppTakes, RuntimeTakes
<1> QED
  BY <1>1, <1>2

\* The body of a packet is taken out of the stream whole, and the reader is
\* then at the next packet (_send_packet and receive): bytes never shift
\* from one packet to another.
THEOREM PacketsStayApart ==
  ASSUME NEW body \in Bytes, Len(body) <= MAX_PACKET_BYTES, NEW rest \in Bytes
  PROVE  LET bytes == Encoded(Len(body)) \o body \o rest
             k == DigitCount(Len(body))
         IN  AppTakes(bytes, k) /\ Body(bytes, k) = body /\ Behind(bytes, k) = rest
<1> DEFINE n == Len(body)
           k == DigitCount(n)
           head == Encoded(n)
           bytes == head \o body \o rest
<1>1. n \in Lengths /\ n \in Nat /\ n <= MAX_PACKET_BYTES
  BY SMT DEF Lengths, Bytes, MAX_PACKET_BYTES
<1>2. head \in Seq(Byte) /\ Len(head) = k /\ k \in 1 .. 4
  BY <1>1, EncodedDigits, DigitCountType
<1>3. body \in Seq(Byte) /\ rest \in Seq(Byte) /\ n = Len(body)
  BY DEF Bytes
<1>4. body \o rest \in Bytes /\ bytes = head \o (body \o rest)
  BY <1>2, <1>3 DEF Bytes
<1>5. LengthEnds(bytes, k) /\ Value(bytes, k) = n
  BY <1>1, <1>4, LengthIsKept
<1> HIDE DEF n, k, head
<1>6. /\ Len(bytes) = k + n + Len(rest)
      /\ \A i \in 1 .. n : bytes[k + i] = body[i]
      /\ \A i \in 1 .. Len(rest) : bytes[k + n + i] = rest[i]
  BY SMTT(30), <1>1, <1>2, <1>3
<1> HIDE DEF bytes
<1>7. bytes \in Seq(Byte) /\ Len(rest) \in Nat
  BY <1>2, <1>3 DEF bytes
<1>8. Body(bytes, k) = body
  <2>1. Body(bytes, k) \in Seq(Byte) /\ Len(Body(bytes, k)) = n
    BY <1>1, <1>2, <1>5, <1>6, <1>7 DEF Body
  <2>2. \A i \in 1 .. n : Body(bytes, k)[i] = body[i]
    BY <1>1, <1>2, <1>5, <1>6, <1>7 DEF Body
  <2> QED
    BY <1>1, <1>3, <2>1, <2>2
<1>9. Behind(bytes, k) = rest
  <2>1. Behind(bytes, k) = SubSeq(bytes, k + n + 1, k + n + Len(rest))
    BY <1>5, <1>6 DEF Behind
  <2>3. k + n + 1 \in Nat /\ k + n + Len(rest) \in Nat /\ k + n + 1 >= 1
    BY <1>1, <1>2, <1>7
  <2>4. Len(Behind(bytes, k)) = Len(rest)
    BY <1>1, <1>2, <1>7, <2>1, <2>3
  <2>5. Behind(bytes, k) \in Seq(Byte)
    BY <1>1, <1>2, <1>6, <1>7, <2>1, <2>3
  <2>2. \A i \in 1 .. Len(rest) : Behind(bytes, k)[i] = rest[i]
    BY <1>1, <1>2, <1>6, <1>7, <2>1, <2>3
  <2> QED
    BY <1>3, <1>7, <2>2, <2>4, <2>5
<1> QED
  BY <1>1, <1>5, <1>8, <1>9 DEF AppTakes, bytes, head, k, n

LEMMA Concatenation ==
  ASSUME NEW s \in Seq(Byte), NEW t \in Seq(Byte)
  PROVE  /\ s \o t \in Seq(Byte) /\ Len(s \o t) = Len(s) + Len(t)
         /\ \A i \in 1 .. Len(s) : (s \o t)[i] = s[i]
         /\ \A i \in 1 .. Len(t) : (s \o t)[Len(s) + i] = t[i]
OBVIOUS

\* A number below 64 KiB is kept by its two bytes.
LEMMA TwoBytes ==
  ASSUME NEW n \in Nat, n < 65536
  PROVE  n \div 256 \in Byte /\ n % 256 \in Byte /\ 256 * (n \div 256) + (n % 256) = n
<1>1. n \div 256 \in Byte /\ n % 256 \in Byte
  BY SMT DEF Byte
<1>2. 256 * (n \div 256) + (n % 256) = n
  BY SMT
<1> QED
  BY <1>1, <1>2

\* What publish sends for a topic without wildcards, parse_publish takes
\* apart into the same topic and payload, at quality of service 0, retained
\* or not (protocol.py 80-82, 118-121, 174-191), for all lengths.
THEOREM PublishParses ==
  ASSUME NEW topic \in Topics, NEW payload \in Bytes, NEW flags \in {0, 1}
  PROVE  LET body == MqttString(topic) \o payload
         IN  Parses(flags, body) /\ TopicOf(body) = topic /\ PayloadOf(body) = payload
<1> DEFINE n == Len(topic)
           size == <<n \div 256, n % 256>>
           body == size \o topic \o payload
<1>0. n \in Nat /\ n < 65536
  BY SMT DEF Topics, Bytes
<1>1. n \in Nat /\ n > 0 /\ topic \in Seq(Byte) /\ payload \in Seq(Byte) /\ Len(payload) \in Nat
  BY SMT DEF Topics, Bytes
<1>2. n \div 256 \in Byte /\ n % 256 \in Byte /\ 256 * (n \div 256) + (n % 256) = n
  BY <1>0, TwoBytes
<1>3. size \in Seq(Byte) /\ Len(size) = 2 /\ size[1] = n \div 256 /\ size[2] = n % 256
  BY <1>2
<1>4. n = Len(topic)
  OBVIOUS
<1> HIDE DEF n, size
<1>5. /\ body \in Seq(Byte) /\ Len(body) = 2 + n + Len(payload)
      /\ body[1] = size[1] /\ body[2] = size[2]
      /\ \A i \in 1 .. n : body[2 + i] = topic[i]
      /\ \A i \in 1 .. Len(payload) : body[2 + n + i] = payload[i]
  <2>0. size \in Seq(Byte) /\ topic \in Seq(Byte) /\ payload \in Seq(Byte)
    BY <1>1, <1>3
  <2>1. /\ size \o topic \in Seq(Byte) /\ Len(size \o topic) = Len(size) + Len(topic)
        /\ \A i \in 1 .. Len(size) : (size \o topic)[i] = size[i]
        /\ \A i \in 1 .. Len(topic) : (size \o topic)[Len(size) + i] = topic[i]
    BY <2>0, Concatenation
  <2> DEFINE front == size \o topic
  <2> HIDE DEF front
  <2>2. front \in Seq(Byte) /\ Len(front) = 2 + n
    BY <1>3, <1>4, <2>1 DEF front
  <2>3. front[1] = size[1] /\ front[2] = size[2] /\ \A i \in 1 .. n : front[2 + i] = topic[i]
    BY <1>3, <1>4, <2>1 DEF front
  <2>4. /\ front \o payload \in Seq(Byte)
        /\ Len(front \o payload) = Len(front) + Len(payload)
        /\ \A i \in 1 .. Len(front) : (front \o payload)[i] = front[i]
        /\ \A i \in 1 .. Len(payload) : (front \o payload)[Len(front) + i] = payload[i]
    BY <2>0, <2>2, Concatenation
  <2>5. body = front \o payload
    BY DEF front
  <2> HIDE DEF body
  <2>6. /\ body \in Seq(Byte) /\ Len(body) = 2 + n + Len(payload)
        /\ \A i \in 1 .. 2 + n : body[i] = front[i]
        /\ \A i \in 1 .. Len(payload) : body[2 + n + i] = payload[i]
    BY <2>2, <2>4, <2>5
  <2> QED
    BY <1>1, <2>3, <2>6
<1> HIDE DEF body
<1>6. TopicLength(body) = n
  BY <1>2, <1>3, <1>5 DEF TopicLength
<1>7. TopicOf(body) = topic
  <2>1. TopicOf(body) \in Seq(Byte) /\ Len(TopicOf(body)) = n
    BY <1>1, <1>5, <1>6 DEF TopicOf
  <2>2. \A i \in 1 .. n : TopicOf(body)[i] = topic[i]
    BY <1>1, <1>5, <1>6 DEF TopicOf
  <2> QED
    BY <1>1, <1>4, <2>1, <2>2
<1>8. PayloadOf(body) = payload
  <2>1. PayloadOf(body) \in Seq(Byte) /\ Len(PayloadOf(body)) = Len(payload)
    BY <1>1, <1>5, <1>6 DEF PayloadOf
  <2>2. \A i \in 1 .. Len(payload) : PayloadOf(body)[i] = payload[i]
    BY <1>1, <1>5, <1>6 DEF PayloadOf
  <2> QED
    BY <1>1, <2>1, <2>2
<1>9. Parses(flags, body)
  <2>1. (flags \div 2) % 4 = 0
    BY SMT
  <2> QED
    BY <1>1, <1>4, <1>5, <1>6, <1>7, <2>1 DEF Parses, Topics
<1>10. body = MqttString(topic) \o payload
  BY DEF body, size, n, MqttString
<1> QED
  BY <1>7, <1>8, <1>9, <1>10

\* A text of up to 256 KiB is taken for what it is, at every width of its
\* length (send_text and receive_text, send and receive of transport.go); a
\* longer one is refused.
THEOREM FrameLengthIsKept ==
  ASSUME NEW n \in Words
  PROVE  /\ FrameLength(Header(FALSE, n)) = n
         /\ FrameTaken(Header(FALSE, n)) <=> n <= MAX_PACKET_BYTES
<1> DEFINE frame == Header(FALSE, n)
           kept == /\ FrameLength(frame) = n
                   /\ FrameTaken(frame) <=> n <= MAX_PACKET_BYTES
<1>0. n \in Nat
  BY SMT DEF Words
<1>1. ASSUME n < 126 PROVE kept
  <2>1. frame[1] = 129 /\ frame[2] = n
    BY <1>0, <1>1, SMT DEF Header
  <2> HIDE DEF frame
  <2>2. frame[1] \div 16 = 8 /\ frame[1] % 16 = 1 /\ frame[2] % 128 = n
    BY <1>0, <1>1, <2>1, SMT
  <2>3. HeaderLength(frame) = 2
    BY <1>0, <1>1, <2>2, SMT DEF HeaderLength
  <2>4. FrameLength(frame) = n
    BY <2>2, <2>3, SMT DEF FrameLength
  <2> QED
    BY <1>0, <1>1, <2>1, <2>2, <2>4, SMT DEF FrameTaken, MAX_PACKET_BYTES
<1>2. ASSUME n >= 126, n < 65536 PROVE kept
  <2>1. frame[1] = 129 /\ frame[2] = 126 /\ frame[3] = n \div 256 /\ frame[4] = n % 256
    BY <1>0, <1>2, SMT DEF Header
  <2> HIDE DEF frame
  <2>2. frame[1] \div 16 = 8 /\ frame[1] % 16 = 1 /\ frame[2] % 128 = 126
    BY <1>0, <2>1, SMT
  <2>3. HeaderLength(frame) = 4
    BY <1>0, <2>2, SMT DEF HeaderLength
  <2>4. 256 * (n \div 256) + (n % 256) = n
    BY <1>0, <1>2, TwoBytes
  <2>5. FrameLength(frame) = n
    BY <1>0, <2>1, <2>3, <2>4, SMT DEF FrameLength
  <2> QED
    BY <1>0, <1>2, <2>1, <2>2, <2>5, SMT DEF FrameTaken, MAX_PACKET_BYTES
<1>3. ASSUME n >= 65536 PROVE kept
  <2>1. /\ frame[1] = 129 /\ frame[2] = 127
        /\ frame[3] = 0 /\ frame[4] = 0 /\ frame[5] = 0 /\ frame[6] = 0
        /\ frame[7] = n \div 16777216 /\ frame[8] = (n \div 65536) % 256
        /\ frame[9] = (n \div 256) % 256 /\ frame[10] = n % 256
    BY <1>0, <1>3, SMT DEF Header
  <2> HIDE DEF frame
  <2>2. frame[1] \div 16 = 8 /\ frame[1] % 16 = 1 /\ frame[2] % 128 = 127
    BY <1>0, <2>1, SMT
  <2>3. HeaderLength(frame) = 10
    BY <1>0, <2>2, SMT DEF HeaderLength
  <2>4. n = 16777216 * (n \div 16777216) + 65536 * ((n \div 65536) % 256)
              + 256 * ((n \div 256) % 256) + (n % 256)
    BY SMT DEF Words
  <2>5. FrameLength(frame) = n
    <3>1. ~(\E i \in 3 .. 6 : frame[i] # 0)
      BY <2>1
    <3>2. FrameLength(frame) =
            16777216 * frame[7] + 65536 * frame[8] + 256 * frame[9] + frame[10]
      BY <1>0, <2>3, <3>1, SMT DEF FrameLength
    <3> QED
      BY <1>0, <2>1, <2>4, <3>2, SMT
  <2> QED
    BY <1>0, <1>3, <2>1, <2>2, <2>5, SMT DEF FrameTaken, MAX_PACKET_BYTES
<1> HIDE DEF kept
<1>4. kept
  BY <1>0, <1>1, <1>2, <1>3, SMT
<1> QED
  BY <1>4 DEF kept, frame
=============================================================================
