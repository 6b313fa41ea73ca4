----------------------------- MODULE MqttCodec ------------------------------
(***************************************************************************)
(* The packets of mqtt.c as sequences of bytes: how the client builds them *)
(* and how it takes them apart.  LenBase is the base of the variable       *)
(* length field: a byte holds a digit, and a continuation bit worth        *)
(* LenBase.                                                                *)
(***************************************************************************)
EXTENDS Integers, Sequences, FiniteSetsExt, SequencesExt

CONSTANTS
  LenBase,    \* 128
  TopicSize,  \* size of s_cur_topic (128), counting the final zero
  OutCap      \* size of the buffer a packet is built in (512)

(* The largest uint16_t: lengths, packet ids.                               *)
U16Max == 65535

ASSUME CodecAssumption ==
  /\ LenBase \in 2 .. 128 /\ TopicSize \in Nat \ {0} /\ OutCap \in 0 .. U16Max
  \* Four digits are enough for the length of every packet that fits.
  /\ OutCap < LenBase * LenBase * LenBase * LenBase

LenDigits[n \in Nat] ==
  IF n < LenBase THEN <<n>>
  ELSE <<(n % LenBase) + LenBase>> \o LenDigits[n \div LenBase]

mqtt_encode_len(n) == LenDigits[n]

(* The length field at the front of s: its value and its bytes, of which    *)
(* there are at most four.                                                 *)
mqtt_decode_len(s) ==
  LET last == {i \in 1 .. Min({4, Len(s)}) : s[i] < LenBase}
      Digit(i) == IF i <= Min(last) THEN s[i] % LenBase ELSE 0
  IN  IF last = {} THEN [ok |-> FALSE, value |-> 0, bytes |-> 0]
      ELSE [ok |-> TRUE, bytes |-> Min(last),
            value |-> Digit(1) + LenBase * (Digit(2)
                                   + LenBase * (Digit(3) + LenBase * Digit(4)))]

write_u16(v) == <<v \div 256, v % 256>>
read_u16(s) == 256 * s[1] + s[2]
Text(t) == write_u16(Len(t)) \o t

-----------------------------------------------------------------------------
(* Packets.  << >> stands for the error of a packet that does not fit.     *)
CONNECT == 1
PUBLISH == 3
PUBACK == 4
SUBSCRIBE == 8
UNSUBSCRIBE == 10
PINGREQ == 12
PINGRESP == 13
DISCONNECT == 14

Packet(type, flags, body) ==
  IF OutCap < 6 + Len(body) THEN << >>
  ELSE <<16 * type + flags>> \o mqtt_encode_len(Len(body)) \o body

(* user and pass may be empty.                                             *)
build_connect(client_id, user, pass, keepalive) ==
  LET Given(t, flag) == IF t = << >> THEN 0 ELSE flag
      Optional(t) == IF t = << >> THEN << >> ELSE Text(t)
  IN  Packet(CONNECT, 0,
             Text(<<77, 81, 84, 84>>) \o <<4, 2 + Given(user, 128) + Given(pass, 64)>>
               \o <<0, keepalive % 256>>
               \o Text(client_id) \o Optional(user) \o Optional(pass))

build_publish(topic, payload, qos, packet_id) ==
  Packet(PUBLISH, 2 * qos,
         Text(topic) \o (IF qos > 0 THEN write_u16(packet_id) ELSE << >>) \o payload)

build_subscribe(topic, qos, packet_id) ==
  Packet(SUBSCRIBE, 2, write_u16(packet_id) \o Text(topic) \o <<qos>>)

build_unsubscribe(topic, packet_id) ==
  Packet(UNSUBSCRIBE, 2, write_u16(packet_id) \o Text(topic))

build_pingreq == <<16 * PINGREQ, 0>>
build_disconnect == <<16 * DISCONNECT, 0>>
build_puback(packet_id) == <<16 * PUBACK, 2>> \o write_u16(packet_id)

-----------------------------------------------------------------------------
(* The first packet of data, as handle_rx cuts it off: complete or not, its *)
(* type and its bytes.                                                     *)
FirstPacket(data) ==
  LET len == mqtt_decode_len(Tail(data))
      total == 1 + len.bytes + len.value
  IN  IF Len(data) < 2 \/ ~len.ok \/ total > Len(data)
      THEN [ok |-> FALSE, type |-> 0, bytes |-> << >>]
      ELSE [ok |-> TRUE, type |-> data[1] \div 16, bytes |-> SubSeq(data, 1, total)]

(* The callback is not called.  No message has a QoS of -1.                 *)
NoMessage == [topic |-> << >>, payload |-> << >>, qos |-> -1, pid |-> 0]

(* Mutant: the packet id of a QoS 1 message is left in the payload.         *)
handle_publish_KeepId(packet) ==
  LET len == mqtt_decode_len(Tail(packet))
      qos == ((packet[1] % 16) \div 2) % 4
      body == SubSeq(packet, 2 + len.bytes, Len(packet))
      rest == SubSeq(body, 3 + read_u16(body), Len(body))
  IN  [topic |-> SubSeq(body, 3, 2 + read_u16(body)), payload |-> rest,
       qos |-> qos, pid |-> IF qos > 0 THEN read_u16(rest) ELSE 0]

(* Mutant: a message with an empty payload is dropped.                     *)
NoRoomForId_OffByOne(qos, rest) == qos > 0 /\ Len(rest) <= 2

NoRoomForId(qos, rest) == qos > 0 /\ Len(rest) < 2

(* A PUBLISH taken apart.  A topic that does not fit is cut, and what was   *)
(* cut off is read as packet id and payload.                               *)
handle_publish(packet) ==
  LET len == mqtt_decode_len(Tail(packet))
      qos == ((packet[1] % 16) \div 2) % 4
      body == SubSeq(packet, 2 + len.bytes, Len(packet))
      named == read_u16(body)
      tn == IF named >= TopicSize THEN TopicSize - 1 ELSE named
      rest == SubSeq(body, 3 + tn, Len(body))
  IN  IF Len(packet) < 4 \/ Len(body) < 2 THEN NoMessage
      ELSE IF 2 + named > Len(body) \/ NoRoomForId(qos, rest) THEN NoMessage
      ELSE [topic |-> SubSeq(body, 3, 2 + tn), qos |-> qos,
            payload |-> IF qos > 0 THEN SubSeq(rest, 3, Len(rest)) ELSE rest,
            pid |-> IF qos > 0 THEN read_u16(rest) ELSE 0]
=============================================================================
