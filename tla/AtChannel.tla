----------------------------- MODULE AtChannel ------------------------------
(***************************************************************************)
(* The channel between mqtt_task and the ESP8266 module once a connection  *)
(* is up (esp8266.c, mqtt.c): what the module sends comes through one      *)
(* receive ring, answers to AT commands and +IPD frames with MQTT packets  *)
(* alike, and three readers take from it: the waits for an answer, the     *)
(* parser of frames and the line loop.                                     *)
(*                                                                         *)
(* The ring is a sequence of bytes, and the readers find what they look    *)
(* for by comparing bytes: a payload may spell an answer or a header.  A   *)
(* byte carries, as history, the frame or answer it is of and its place in *)
(* it; no reader looks at these.  The texts of the module are constants,   *)
(* so that an instance may shorten them.  The instances are too small to   *)
(* fill the ring; a full ring is the subject of EspRing and MqttSession.   *)
(* s_link_state is left out: no task reads it.                             *)
(***************************************************************************)
EXTENDS MqttCodec

CONSTANTS
  Frames,     \* what the broker sends: sequences of messages
  Requests,   \* what mqtt_task sends
  IpdText,    \* "+IPD,"
  OkText,     \* "OK", and so on, each up to the end of its line
  RecvText,   \* "Recv n bytes"
  SendOkText, \* "SEND OK"
  ClosedText, \* "CLOSED"
  IpdSize,    \* size of ipd_buf (512)
  LineSize,   \* size of the line buffer (128)
  MaxFrames,  \* bound: frames sent
  MaxSends    \* bound: requests of mqtt_task

(* Messages of the broker, with topics the client has room for.  Without a  *)
(* QoS there is no packet id.  The builder stands for the broker's, too, so *)
(* what the broker sends fits OutCap.                                      *)
Packed(m) == build_publish(m.topic, m.payload, m.qos, m.pid)
Octets == 0 .. 255
MessageRecords == [topic : Seq(Octets), payload : Seq(Octets), qos : 0 .. 2, pid : 0 .. U16Max]
Messages ==
  {m \in MessageRecords :
     Len(m.topic) < TopicSize /\ (m.qos = 0 => m.pid = 0) /\ Packed(m) # << >>}

(* The bytes of a frame of messages.                                       *)
Bytes(f) == FlattenSeq([i \in DOMAIN f |-> Packed(f[i])])

ASSUME ChannelAssumption ==
  /\ {IpdSize, MaxFrames, MaxSends} \subseteq Nat /\ LineSize \in Nat \ {0}
  /\ Frames \subseteq Seq(Messages)
  \* A +IPD frame has bytes, and its length is read as a uint16_t.
  /\ \A f \in Frames : Len(Bytes(f)) \in 1 .. U16Max
  /\ \A r \in Requests :
       /\ r.kind \in {"publish", "subscribe", "unsubscribe", "pingreq"}
       /\ r.topic \in Seq(Octets) /\ r.payload \in Seq(Octets) /\ r.qos \in 0 .. 2

Digits == 48 .. 57
NewLine == 10
Prompt == 62
Comma == 44
Colon == 58

(* The mark of a frame does not overlap itself, a frame or an answer starts *)
(* with no byte of it but the first, and no answer contains that one.      *)
(* Mark, five digits and a colon are in the 63 bytes that the parser reads. *)
MarkIsApart(mark, answerTexts) ==
  /\ mark \in Seq(Octets) \ {<< >>} /\ Len(mark) + 6 <= 63
  /\ answerTexts \subseteq Seq(Octets) \ {<< >>}
  /\ mark[1] \notin Digits \cup {NewLine, Prompt, Colon}
  /\ \A k \in DOMAIN mark : mark[k] # Colon /\ (mark[k] = mark[1] => k = 1)
  /\ \A t \in answerTexts :
       /\ \A i \in DOMAIN t : t[i] # mark[1]
       /\ \A k \in DOMAIN mark : mark[k] # t[1]

ASSUME TextAssumption == MarkIsApart(IpdText, {OkText, RecvText, SendOkText, ClosedText})

VARIABLES
  wire,       \* what the module is sending, byte by byte
  ring,       \* the receive ring
  mode,       \* the module: "command", "prompting", "data" or "sending"
  want,       \* the bytes of data it still wants
  up,         \* its TCP connection
  pc,         \* mqtt_task: "idle", "parse", "line", "rx", "prompt" or "sendok"
  rx,         \* the part of a frame handle_rx has not dealt with
  packet,     \* the packet of a tcp_send
  back,       \* where it returns to
  sends,      \* requests so far
  s_next_packet_id,
  sent,       \* history: the frames of the broker, their messages and bytes
  delivered,  \* history: serial and bytes of the frames given to the client
  messages,   \* history: the messages given to the callback
  uplink,     \* history: what the module took as data
  cut,        \* history: frames cut by a wait, by the line loop
  answers,    \* history: commands answered
  matched     \* history: answers waits were content with, in order

client == <<pc, rx, packet, back, sends, s_next_packet_id>>
history == <<sent, delivered, messages, uplink, cut, answers, matched>>
module == <<wire, mode, want, up>>
vars == <<module, ring, client, history>>

-----------------------------------------------------------------------------
(* Text of the frame or answer n on its way: frames count up from 1,        *)
(* answers down from -1, and the end of the connection is 0.               *)
Sending(text, n) == [i \in DOMAIN text |-> [value |-> text[i], of |-> n, at |-> i]]
Line(text) == Append(text, NewLine)

Decimal[n \in Nat] ==
  IF n < 10 THEN <<48 + n>> ELSE Append(Decimal[n \div 10], 48 + (n % 10))

HeaderText(len) == IpdText \o Append(Decimal[len], Colon)
FrameText(bytes) == HeaderText(Len(bytes)) \o bytes

(* What the readers look for: a text somewhere in the ring.                 *)
Spells(s, i, text) ==
  i + Len(text) - 1 <= Len(s) /\ \A k \in DOMAIN text : s[i + k - 1].value = text[k]
Where(text) == {i \in DOMAIN ring : Spells(ring, i, text)}
Bytewise(s) == [i \in DOMAIN s |-> s[i].value]
Upto(k) == {ring[i] : i \in 1 .. k}
FramesOf(symbols) == {s.of : s \in {t \in symbols : t.of > 0}}
ring_consume(k) == ring' = SubSeq(ring, k + 1, Len(ring))

Init ==
  /\ wire = << >> /\ ring = << >> /\ mode = "command" /\ want = 0 /\ up = TRUE
  /\ pc = "idle" /\ rx = << >> /\ packet = << >> /\ back = "idle"
  /\ sends = 0 /\ s_next_packet_id = 1
  /\ sent = << >> /\ delivered = << >> /\ messages = << >> /\ uplink = << >>
  /\ cut = [wait |-> {}, line |-> {}] /\ answers = 0 /\ matched = << >>

-----------------------------------------------------------------------------
(* The module.  It finishes one output before it starts the next.          *)
Emit(text, n) == wire = << >> /\ wire' = Sending(text, n)

PromptForData ==
  /\ mode = "prompting"
  /\ answers' = answers + 1
  /\ Emit(Line(OkText) \o <<Prompt>>, -answers')
  /\ mode' = "data"
  /\ UNCHANGED <<ring, want, up, client, sent, delivered, messages, uplink, cut, matched>>

ConfirmData ==
  /\ mode = "sending" /\ up
  /\ answers' = answers + 1
  /\ Emit(Line(RecvText) \o Line(SendOkText), -answers')
  /\ mode' = "command"
  /\ UNCHANGED <<ring, want, up, client, sent, delivered, messages, uplink, cut, matched>>

ForwardFrame ==
  /\ up /\ Len(sent) < MaxFrames
  /\ \E f \in Frames :
       /\ sent' = Append(sent, [messages |-> f, bytes |-> Bytes(f)])
       /\ Emit(FrameText(Bytes(f)), Len(sent'))
  /\ UNCHANGED <<ring, mode, want, up, client, delivered, messages, uplink, cut, answers, matched>>

LinkCloses ==
  /\ up /\ up' = FALSE
  /\ Emit(Line(ClosedText), 0)
  /\ mode' = "command" /\ want' = 0
  /\ UNCHANGED <<ring, client, history>>

(* ESP_UART_IRQHandler.                                                    *)
Interrupt ==
  /\ wire # << >>
  /\ ring' = Append(ring, Head(wire)) /\ wire' = Tail(wire)
  /\ UNCHANGED <<mode, want, up, client, history>>

-----------------------------------------------------------------------------
(* What a module in data mode does with bytes: as many as it wants are data. *)
CommandLine == [i \in 1 .. 16 |-> 65]

TakeData(bytes) ==
  IF Len(bytes) < want
  THEN /\ want' = want - Len(bytes)
       /\ uplink' = Append(uplink, bytes)
       /\ UNCHANGED mode
  ELSE /\ want' = 0
       /\ uplink' = Append(uplink, SubSeq(bytes, 1, want))
       /\ mode' = "sending"

(* esp8266_tcp_send up to the wait for the prompt.  The module obeys the     *)
(* command only in command mode: in data mode the line is data to it, and  *)
(* while it is busy it ignores it.                                         *)
tcp_send(bytes, caller) ==
  /\ pc' = "prompt" /\ packet' = bytes /\ back' = caller
  /\ CASE mode = "data" -> TakeData(CommandLine)
       [] mode = "command" /\ up -> mode' = "prompting" /\ want' = Len(bytes) /\ UNCHANGED uplink
       [] OTHER -> UNCHANGED <<mode, want, uplink>>

(* at_wait_for with the answer in the ring: it consumes from the front as   *)
(* many bytes as there are from the answer to the end of its line.         *)
at_wait_for(needle) ==
  LET found == Min(Where(needle))
      ends == {i \in Where(<<NewLine>>) : i >= found}
      consume == (IF ends = {} THEN Len(ring) ELSE Min(ends)) - found + 1
  IN  /\ Where(needle) # {}
      /\ matched' = Append(matched, ring[found].of)
      /\ cut' = [cut EXCEPT !.wait = @ \cup FramesOf(Upto(consume))]
      /\ ring_consume(consume)

(* The prompt is there: the data go out.  A module that has not asked for   *)
(* them yet loses them.                                                    *)
PromptSeen ==
  /\ pc = "prompt" /\ at_wait_for(<<Prompt>>)
  /\ pc' = "sendok"
  /\ IF mode = "data" THEN TakeData(packet) ELSE UNCHANGED <<mode, want, uplink>>
  /\ UNCHANGED <<wire, up, rx, packet, back, sends, s_next_packet_id,
                 sent, delivered, messages, answers>>

SendOkSeen ==
  /\ pc = "sendok" /\ at_wait_for(SendOkText)
  /\ pc' = back
  /\ UNCHANGED <<module, rx, packet, back, sends, s_next_packet_id,
                 sent, delivered, messages, uplink, answers>>

(* The answer has not come in time.                                        *)
WaitTimesOut ==
  /\ \/ pc = "prompt" /\ Where(<<Prompt>>) = {}
     \/ pc = "sendok" /\ Where(SendOkText) = {}
  /\ pc' = back
  /\ UNCHANGED <<module, ring, rx, packet, back, sends,
                 s_next_packet_id, history>>

-----------------------------------------------------------------------------
(* parse_ipd_header, of what stands behind "+IPD," up to a colon: a length, *)
(* or a link and a length.  The link is an int8_t, the length a uint16_t;  *)
(* the sums are ints and wrap, so 16 bits of them decide.  A length of 0   *)
(* stands for a header that cannot be read.                                *)
FirstNonDigit(s) == Min({i \in DOMAIN s : s[i] \notin Digits})

Number(s) ==
  LET value[k \in 0 .. Len(s)] ==
        IF k = 0 THEN 0 ELSE (10 * value[k - 1] + s[k] - 48) % (U16Max + 1)
  IN  value[FirstNonDigit(s) - 1]

parse_ipd_header(s) ==
  LET hasLink == s[FirstNonDigit(s)] = Comma
      length == IF hasLink THEN SubSeq(s, FirstNonDigit(s) + 1, Len(s)) ELSE s
  IN  [link |-> IF hasLink THEN Number(s) % 256 ELSE 0,
       len |-> IF length[FirstNonDigit(length)] = Colon THEN Number(length) ELSE 0]

(* The header at the first "+IPD," in the ring, if its colon is there: the   *)
(* parser reads 63 bytes of it.                                            *)
Headers ==
  LET hits == Where(IpdText)
      hit == Min(hits)
      colons == {i \in hit .. Min({hit + 62, Len(ring)}) : ring[i].value = Colon}
      end == Min(colons)
  IN  IF hits = {} \/ colons = {} THEN {}
      ELSE {[hit |-> hit, end |-> end,
             says |-> parse_ipd_header(Bytewise(SubSeq(ring, hit + Len(IpdText), end)))]}

(* A link from 128 on is a negative int8_t.                                *)
Readable(h) == h.says.link < 128 /\ h.says.len > 0
FrameAt(h) == Readable(h) /\ h.end + h.says.len <= Len(ring)

(* Mutant: what stands before the frame is not consumed with its header.    *)
FrameStart_NoPrefix(h) == h.end - h.hit + 1

FrameStart(h) == h.end

(* Mutant: one byte too many is consumed.                                  *)
FrameEnd_OneMore(h) == FrameStart(h) + h.says.len + 1

FrameEnd(h) == FrameStart(h) + h.says.len

(* Mutant: the size of ipd_buf is not looked at.                           *)
TooLong_Never(dlen) == FALSE

TooLong(dlen) == dlen > IpdSize

(* One round of parse_ipd_frames: no complete frame; a header that cannot   *)
(* be read, for which the first byte of the ring goes; a frame that is too *)
(* long for ipd_buf or of a link that on_esp_recv does not listen to; a    *)
(* frame for handle_rx.                                                    *)
NoFrame ==
  /\ pc = "parse" /\ \A h \in Headers : Readable(h) /\ ~FrameAt(h)
  /\ pc' = "line"
  /\ UNCHANGED <<module, ring, rx, packet, back, sends, s_next_packet_id, history>>

SkipByte ==
  /\ pc = "parse" /\ \E h \in Headers : ~Readable(h)
  /\ ring_consume(1)
  /\ UNCHANGED <<module, client, history>>

SkipFrame ==
  /\ pc = "parse"
  /\ \E h \in Headers :
       /\ FrameAt(h) /\ (TooLong(h.says.len) \/ h.says.link # 0)
       /\ ring_consume(FrameEnd(h))
  /\ UNCHANGED <<module, client, history>>

TakeFrame ==
  /\ pc = "parse"
  /\ \E h \in Headers :
       /\ FrameAt(h) /\ ~TooLong(h.says.len) /\ h.says.link = 0
       /\ ring_consume(FrameEnd(h))
       /\ rx' = Bytewise(SubSeq(ring, FrameStart(h) + 1, FrameStart(h) + h.says.len))
       /\ delivered' = Append(delivered, [of |-> ring[h.hit].of, bytes |-> rx'])
  /\ pc' = "rx"
  /\ UNCHANGED <<module, packet, back, sends, s_next_packet_id,
                 sent, messages, uplink, cut, answers, matched>>

(* Mutant: QoS 2 is acknowledged like QoS 1.                               *)
NeedsAck_Qos2(m) == m.qos > 0

NeedsAck(m) == m.qos = 1

(* handle_rx, one packet at a time: a message goes to the callback and, at   *)
(* QoS 1, is acknowledged before the next packet is looked at.             *)
RxDone ==
  /\ pc = "rx" /\ ~FirstPacket(rx).ok
  /\ pc' = "parse"
  /\ UNCHANGED <<module, ring, rx, packet, back, sends,
                 s_next_packet_id, history>>

RxPacket ==
  /\ pc = "rx"
  /\ \E first \in {FirstPacket(rx)} :
     \E m \in {IF first.type = PUBLISH THEN handle_publish(first.bytes) ELSE NoMessage} :
         /\ first.ok
         /\ rx' = SubSeq(rx, Len(first.bytes) + 1, Len(rx))
         /\ messages' = IF m = NoMessage THEN messages ELSE Append(messages, m)
         /\ IF NeedsAck(m) THEN tcp_send(build_puback(m.pid), "rx")
                           ELSE UNCHANGED <<pc, packet, back, mode, want, uplink>>
  /\ UNCHANGED <<wire, ring, up, sends, s_next_packet_id,
                 sent, delivered, cut, answers, matched>>

LineEnd == IF Where(<<NewLine>>) = {} THEN 0 ELSE Min(Where(<<NewLine>>))

(* One round of the line loop of esp8266_loop: the line at the front goes,   *)
(* or the part of it that fits into the buffer.                            *)
LineRound ==
  /\ pc = "line" /\ LineEnd > 0
  /\ LET k == Min({LineEnd, LineSize - 1})
     IN  /\ ring_consume(k)
         /\ cut' = [cut EXCEPT !.line = @ \cup (FramesOf(Upto(k)) \ cut.wait)]
  /\ UNCHANGED <<module, pc, rx, packet, back, sends, s_next_packet_id,
                 sent, delivered, messages, uplink, answers, matched>>

LinesDone ==
  /\ pc = "line" /\ LineEnd = 0
  /\ pc' = "idle"
  /\ UNCHANGED <<module, ring, rx, packet, back, sends,
                 s_next_packet_id, history>>

-----------------------------------------------------------------------------
(* mqtt_task between two loops: it starts the next one, or sends a request.  *)
Loop ==
  /\ pc = "idle" /\ pc' = "parse"
  /\ UNCHANGED <<module, ring, rx, packet, back, sends,
                 s_next_packet_id, history>>

TakesPacketId(r) == r.kind \in {"subscribe", "unsubscribe"} \/ r.qos > 0

Build(r, pid) ==
  CASE r.kind = "publish"     -> build_publish(r.topic, r.payload, r.qos, pid)
    [] r.kind = "subscribe"   -> build_subscribe(r.topic, r.qos, pid)
    [] r.kind = "unsubscribe" -> build_unsubscribe(r.topic, pid)
    [] r.kind = "pingreq"     -> build_pingreq

Request ==
  /\ pc = "idle" /\ sends < MaxSends
  /\ sends' = sends + 1
  /\ \E r \in Requests :
       LET bytes == Build(r, s_next_packet_id)
       IN  /\ s_next_packet_id' =
                IF TakesPacketId(r) THEN 1 + (s_next_packet_id % U16Max)
                                    ELSE s_next_packet_id
           /\ IF bytes = << >> THEN UNCHANGED <<pc, packet, back, mode, want, uplink>>
                               ELSE tcp_send(bytes, "idle")
  /\ UNCHANGED <<wire, ring, up, rx,
                 sent, delivered, messages, cut, answers, matched>>

mqtt_task == \/ Loop \/ Request \/ PromptSeen \/ SendOkSeen \/ WaitTimesOut
             \/ NoFrame \/ SkipByte \/ SkipFrame \/ TakeFrame \/ RxDone \/ RxPacket
             \/ LineRound \/ LinesDone

Module == PromptForData \/ ConfirmData \/ ForwardFrame \/ LinkCloses

Next == mqtt_task \/ Module \/ Interrupt

Spec == Init /\ [][Next]_vars
-----------------------------------------------------------------------------
TypeOK ==
  /\ mode \in {"command", "prompting", "data", "sending"} /\ want \in Nat /\ up \in BOOLEAN
  /\ pc \in {"idle", "parse", "line", "rx", "prompt", "sendok"} /\ back \in {"idle", "rx"}
  /\ sends \in 0 .. MaxSends /\ s_next_packet_id \in 1 .. U16Max
  /\ Len(sent) <= MaxFrames /\ rx \in Seq(Octets) /\ Len(rx) <= IpdSize /\ packet \in Seq(Octets)
  /\ cut.wait \cup cut.line \subseteq DOMAIN sent

(* A wait or the line loop may cut a frame whose payload spells the mark of *)
(* a frame; the parser then takes what is left of it for a frame.  No such *)
(* frame has been cut.                                                     *)
CutIn(c) == c.wait \cup c.line
SpellsMark(bytes) ==
  \E i \in DOMAIN bytes : /\ i + Len(IpdText) - 1 <= Len(bytes)
                         /\ \A k \in DOMAIN IpdText : bytes[i + k - 1] = IpdText[k]
Sound == \A n \in CutIn(cut) : ~SpellsMark(sent[n].bytes)

(* Whatever the waits and the line loop take from the ring, the client never *)
(* gets half a frame or two halves of different frames: until a frame that *)
(* spells the mark is cut, what it gets are frames of the broker, whole, in *)
(* their order and each at most once.                                      *)
FramesIntact ==
  Sound =>
    /\ \A i \in DOMAIN delivered : delivered[i].bytes = sent[delivered[i].of].bytes
    /\ \A i, j \in DOMAIN delivered : i < j => delivered[i].of < delivered[j].of

(* The callback gets every message of every frame delivered, as it was sent, *)
(* once and in order, although acknowledgements are sent, and waited for,  *)
(* in between.                                                             *)
Given == [i \in DOMAIN delivered |-> sent[delivered[i].of].messages]
PacketsHandled == Sound /\ pc \in {"idle", "parse", "line"} => messages = FlattenSeq(Given)

(* An acknowledgement that goes up whole is of a message that was given to    *)
(* the callback, and there are no more of them than there were messages:   *)
(* however the sends in the callback fail, the broker is not told that a   *)
(* message has arrived which has not.                                      *)
AcksAreOwed ==
  \A i \in DOMAIN uplink : Len(uplink[i]) = 4 /\ uplink[i][1] = 16 * PUBACK =>
    Cardinality({k \in DOMAIN uplink : uplink[k] = uplink[i]})
      <= Cardinality({k \in DOMAIN messages :
                        messages[k].qos = 1 /\ build_puback(messages[k].pid) = uplink[i]})

(* No frame is forgotten: until a frame that spells the mark is cut, one    *)
(* that has not been given to the client, that no wait and no line loop    *)
(* cut and that fits ipd_buf is still there, whole and in one piece, in    *)
(* the ring or on its way into it, and a frame behind an older one is not  *)
(* taken with it.                                                          *)
InOnePiece(n) ==
  LET stream == ring \o wire
      places == {k \in DOMAIN stream : stream[k].of = n}
      frame == Sending(FrameText(sent[n].bytes), n)
  IN  \E i \in places : /\ places = i .. i + Len(frame) - 1
                        /\ SubSeq(stream, i, i + Len(frame) - 1) = frame
FramesKept ==
  Sound => \A n \in DOMAIN sent :
    \/ n \in CutIn(cut)
    \/ TooLong(Len(sent[n].bytes))
    \/ \E i \in DOMAIN delivered : delivered[i].of = n
    \/ InOnePiece(n)

(* To the callback the channel is a feed of messages: what is left of the    *)
(* frame in handling comes next, in its order, before any other frame, and  *)
(* nothing that the waits, the line loop or the sends of acknowledgements   *)
(* do adds, repeats or swaps a message, until a frame that spells the mark  *)
(* is cut.                                                                 *)
Waiting ==
  LET all == FlattenSeq(Given) IN SubSeq(all, Len(messages) + 1, Len(all))
LastTaken == IF delivered = << >> THEN 0 ELSE delivered[Len(delivered)].of
SentMessages == [n \in DOMAIN sent |-> sent[n].messages]
Feed == INSTANCE MessageFeed
          WITH frames <- SentMessages, taken <- LastTaken, rest <- Waiting, got <- messages,
               broken <- ~Sound
ImplementsFeed == Feed!Spec

(* The header of esp8266.c promises a ring that does not depend on line      *)
(* ends and can carry binary MQTT: what the client is given as a frame is a *)
(* frame of the broker, whatever bytes its payload has.                    *)
FramesAreGenuine ==
  \A i \in DOMAIN delivered : delivered[i].bytes = sent[delivered[i].of].bytes

(* at_wait_for is said to consume the line of the answer and no earlier      *)
(* line: an answer is used up by the wait that found it.                   *)
AnswersUsedOnce ==
  \A i, j \in DOMAIN matched : matched[i] < 0 /\ i # j => matched[i] # matched[j]
=============================================================================
