---------------------------- MODULE MCAtChannel -----------------------------
(* Messages and requests of AtChannel for TLC.                             *)
EXTENDS AtChannel

(* Texts of two bytes where a reader looks for them, of one elsewhere.     *)
ShortIpd == <<43, Comma>>
ShortOk == <<79>>
ShortRecv == <<82>>
ShortSendOk == <<83, 75>>
ShortClosed == <<67>>

Message(t, p, q, i) == [topic |-> t, payload |-> p, qos |-> q, pid |-> i]

ToAck == <<Message(<<1>>, << >>, 1, 7), Message(<<2>>, << >>, 0, 0)>>
TwoToAck == <<Message(<<1>>, << >>, 1, 7), Message(<<2>>, << >>, 1, 8)>>
LineFeed == <<Message(<<1>>, <<10>>, 2, 9)>>

(* Behind a line feed, headers: one that cannot be read, one of link 1, one  *)
(* of four bytes.  The frame itself is too long for ipd_buf.               *)
Marks ==
  <<10>> \o ShortIpd \o <<Colon>> \o ShortIpd \o <<49, Comma, 49, Colon, 1>> \o ShortIpd \o <<52, Colon>>
MarkedFrame == <<Message(<<1>>, Marks, 0, 0)>>

(* A payload with a header behind a line feed.                             *)
FalseHeader == <<Message(<<1>>, <<10>> \o ShortIpd \o <<50, Colon, 192, 0>>, 0, 0)>>

AllFrames == {ToAck, LineFeed, MarkedFrame}
FalseHeaderOnly == {FalseHeader}
ToAckOnly == {TwoToAck}

Report == [kind |-> "publish", topic |-> <<1>>, payload |-> <<2, 3>>, qos |-> 0]
Subscribe == [kind |-> "subscribe", topic |-> <<1>>, payload |-> << >>, qos |-> 1]
NoRoom == [kind |-> "publish", topic |-> <<1>>, payload |-> [i \in 1 .. 30 |-> 2], qos |-> 0]

AllRequests == {Subscribe, NoRoom}
ReportOnly == {Report}

-----------------------------------------------------------------------------
(* The texts as they are: "+IPD,", "OK", "Recv 16 bytes", "SEND OK" and     *)
(* "CLOSED", each of the last four up to its carriage return.              *)
ASSUME RealTexts ==
  MarkIsApart(<<43, 73, 80, 68, 44>>,
              {<<79, 75, 13>>,
               <<82, 101, 99, 118, 32, 49, 54, 32, 98, 121, 116, 101, 115, 13>>,
               <<83, 69, 78, 68, 32, 79, 75, 13>>, <<67, 76, 79, 83, 69, 68, 13>>})

(* Lengths are read back as they were written, up to the four digits a      *)
(* reader looks at, and what a builder makes is one whole packet.          *)
ASSUME LengthsReadBack ==
  \A n \in 0 .. LenBase ^ 4 :
    LET field == mqtt_encode_len(n)
        len == mqtt_decode_len(field \o <<1, 1>>)
    IN  IF n < LenBase ^ 4
        THEN len = [ok |-> TRUE, value |-> n, bytes |-> Len(field)]
        ELSE ~len.ok

ASSUME PacketsAreWhole ==
  \A p \in {build_connect(<<1>>, << >>, << >>, 60), build_connect(<<1>>, <<2>>, <<3>>, 60),
             build_publish(<<1>>, <<10>>, 0, 0), build_publish(<<1>>, <<10>>, 1, 300),
             build_subscribe(<<1>>, 1, 300), build_unsubscribe(<<1>>, 300),
             build_puback(300), build_pingreq, build_disconnect} :
    FirstPacket(p \o build_pingreq) = [ok |-> TRUE, type |-> p[1] \div 16, bytes |-> p]
=============================================================================
