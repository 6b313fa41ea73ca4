---------------------------- MODULE MqttSession ----------------------------
(***************************************************************************)
(* The network side: the phases of mqtt_task, the MQTT client state        *)
(* (mqtt.c) and the link flags of the ESP8266 driver (esp8266.c), against  *)
(* the access point, the TCP connection and the broker, which fail and     *)
(* recover as they like until the network settles (variable settled).      *)
(*                                                                         *)
(* The receive ring holds whole events here: +IPD frames with a CONNACK    *)
(* and unsolicited lines.  An AT exchange that waits for its answer in     *)
(* at_wait_for removes bytes from the front of the ring, so it may destroy *)
(* the oldest pending events.  PUBLISH, PINGRESP and PUBACK frames change  *)
(* none of this state, nor does a SUBACK, whose return code the client     *)
(* ignores; commands are in FanArbitration.                                *)
(*                                                                         *)
(* Nothing in a CONNACK says which CONNECT it answers.  One that the       *)
(* broker sends late, for an attempt the client gave up, may arrive while  *)
(* the next attempt sets up its connection, and be taken for its answer.   *)
(***************************************************************************)
EXTENDS Naturals, Sequences

CONSTANTS
  Stuck,      \* the 30 s phase limit, in units of the shortest retry
  RingCap     \* bound: events pending in the ring

ASSUME SessionAssumption == {Stuck, RingCap} \subseteq Nat \ {0}

Frames == {"CONNACK", "CONNACK_REJECT"}
(* WIFI GOT IP stands for itself and the WIFI CONNECTED in front of it.     *)
Lines  == {"CLOSED", "WIFI DISCONNECT", "WIFI GOT IP"}
Phases == {"INIT", "MQTT_INIT", "CONNECT", "SUB", "RUN"}

VARIABLES
  pc,         \* where mqtt_task is
  phase,      \* its phase
  age,        \* time since phase_tick, up to Stuck + 1
  s_state,    \* MQTT client state
  s_wifi,     \* s_wifi_connected
  s_link,     \* s_link_state[0]
  ring,       \* events received and not yet parsed
  wifi, tcp,  \* the real access point link and TCP connection
  session,    \* the broker's view of the connection
  subscription, \* what has become of a SUBSCRIBE of this session
  settled     \* the network has become good for ever

task == <<phase, age, s_state, s_wifi, s_link>>
net  == <<wifi, tcp, session, subscription>>
vars == <<pc, task, ring, net, settled>>

Init ==
  /\ pc = "boot" /\ phase = "INIT" /\ age = 0
  /\ s_state = "IDLE" /\ s_wifi = FALSE /\ s_link = FALSE
  /\ ring = << >>
  /\ wifi \in BOOLEAN /\ tcp = FALSE /\ session = "none" /\ subscription = "none"
  /\ settled = FALSE

(* esp8266_init and mqtt_client_init; without an answer from the module    *)
(* the task deletes itself.                                                *)
Boot ==
  /\ pc = "boot"
  /\ \/ pc' = "loop"
     \/ pc' = "deleted" /\ ~settled
  /\ UNCHANGED <<task, ring, net, settled>>

-----------------------------------------------------------------------------
(* The events esp8266_loop acts on: parse_ipd_frames takes every frame and  *)
(* throws away what is in front of it, so of the lines only those behind   *)
(* the last frame are left for the line loop.                              *)
LastFrame == {i \in DOMAIN ring : ring[i] \in Frames /\
                \A j \in DOMAIN ring : j > i => ring[j] \notin Frames}
LinesLeft == {i \in DOMAIN ring : \A f \in LastFrame : i > f}
LastLine(kinds) == {i \in LinesLeft : ring[i] \in kinds /\
                      \A j \in LinesLeft : j > i => ring[j] \notin kinds}

(* mqtt_loop: esp8266_loop with handle_rx as its callback.  The keep-alive  *)
(* PINGREQ that may follow changes nothing here: its result is ignored.    *)
mqtt_loop ==
  /\ ring' = << >>
  /\ s_state' = IF LastFrame = {} THEN s_state
                ELSE IF \E i \in LastFrame : ring[i] = "CONNACK"
                  THEN "CONNECTED" ELSE "DISCONNECTED"
  /\ s_wifi' = IF LastLine({"WIFI DISCONNECT", "WIFI GOT IP"}) = {} THEN s_wifi
               ELSE \E i \in LastLine({"WIFI DISCONNECT", "WIFI GOT IP"}) :
                      ring[i] = "WIFI GOT IP"
  /\ s_link' = (s_link /\ LastLine({"CLOSED", "WIFI DISCONNECT"}) = {})

Loop ==
  /\ pc = "loop"
  /\ mqtt_loop
  /\ pc' = "phase"
  /\ UNCHANGED <<phase, age, net, settled>>

-----------------------------------------------------------------------------
(* at_wait_for leaves a suffix of the pending events.                      *)
Suffixes == {SubSeq(ring, k + 1, Len(ring)) : k \in 0 .. Len(ring)}

(* Mutant: the ring is not emptied in front of a command.                  *)
Cleared_Not == ring

(* ring_consume(ring_used()) in front of a command.                        *)
Cleared == << >>

(* The TCP connection is gone.                                             *)
Down == tcp' = FALSE /\ session' = "none" /\ subscription' = "none"

(* esp8266_tcp_close: AT+CIPCLOSE; s_link_state only changes on the OK, and *)
(* until the network settles the OK may be missed.                         *)
TcpClose ==
  /\ ring' \in Suffixes
  /\ \/ tcp /\ Down /\ s_link' = FALSE
     \/ ~settled /\ Down /\ UNCHANGED s_link
     \/ ~(tcp /\ settled) /\ UNCHANGED <<tcp, session, subscription, s_link>>
  /\ UNCHANGED wifi

(* mqtt_disconnect: nothing unless a connection is recorded.               *)
mqtt_disconnect ==
  IF s_state \in {"CONNECTED", "TCP_OPEN", "CONNECT_SENT"}
    THEN TcpClose /\ s_state' = "IDLE"
    ELSE UNCHANGED <<ring, net, s_link, s_state>>

(* A failed attempt costs its timeouts and its delay.                      *)
Later ==
  /\ \E d \in 1 .. Stuck + 1 :
       age' = IF age + d <= Stuck THEN age + d ELSE Stuck + 1
  /\ UNCHANGED phase

(* Mutant: phase_tick is not taken anew.                                   *)
EnterPhase_KeepTick(p) == phase' = p /\ age' = age + 1

EnterPhase(p) == phase' = p /\ age' = 0

-----------------------------------------------------------------------------
(* External: AT+CWJAP makes the module leave its access point and join it   *)
(* again; part of its lines survive the waits for them.                    *)
JoinLines == {r \in {<< >>, <<"WIFI GOT IP">>,
                     <<"WIFI DISCONNECT", "WIFI GOT IP">>} : Len(r) <= RingCap}
Joined == wifi' = TRUE /\ Down /\ ring' \in JoinLines
JoinFailed ==
  \/ wifi /\ wifi' = FALSE /\ Down /\ ring' \in {<< >>, <<"WIFI DISCONNECT">>}
  \/ ring' = Cleared /\ UNCHANGED net

(* esp8266_connect_wifi with AT+CWJAP (ESP8266_USE_STORED_AP is 0): success  *)
(* is the line WIFI GOT IP after 30 s without a +CWJAP error.              *)
PhaseInit ==
  /\ pc = "phase" /\ phase = "INIT"
  /\ \/ Joined /\ s_wifi' = TRUE /\ EnterPhase("MQTT_INIT")
     \/ ~(wifi /\ settled) /\ JoinFailed /\ s_wifi' = FALSE /\ Later
  /\ pc' = "check"
  /\ UNCHANGED <<s_state, s_link, settled>>

PhaseMqttInit ==
  /\ pc = "phase" /\ phase = "MQTT_INIT"
  /\ EnterPhase("CONNECT")
  /\ pc' = "check"
  /\ UNCHANGED <<s_state, s_wifi, s_link, ring, net, settled>>

(* mqtt_connect_broker to AT+CIPSTART: nothing without WiFi flag, an ERROR  *)
(* at once, or the command under way, with the ring emptied in front of it. *)
CipStart ==
  \/ ~s_wifi /\ UNCHANGED ring /\ Later /\ pc' = "check"
  \/ s_wifi /\ ~(settled /\ wifi) /\ ring' = Cleared /\ Later /\ pc' = "check"
  \/ s_wifi /\ ring' = Cleared /\ pc' = "start" /\ UNCHANGED <<phase, age>>

PhaseConnect ==
  /\ pc = "phase" /\ phase = "CONNECT"
  /\ CipStart
  /\ UNCHANGED <<s_state, s_wifi, s_link, net, settled>>

(* The rest of esp8266_tcp_connect awaits the word CONNECT.  It fails when  *)
(* there was no connection to make, and when it was made but the answer    *)
(* was missed.                                                             *)
TcpRefused ==
  /\ pc = "start"
  /\ \/ ~(settled /\ wifi) /\ UNCHANGED tcp
     \/ ~settled /\ wifi /\ tcp' = TRUE
  /\ ring' \in Suffixes
  /\ Later
  /\ pc' = "check"
  /\ UNCHANGED <<s_state, s_wifi, s_link, wifi, session, subscription, settled>>

(* The word is also in ALREADY CONNECTED, WIFI CONNECTED and WIFI           *)
(* DISCONNECT.                                                             *)
HoldsConnect(event) == event \in {"WIFI DISCONNECT", "WIFI GOT IP"}

(* So it succeeds on a new connection, on one that is still there, and on  *)
(* a line about the access point, with or without a connection.            *)
TcpConnected ==
  /\ pc = "start"
  /\ \/ wifi /\ tcp' = TRUE
     \/ tcp /\ UNCHANGED tcp
     \/ (\E i \in DOMAIN ring : HoldsConnect(ring[i])) /\ UNCHANGED tcp
  /\ ring' \in Suffixes
  /\ s_link' = TRUE
  /\ s_state' = "CONNECT_SENT"
  /\ pc' = "send"
  /\ UNCHANGED <<phase, age, s_wifi, wifi, session, subscription, settled>>

(* External: the broker takes a CONNECT; a second one on a connection is a  *)
(* protocol error, and it hangs up.                                        *)
BrokerTakesConnect ==
  IF session = "none"
    THEN /\ session' = "connecting"
         /\ ring' \in Suffixes
         /\ UNCHANGED <<tcp, subscription>>
    ELSE /\ Down
         /\ \E r \in Suffixes : ring' = Append(r, "CLOSED")

(* esp8266_tcp_send of the CONNECT packet: delivered and confirmed; or      *)
(* delivered unnoticed; or not delivered.  A failure leaves TCP open.      *)
SendConnect ==
  /\ pc = "send"
  /\ \/ tcp /\ BrokerTakesConnect
        /\ pc' = "wait" /\ UNCHANGED <<phase, age, s_state>>
     \/ tcp /\ ~settled /\ BrokerTakesConnect
        /\ pc' = "check" /\ s_state' = "DISCONNECTED" /\ Later
     \/ ~(tcp /\ settled) /\ ring' \in Suffixes
        /\ pc' = "check" /\ s_state' = "DISCONNECTED" /\ Later
        /\ UNCHANGED <<tcp, session, subscription>>
  /\ UNCHANGED <<s_wifi, s_link, wifi, settled>>

(* The wait for the CONNACK: mqtt_loop until the state changes or 10 s are *)
(* over.                                                                   *)
WaitLoop ==
  /\ pc = "wait" /\ s_state = "CONNECT_SENT" /\ ring # << >>
  /\ mqtt_loop
  /\ UNCHANGED <<pc, phase, age, net, settled>>

WaitOk ==
  /\ pc = "wait" /\ s_state = "CONNECTED"
  /\ EnterPhase("SUB")
  /\ pc' = "check"
  /\ UNCHANGED <<s_state, s_wifi, s_link, ring, net, settled>>

WaitRejected ==
  /\ pc = "wait" /\ s_state = "DISCONNECTED"
  /\ TcpClose /\ Later
  /\ pc' = "check"
  /\ UNCHANGED <<s_state, s_wifi, settled>>

ConnackComing ==
  \/ s_state # "CONNECT_SENT" \/ session = "connecting"
  \/ \E i \in DOMAIN ring : ring[i] \in Frames

WaitTimeout ==
  /\ pc = "wait"
  /\ ~(settled /\ ConnackComing)
  /\ TcpClose /\ s_state' = "DISCONNECTED" /\ Later
  /\ pc' = "check"
  /\ UNCHANGED <<s_wifi, settled>>

(* External: the broker takes a SUBSCRIBE, in turn after the CONNECT it may *)
(* still be busy with; without a session it hangs up.                      *)
BrokerTakesSubscribe ==
  IF session = "none"
    THEN Down /\ \E r \in Suffixes : ring' = Append(r, "CLOSED")
    ELSE subscription' = "asked" /\ ring' \in Suffixes /\ UNCHANGED <<tcp, session>>

NotTaken == ring' \in Suffixes /\ UNCHANGED <<tcp, session, subscription>>

(* Mutant: the outcome of mqtt_subscribe is ignored.                       *)
PhaseSub_Ignore ==
  /\ pc = "phase" /\ phase = "SUB"
  /\ \/ s_state = "CONNECTED" /\ tcp /\ BrokerTakesSubscribe
     \/ ~(tcp /\ settled) /\ NotTaken
  /\ EnterPhase("RUN")
  /\ pc' = "check"
  /\ UNCHANGED <<s_state, s_wifi, s_link, wifi, settled>>

(* mqtt_subscribe: refused unless CONNECTED, else sent like CONNECT.  Its   *)
(* success is the SEND OK: nobody waits for the SUBACK.                     *)
PhaseSub ==
  /\ pc = "phase" /\ phase = "SUB"
  /\ \/ /\ s_state = "CONNECTED" /\ tcp
        /\ BrokerTakesSubscribe
        /\ EnterPhase("RUN") \/ (~settled /\ Later)
     \/ s_state = "CONNECTED" /\ ~(tcp /\ settled) /\ NotTaken /\ Later
     \/ s_state # "CONNECTED" /\ Later /\ UNCHANGED <<ring, tcp, session, subscription>>
  /\ pc' = "check"
  /\ UNCHANGED <<s_state, s_wifi, s_link, wifi, settled>>

(* RUN: reconnect when the client state says so, else publish a report if  *)
(* there is one; the outcome of the publish is ignored.                    *)
PhaseRun ==
  /\ pc = "phase" /\ phase = "RUN"
  /\ IF s_state # "CONNECTED"
       THEN mqtt_disconnect /\ EnterPhase("INIT")
       ELSE ring' \in Suffixes /\ UNCHANGED <<phase, age, s_state, s_link, net>>
  /\ pc' = "check"
  /\ UNCHANGED <<s_wifi, settled>>

(* Mutant: no phase limit.                                                 *)
StuckCheck_Never ==
  /\ pc = "check"
  /\ pc' = "loop"
  /\ UNCHANGED <<task, ring, net, settled>>

(* The 30 s limit on every phase but RUN.                                  *)
StuckCheck ==
  /\ pc = "check"
  /\ IF phase # "RUN" /\ age > Stuck
       THEN mqtt_disconnect /\ EnterPhase("INIT")
       ELSE UNCHANGED <<phase, age, ring, net, s_link, s_state>>
  /\ pc' = "loop"
  /\ UNCHANGED <<s_wifi, settled>>

mqtt_task == \/ Boot \/ Loop \/ PhaseInit \/ PhaseMqttInit \/ PhaseConnect
             \/ TcpRefused \/ TcpConnected \/ SendConnect \/ WaitLoop \/ WaitOk \/ WaitRejected \/ WaitTimeout
             \/ PhaseSub \/ PhaseRun \/ StuckCheck

-----------------------------------------------------------------------------
(* External: access point, TCP connection and broker.                      *)
Receive(kind) == Len(ring) < RingCap /\ ring' = Append(ring, kind)

TcpLost ==
  /\ ~settled /\ tcp
  /\ Down
  /\ Receive("CLOSED") \/ UNCHANGED ring
  /\ UNCHANGED <<pc, task, wifi, settled>>

WifiLost ==
  /\ ~settled /\ wifi
  /\ wifi' = FALSE /\ Down
  /\ Receive("WIFI DISCONNECT")
  /\ UNCHANGED <<pc, task, settled>>

WifiBack ==
  /\ ~wifi
  /\ wifi' = TRUE
  /\ Receive("WIFI GOT IP")
  /\ UNCHANGED <<pc, task, tcp, session, subscription, settled>>

BrokerAnswers ==
  /\ session = "connecting"
  /\ \/ session' = "up" /\ Receive("CONNACK") /\ UNCHANGED subscription
     \/ /\ ~settled /\ session' = "none" /\ Receive("CONNACK_REJECT")
        /\ subscription' = "none"
  /\ UNCHANGED <<pc, task, wifi, tcp, settled>>

(* A SUBACK grants or refuses: the code 0x80.  The client takes no notice. *)
BrokerSubacks ==
  /\ session = "up" /\ subscription = "asked"
  /\ subscription' \in {"granted", "refused"}
  /\ UNCHANGED <<pc, task, ring, wifi, tcp, session, settled>>

(* From here on nothing fails any more.                                    *)
Settle == ~settled /\ settled' = TRUE /\ UNCHANGED <<pc, task, ring, net>>

Network == TcpLost \/ WifiLost \/ WifiBack \/ BrokerAnswers \/ BrokerSubacks \/ Settle

Next == mqtt_task \/ Network

Spec == Init /\ [][Next]_vars

(* mqtt_task is never starved: the higher priorities block.  The access     *)
(* point comes back and the broker answers.                                *)
FairSpec == Spec /\ WF_vars(mqtt_task) /\ WF_vars(WifiBack) /\ WF_vars(BrokerAnswers)
-----------------------------------------------------------------------------
TypeOK ==
  /\ pc \in {"boot", "deleted", "loop", "phase", "start", "send", "wait", "check"}
  /\ phase \in Phases /\ age \in 0 .. Stuck + 1
  /\ s_state \in {"IDLE", "TCP_OPEN", "CONNECT_SENT", "CONNECTED", "DISCONNECTED"}
  /\ s_wifi \in BOOLEAN /\ s_link \in BOOLEAN
  /\ ring \in Seq(Frames \cup Lines)
  /\ wifi \in BOOLEAN /\ tcp \in BOOLEAN /\ settled \in BOOLEAN
  /\ session \in {"none", "connecting", "up"}
  /\ subscription \in {"none", "asked", "granted", "refused"}

(* The device never sits in RUN on a live session that it has not asked     *)
(* for its commands, whichever CONNACK the wait ended on: the one of this  *)
(* attempt, or a late one of an attempt that was given up.  What the       *)
(* broker answers to the SUBSCRIBE is not looked at (mqtt.c:337-339), so    *)
(* no more than the asking is guaranteed.                                   *)
RunHasSubscribed == phase = "RUN" /\ session # "none" => subscription # "none"

(* The phase limit unsticks every phase: once the network is good, mqtt_task *)
(* reaches RUN from any other phase, whatever connection, client state and *)
(* pending events the bad time left behind.                                *)
PhasesReachRun == settled /\ pc \notin {"boot", "deleted"} ~> phase = "RUN"

(* task_mqtt.c says that it maintains the WiFi and MQTT connection: once    *)
(* the network is good, the device is connected again.                     *)
ReconnectsAfterLoss ==
  settled /\ pc \notin {"boot", "deleted"} ~> phase = "RUN" /\ session = "up"
=============================================================================
