------------------------- MODULE MqttSessionProofs -------------------------
(***************************************************************************)
(* Theorems about MqttSession for every phase limit and every number of    *)
(* pending events that satisfies the assumption.                           *)
(***************************************************************************)
EXTENDS MqttSession, SequenceFacts, TLAPS

Events == Frames \cup Lines
Subscriptions == {"none", "asked", "granted", "refused"}
Sessions == {"none", "connecting", "up"}

(* The inductive invariant.  A connection is only asked for a session in    *)
(* phase CONNECT, which RUN can be entered from by way of SUB alone: so a  *)
(* session that RUN sees was there when the SUBSCRIBE was sent, whether    *)
(* the CONNACK that ended the wait was its own or a late one.              *)
SessionInv ==
  /\ TypeOK
  /\ pc \in {"start", "send", "wait"} => phase = "CONNECT"
  /\ RunHasSubscribed

-----------------------------------------------------------------------------
(* The waits of at_wait_for leave a sequence of events.                     *)
LEMMA SuffixFacts ==
  ASSUME ring \in Seq(Events), NEW r \in Suffixes
  PROVE  r \in Seq(Events)
<1>1. PICK k \in 0 .. Len(ring) : r = SubSeq(ring, k + 1, Len(ring))
  BY DEF Suffixes
<1>2. QED
  BY <1>1, DropFacts

(* An event appended to the ring.                                           *)
LEMMA ReceiveFacts ==
  ASSUME NEW r \in Seq(Events), NEW kind \in Events
  PROVE  Append(r, kind) \in Seq(Events)
  BY AppendFacts

(* What AT+CWJAP leaves in the ring, and what a command empties.            *)
LEMMA JoinFacts ==
  /\ << >> \in Seq(Events)
  /\ <<"WIFI GOT IP">> \in Seq(Events)
  /\ <<"WIFI DISCONNECT">> \in Seq(Events)
  /\ <<"WIFI DISCONNECT", "WIFI GOT IP">> \in Seq(Events)
<1>1. "WIFI GOT IP" \in Events /\ "WIFI DISCONNECT" \in Events
  BY DEF Events, Lines
<1>2. << >> \in Seq(Events)
  OBVIOUS
<1>3. <<"WIFI GOT IP">> \in Seq(Events) /\ <<"WIFI DISCONNECT">> \in Seq(Events)
  BY <1>1, OneFacts
<1>4. <<"WIFI DISCONNECT", "WIFI GOT IP">> \in Seq(Events)
  BY <1>1, TwoFacts
<1>5. QED
  BY <1>2, <1>3, <1>4

(* What a connection that goes down or stays leaves at the broker.          *)
DownOrSame == \/ tcp' = FALSE /\ session' = "none" /\ subscription' = "none"
              \/ UNCHANGED <<tcp, session, subscription>>

(* What a TcpClose may do.                                                  *)
LEMMA TcpCloseFacts ==
  ASSUME SessionInv, TcpClose
  PROVE  /\ ring' \in Seq(Events)
         /\ s_link' \in BOOLEAN /\ wifi' \in BOOLEAN /\ DownOrSame
<1>1. ring \in Seq(Events) /\ ring' \in Suffixes
  BY DEF TcpClose, SessionInv, TypeOK, Events
<1>2. ring' \in Seq(Events)
  BY <1>1, SuffixFacts
<1>3. QED
  BY <1>2 DEF TcpClose, Down, DownOrSame, SessionInv, TypeOK

(* mqtt_disconnect, whichever way its exchanges end.                        *)
LEMMA DisconnectFacts ==
  ASSUME SessionInv, mqtt_disconnect
  PROVE  /\ ring' \in Seq(Events)
         /\ s_link' \in BOOLEAN /\ wifi' \in BOOLEAN /\ s_state' \in {s_state, "IDLE"}
         /\ DownOrSame
<1>1. CASE s_state \in {"CONNECTED", "TCP_OPEN", "CONNECT_SENT"}
  BY <1>1, TcpCloseFacts DEF mqtt_disconnect
<1>2. CASE s_state \notin {"CONNECTED", "TCP_OPEN", "CONNECT_SENT"}
  BY <1>2 DEF mqtt_disconnect, net, SessionInv, TypeOK, DownOrSame, Events
<1>3. QED
  BY <1>1, <1>2

(* Time passes within a phase.                                              *)
LEMMA LaterFacts ==
  ASSUME SessionInv, Later
  PROVE  age' \in 0 .. Stuck + 1 /\ phase' = phase
<1>1. Stuck \in Nat \ {0} /\ age \in 0 .. Stuck + 1
  BY SessionAssumption DEF SessionInv, TypeOK
<1>2. QED
  BY <1>1 DEF Later

(* A phase entered starts its clock.                                        *)
LEMMA EnterPhaseFacts ==
  ASSUME NEW p \in Phases, EnterPhase(p)
  PROVE  age' \in 0 .. Stuck + 1 /\ phase' = p
  BY SessionAssumption DEF EnterPhase

(* mqtt_loop empties the ring and leaves the client in one of its states.   *)
LEMMA LoopFacts ==
  ASSUME SessionInv, mqtt_loop
  PROVE  /\ ring' = << >>
         /\ s_state' \in {s_state, "CONNECTED", "DISCONNECTED"}
         /\ s_wifi' \in BOOLEAN /\ s_link' \in BOOLEAN
<1>1. ring' = << >> /\ s_state' \in {s_state, "CONNECTED", "DISCONNECTED"}
  BY DEF mqtt_loop
<1>2. s_wifi' \in BOOLEAN
  <2>1. CASE LastLine({"WIFI DISCONNECT", "WIFI GOT IP"}) = {}
    BY <2>1 DEF mqtt_loop, SessionInv, TypeOK
  <2>2. CASE LastLine({"WIFI DISCONNECT", "WIFI GOT IP"}) # {}
    BY <2>2 DEF mqtt_loop
  <2>3. QED
    BY <2>1, <2>2
<1>3. s_link' \in BOOLEAN
  BY DEF mqtt_loop
<1>4. QED
  BY <1>1, <1>2, <1>3

-----------------------------------------------------------------------------
(* The session at boot.                                                     *)
LEMMA SessionInit == Init => SessionInv
<1> SUFFICES ASSUME Init PROVE SessionInv
  OBVIOUS
<1>1. 0 \in 0 .. Stuck + 1
  BY SessionAssumption
<1>2. TypeOK
  BY <1>1, JoinFacts DEF Init, TypeOK, Phases, Events
<1>3. QED
  BY <1>2 DEF Init, SessionInv, RunHasSubscribed

(* The steps of mqtt_task keep the invariant, phase by phase.               *)
LEMMA LoopInv == ASSUME SessionInv, Boot \/ Loop PROVE SessionInv'
<1>1. CASE Boot
  BY <1>1 DEF Boot, task, net, SessionInv, TypeOK, RunHasSubscribed
<1>2. CASE Loop
  <2>1. mqtt_loop
    BY <1>2 DEF Loop
  <2>2. QED
    BY <1>2, <2>1, LoopFacts, JoinFacts
       DEF Loop, net, SessionInv, TypeOK, RunHasSubscribed, Events
<1>3. QED
  BY <1>1, <1>2

(* The phases that set up module and client.                                *)
LEMMA InitPhaseInv == ASSUME SessionInv, PhaseInit \/ PhaseMqttInit PROVE SessionInv'
<1>1. CASE PhaseInit
  <2>1. CASE Joined /\ s_wifi' = TRUE /\ EnterPhase("MQTT_INIT")
    <3>1. ring' \in Seq(Events)
      BY <2>1, JoinFacts DEF Joined, JoinLines
    <3>2. age' \in 0 .. Stuck + 1 /\ phase' = "MQTT_INIT"
      BY <2>1, EnterPhaseFacts DEF Phases
    <3>3. QED
      BY <1>1, <2>1, <3>1, <3>2
         DEF PhaseInit, Joined, Down, SessionInv, TypeOK, RunHasSubscribed, Events, Phases
  <2>2. CASE JoinFailed /\ s_wifi' = FALSE /\ Later
    <3>1. ring' \in Seq(Events)
      BY <2>2, JoinFacts DEF JoinFailed, Cleared
    <3>2. age' \in 0 .. Stuck + 1 /\ phase' = "INIT"
      BY <1>1, <2>2, LaterFacts DEF PhaseInit
    <3>3. /\ wifi' \in BOOLEAN /\ tcp' \in BOOLEAN /\ subscription' \in Subscriptions
          /\ session' \in Sessions
      BY <2>2 DEF JoinFailed, Down, net, SessionInv, TypeOK, Subscriptions, Sessions
    <3>4. QED
      BY <1>1, <2>2, <3>1, <3>2, <3>3
         DEF PhaseInit, SessionInv, TypeOK, RunHasSubscribed, Events, Phases,
             Subscriptions, Sessions
  <2>3. QED
    BY <1>1, <2>1, <2>2 DEF PhaseInit
<1>2. CASE PhaseMqttInit
  <2>1. age' \in 0 .. Stuck + 1 /\ phase' = "CONNECT"
    BY <1>2, EnterPhaseFacts DEF PhaseMqttInit, Phases
  <2>2. QED
    BY <1>2, <2>1 DEF PhaseMqttInit, net, SessionInv, TypeOK, RunHasSubscribed, Phases
<1>3. QED
  BY <1>1, <1>2

(* The connection to the broker, up to the word CONNECT.                    *)
LEMMA ConnectPhaseInv ==
  ASSUME SessionInv, PhaseConnect \/ TcpRefused \/ TcpConnected
  PROVE  SessionInv'
<1>1. phase = "CONNECT" /\ phase' = "CONNECT" /\ age' \in 0 .. Stuck + 1
  BY LaterFacts
     DEF PhaseConnect, CipStart, TcpRefused, TcpConnected, SessionInv, TypeOK
<1>2. ring' \in Seq(Events)
  <2>1. ring \in Seq(Events)
    BY DEF SessionInv, TypeOK, Events
  <2>2. CASE PhaseConnect
    BY <2>1, <2>2, JoinFacts DEF PhaseConnect, CipStart, Cleared
  <2>3. CASE TcpRefused \/ TcpConnected
    BY <2>1, <2>3, SuffixFacts DEF TcpRefused, TcpConnected
  <2>4. QED
    BY <2>2, <2>3
<1>3. CASE PhaseConnect
  BY <1>1, <1>2, <1>3
     DEF PhaseConnect, CipStart, net, SessionInv, TypeOK, RunHasSubscribed, Events, Phases
<1>4. CASE TcpRefused
  BY <1>1, <1>2, <1>4
     DEF TcpRefused, SessionInv, TypeOK, RunHasSubscribed, Events, Phases
<1>5. CASE TcpConnected
  BY <1>1, <1>2, <1>5
     DEF TcpConnected, SessionInv, TypeOK, RunHasSubscribed, Events, Phases
<1>6. QED
  BY <1>3, <1>4, <1>5

(* The broker's side of a CONNECT.                                          *)
LEMMA BrokerTakesConnectFacts ==
  ASSUME SessionInv, BrokerTakesConnect
  PROVE  /\ ring' \in Seq(Events)
         /\ tcp' \in BOOLEAN /\ subscription' \in Subscriptions /\ session' \in Sessions
<1>0. ring \in Seq(Events) /\ "CLOSED" \in Events
  BY DEF SessionInv, TypeOK, Events, Lines
<1>1. CASE session = "none"
  <2>1. ring' \in Suffixes /\ session' = "connecting" /\ UNCHANGED <<tcp, subscription>>
    BY <1>1 DEF BrokerTakesConnect
  <2>2. ring' \in Seq(Events)
    BY <1>0, <2>1, SuffixFacts
  <2>3. QED
    BY <2>1, <2>2 DEF SessionInv, TypeOK, Subscriptions, Sessions
<1>2. CASE session # "none"
  <2>1. PICK r \in Suffixes : ring' = Append(r, "CLOSED")
    BY <1>2 DEF BrokerTakesConnect
  <2>2. r \in Seq(Events)
    BY <1>0, SuffixFacts
  <2>3. ring' \in Seq(Events)
    BY <1>0, <2>1, <2>2, ReceiveFacts
  <2>4. QED
    BY <1>2, <2>3 DEF BrokerTakesConnect, Down, Subscriptions, Sessions
<1>3. QED
  BY <1>1, <1>2

(* The CONNECT packet is sent.                                              *)
LEMMA SendConnectInv == ASSUME SessionInv, SendConnect PROVE SessionInv'
<1>0. pc = "send" /\ phase = "CONNECT"
  BY DEF SendConnect, SessionInv
<1>1. CASE tcp /\ BrokerTakesConnect /\ pc' = "wait" /\ UNCHANGED <<phase, age, s_state>>
  BY <1>0, <1>1, BrokerTakesConnectFacts
     DEF SendConnect, SessionInv, TypeOK, RunHasSubscribed, Events, Subscriptions, Sessions
<1>2. CASE /\ tcp /\ ~settled /\ BrokerTakesConnect
           /\ pc' = "check" /\ s_state' = "DISCONNECTED" /\ Later
  BY <1>0, <1>2, BrokerTakesConnectFacts, LaterFacts
     DEF SendConnect, SessionInv, TypeOK, RunHasSubscribed, Events, Subscriptions, Sessions
<1>3. CASE /\ ring' \in Suffixes
           /\ pc' = "check" /\ s_state' = "DISCONNECTED" /\ Later
           /\ UNCHANGED <<tcp, session, subscription>>
  <2>1. ring' \in Seq(Events)
    BY <1>3, SuffixFacts DEF SessionInv, TypeOK, Events
  <2>2. QED
    BY <1>0, <1>3, <2>1, LaterFacts
       DEF SendConnect, SessionInv, TypeOK, RunHasSubscribed, Events
<1>4. QED
  BY <1>1, <1>2, <1>3 DEF SendConnect

(* The wait for the CONNACK, with its four ends.                            *)
LEMMA WaitInv ==
  ASSUME SessionInv, WaitLoop \/ WaitOk \/ WaitRejected \/ WaitTimeout
  PROVE  SessionInv'
<1>1. CASE WaitLoop
  <2>1. mqtt_loop
    BY <1>1 DEF WaitLoop
  <2>2. QED
    BY <1>1, <2>1, LoopFacts, JoinFacts
       DEF WaitLoop, net, SessionInv, TypeOK, RunHasSubscribed, Events
<1>2. CASE WaitOk
  <2>1. age' \in 0 .. Stuck + 1 /\ phase' = "SUB"
    BY <1>2, EnterPhaseFacts DEF WaitOk, Phases
  <2>2. QED
    BY <1>2, <2>1 DEF WaitOk, net, SessionInv, TypeOK, RunHasSubscribed, Phases
<1>3. CASE WaitRejected \/ WaitTimeout
  <2>1. TcpClose /\ Later /\ pc = "wait" /\ pc' = "check"
    BY <1>3 DEF WaitRejected, WaitTimeout
  <2>2. s_state' \in {s_state, "DISCONNECTED"} /\ UNCHANGED <<s_wifi, settled>>
    BY <1>3 DEF WaitRejected, WaitTimeout
  <2>3. QED
    BY <2>1, <2>2, TcpCloseFacts, LaterFacts
       DEF SessionInv, TypeOK, RunHasSubscribed, DownOrSame, Events
<1>4. QED
  BY <1>1, <1>2, <1>3

(* The broker's side of a SUBSCRIBE: a session that is left has it.         *)
LEMMA BrokerTakesSubscribeFacts ==
  ASSUME SessionInv, BrokerTakesSubscribe
  PROVE  /\ ring' \in Seq(Events)
         /\ tcp' \in BOOLEAN /\ subscription' \in Subscriptions /\ session' \in Sessions
         /\ session' # "none" => subscription' # "none"
<1>0. ring \in Seq(Events) /\ "CLOSED" \in Events
  BY DEF SessionInv, TypeOK, Events, Lines
<1>1. CASE session = "none"
  <2>1. PICK r \in Suffixes : ring' = Append(r, "CLOSED")
    BY <1>1 DEF BrokerTakesSubscribe
  <2>2. r \in Seq(Events)
    BY <1>0, SuffixFacts
  <2>3. ring' \in Seq(Events)
    BY <1>0, <2>1, <2>2, ReceiveFacts
  <2>4. QED
    BY <1>1, <2>3 DEF BrokerTakesSubscribe, Down, Subscriptions, Sessions
<1>2. CASE session # "none"
  <2>1. ring' \in Suffixes /\ subscription' = "asked" /\ UNCHANGED <<tcp, session>>
    BY <1>2 DEF BrokerTakesSubscribe
  <2>2. ring' \in Seq(Events)
    BY <1>0, <2>1, SuffixFacts
  <2>3. QED
    BY <2>1, <2>2 DEF SessionInv, TypeOK, Subscriptions, Sessions
<1>3. QED
  BY <1>1, <1>2

(* RUN is entered with the SUBSCRIBE at the broker, or without a session.   *)
LEMMA SubPhaseInv == ASSUME SessionInv, PhaseSub PROVE SessionInv'
<1>1. CASE BrokerTakesSubscribe /\ (EnterPhase("RUN") \/ Later)
  <2>1. age' \in 0 .. Stuck + 1 /\ phase' \in {"SUB", "RUN"}
    BY <1>1, EnterPhaseFacts, LaterFacts DEF PhaseSub, Phases
  <2>2. QED
    BY <1>1, <2>1, BrokerTakesSubscribeFacts
       DEF PhaseSub, SessionInv, TypeOK, RunHasSubscribed, Events, Phases,
           Subscriptions, Sessions
<1>2. CASE /\ ring' \in Suffixes \/ UNCHANGED ring
           /\ Later /\ UNCHANGED <<tcp, session, subscription>>
  <2>1. ring' \in Seq(Events)
    BY <1>2, SuffixFacts DEF SessionInv, TypeOK, Events
  <2>2. QED
    BY <1>2, <2>1, LaterFacts
       DEF PhaseSub, SessionInv, TypeOK, RunHasSubscribed, Events, Phases
<1>3. QED
  BY <1>1, <1>2 DEF PhaseSub, NotTaken

(* RUN, and the limit on the time a phase may take.                         *)
LEMMA RunPhaseInv == ASSUME SessionInv, PhaseRun \/ StuckCheck PROVE SessionInv'
<1>1. CASE mqtt_disconnect /\ EnterPhase("INIT")
  <2>1. age' \in 0 .. Stuck + 1 /\ phase' = "INIT"
    BY <1>1, EnterPhaseFacts DEF Phases
  <2>2. QED
    BY <1>1, <2>1, DisconnectFacts
       DEF PhaseRun, StuckCheck, SessionInv, TypeOK, RunHasSubscribed, DownOrSame,
           Events, Phases
<1>2. CASE PhaseRun /\ ring' \in Suffixes /\ UNCHANGED <<phase, age, s_state, s_link, net>>
  <2>1. ring' \in Seq(Events)
    BY <1>2, SuffixFacts DEF SessionInv, TypeOK, Events
  <2>2. QED
    BY <1>2, <2>1 DEF PhaseRun, net, SessionInv, TypeOK, RunHasSubscribed, Events
<1>3. CASE StuckCheck /\ UNCHANGED <<phase, age, ring, net, s_link, s_state>>
  BY <1>3 DEF StuckCheck, net, SessionInv, TypeOK, RunHasSubscribed
<1>4. QED
  BY <1>1, <1>2, <1>3 DEF PhaseRun, StuckCheck

(* The network may cut a connection and answer: it never takes back a       *)
(* SUBSCRIBE without the session.                                          *)
LEMMA NetworkInv == ASSUME SessionInv, Network PROVE SessionInv'
<1>1. ring' \in Seq(Events)
  <2>1. ring \in Seq(Events) /\ Frames \subseteq Events /\ Lines \subseteq Events
    BY DEF SessionInv, TypeOK, Events
  <2>2. \/ UNCHANGED ring
        \/ \E kind \in Frames \cup Lines : ring' = Append(ring, kind)
    BY DEF Network, TcpLost, WifiLost, WifiBack, BrokerAnswers, BrokerSubacks, Settle,
           Receive, Frames, Lines
  <2>3. QED
    BY <2>1, <2>2, ReceiveFacts
<1>2. CASE TcpLost \/ WifiLost
  BY <1>1, <1>2 DEF TcpLost, WifiLost, Down, task, SessionInv, TypeOK, RunHasSubscribed, Events
<1>3. CASE WifiBack
  <2>1. /\ wifi' = TRUE
        /\ UNCHANGED <<pc, phase, age, s_state, s_wifi, s_link, tcp, session,
                       subscription, settled>>
    BY <1>3 DEF WifiBack, task
  <2>2. QED
    BY <1>1, <2>1 DEF SessionInv, TypeOK, RunHasSubscribed, Events
<1>4. CASE BrokerAnswers
  BY <1>1, <1>4 DEF BrokerAnswers, task, SessionInv, TypeOK, RunHasSubscribed, Events
<1>5. CASE BrokerSubacks
  BY <1>1, <1>5 DEF BrokerSubacks, task, SessionInv, TypeOK, RunHasSubscribed, Events
<1>6. CASE Settle
  BY <1>6 DEF Settle, task, net, SessionInv, TypeOK, RunHasSubscribed
<1>7. QED
  BY <1>2, <1>3, <1>4, <1>5, <1>6 DEF Network

-----------------------------------------------------------------------------
(* The invariant of the session holds in every reachable state, whatever    *)
(* the network does and however the waits time out.                        *)
THEOREM SessionInvariant == Spec => []SessionInv
<1>1. SessionInv /\ [Next]_vars => SessionInv'
  <2> SUFFICES ASSUME SessionInv, [Next]_vars PROVE SessionInv'
    OBVIOUS
  <2>1. CASE mqtt_task
    BY <2>1, LoopInv, InitPhaseInv, ConnectPhaseInv, SendConnectInv, WaitInv,
       SubPhaseInv, RunPhaseInv DEF mqtt_task
  <2>2. CASE Network
    BY <2>2, NetworkInv
  <2>3. CASE UNCHANGED vars
    BY <2>3 DEF vars, task, net, SessionInv, TypeOK, RunHasSubscribed
  <2>4. QED
    BY <2>1, <2>2, <2>3 DEF Next
<1>2. QED
  BY <1>1, SessionInit, PTL DEF Spec

(* Every reachable state of the session is well typed: the phase timer      *)
(* stays in its range, and the ring holds nothing but events.              *)
THEOREM TypeCorrect == Spec => []TypeOK
<1>1. SessionInv => TypeOK
  BY DEF SessionInv
<1>2. QED
  BY <1>1, SessionInvariant, PTL

(* The device never sits in RUN on a live session whose broker it has not   *)
(* asked for the commands, whichever CONNACK it took for its own.          *)
THEOREM SubscribedInRun == Spec => []RunHasSubscribed
<1>1. SessionInv => RunHasSubscribed
  BY DEF SessionInv
<1>2. QED
  BY <1>1, SessionInvariant, PTL

=============================================================================
