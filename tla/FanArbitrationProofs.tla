------------------------ MODULE FanArbitrationProofs ------------------------
(***************************************************************************)
(* Theorems about FanArbitration for every queue length, command set,      *)
(* timeout, stall bound and tick range that satisfies the assumption.      *)
(***************************************************************************)
EXTENDS FanArbitration, TLAPS

(* Every FAN command a producer can build is one fan_apply accepts, and it  *)
(* asks for a duty cycle motor_set_speed accepts.                          *)
LEMMA FanCommandFacts ==
  ASSUME NEW m \in Msgs
  PROVE  /\ m.target \in {TARGET_FAN, TARGET_HEAT, TARGET_HUMID}
         /\ m # None
         /\ m.target = TARGET_FAN => /\ FanAccepts(m)
                                     /\ FanPwm(m) \in 0 .. 300
                                     /\ FanPct(m) \in 0 .. 100
<1>1. CASE m \in RemoteMsgs
  <2>1. PICK c \in RemoteCmds, r \in Remotes : m = Msg(c[1], c[2], r)
    BY <1>1 DEF RemoteMsgs
  <2>2. m.target = c[1] /\ m.value = c[2] /\ m.source = r
    BY <2>1 DEF Msg
  <2>3. m.target \in {TARGET_FAN, TARGET_HEAT, TARGET_HUMID} /\ m # None
    BY <2>2, ArbitrationAssumption DEF None, TARGET_FAN, TARGET_HEAT, TARGET_HUMID
  <2>4. ASSUME m.target = TARGET_FAN
        PROVE  m.source # SOURCE_GUI /\ m.value \in FanLevels
    BY <2>2, <2>4, ArbitrationAssumption
       DEF TARGET_FAN, TARGET_HEAT, TARGET_HUMID, SOURCE_GUI, SOURCE_LORA, SOURCE_NETWORK
  <2>5. QED
    BY <2>3, <2>4 DEF FanAccepts, FanPwm, FanPct, LevelPwm, LevelPct, FanLevels,
                      APPLAY_VAL_OFF, APPLAY_VAL_HI
<1>2. CASE m \in GuiMsgs
  <2>1. PICK p \in GuiPcts : m = Msg(TARGET_FAN, p, SOURCE_GUI)
    BY <1>2 DEF GuiMsgs
  <2>2. m.target = TARGET_FAN /\ m.value = p /\ m.source = SOURCE_GUI /\ p \in 0 .. 100
    BY <2>1, ArbitrationAssumption DEF Msg
  <2>3. GuiPct(p) \in 0 .. 100
    BY <2>2 DEF GuiPct
  <2>4. QED
    BY <2>2, <2>3 DEF FanAccepts, FanPwm, FanPct, None, TARGET_FAN
<1>3. CASE m \in AutoMsgs
  <2>1. PICK l \in AutoCmds : m = Msg(TARGET_FAN, l, SOURCE_AUTO)
    BY <1>3 DEF AutoMsgs
  <2>2. m.target = TARGET_FAN /\ m.value = l /\ m.source = SOURCE_AUTO
    BY <2>1 DEF Msg
  <2>3. l \in FanLevels
    BY DEF AutoCmds, AutoCmd, FanLevels, APPLAY_VAL_OFF, APPLAY_VAL_LOW,
           APPLAY_VAL_MID, APPLAY_VAL_HI
  <2>4. QED
    BY <2>2, <2>3 DEF FanAccepts, FanPwm, FanPct, LevelPwm, LevelPct, FanLevels, None,
                      APPLAY_VAL_OFF, APPLAY_VAL_HI, TARGET_FAN, SOURCE_AUTO, SOURCE_GUI
<1>4. QED
  BY <1>1, <1>2, <1>3 DEF Msgs

(* Accepting a command keeps the queue and the history well typed.         *)
LEMMA EnqueueType ==
  ASSUME TypeOK, NEW m \in Msgs, Enqueue(m)
  PROVE  /\ queue' \in Seq(Msgs) /\ Len(queue') <= QueueLen
         /\ lastFan' \in Msgs \cup {None}
  BY ArbitrationAssumption DEF TypeOK, Enqueue

-----------------------------------------------------------------------------
(* Every reachable state of the arbitration is well typed: in particular    *)
(* the queue never exceeds its length, the motor compare value stays in    *)
(* 0..300 and the wrapped tick counters stay in range.                     *)
THEOREM TypeCorrect == Spec => []TypeOK
<1>1. Init => TypeOK
  <2> SUFFICES ASSUME Init PROVE TypeOK
    OBVIOUS
  <2>1. BootPwm \in 0 .. 300
    BY DEF BootPwm
  <2>2. fan \in [pwm : 0 .. 300, light : BOOLEAN] /\ heat \in BOOLEAN /\ humid \in BOOLEAN
    BY <2>1 DEF Init
  <2>3. pending \in [Remotes -> RemoteMsgs \cup {None}]
    BY DEF Init
  <2>4. queue \in Seq(Msgs) /\ Len(queue) <= QueueLen
    BY ArbitrationAssumption DEF Init
  <2>5. QED
    BY <2>2, <2>3, <2>4, ArbitrationAssumption DEF Init, TypeOK
<1>2. TypeOK /\ [Next]_vars => TypeOK'
  <2> SUFFICES ASSUME TypeOK, [Next]_vars PROVE TypeOK'
    OBVIOUS
  <2>1. ASSUME NEW r \in Remotes, RemoteCommand(r) PROVE TypeOK'
    <3>1. PICK c \in RemoteCmds : pending' = [pending EXCEPT ![r] = Msg(c[1], c[2], r)]
      BY <2>1 DEF RemoteCommand
    <3>2. Msg(c[1], c[2], r) \in RemoteMsgs
      BY DEF RemoteMsgs
    <3>3. pending' \in [Remotes -> RemoteMsgs \cup {None}]
      BY <3>1, <3>2 DEF TypeOK
    <3>4. QED
      BY <2>1, <3>3 DEF TypeOK, RemoteCommand, actuatorVars, sensorVars
  <2>2. ASSUME NEW r \in Remotes, RemoteSend(r) PROVE TypeOK'
    <3>1. pending[r] \in Msgs
      BY <2>2 DEF TypeOK, RemoteSend, Msgs
    <3>2. Enqueue(pending[r])
      BY <2>2 DEF RemoteSend
    <3>3. pending' \in [Remotes -> RemoteMsgs \cup {None}]
      BY <2>2 DEF TypeOK, RemoteSend
    <3>4. QED
      BY <2>2, <3>1, <3>2, <3>3, EnqueueType
         DEF TypeOK, RemoteSend, actuatorVars, sensorVars
  <2>3. ASSUME NEW r \in Remotes, RemoteTimeout(r) PROVE TypeOK'
    <3>1. pending' \in [Remotes -> RemoteMsgs \cup {None}]
      BY <2>3 DEF TypeOK, RemoteTimeout
    <3>2. QED
      BY <2>3, <3>1 DEF TypeOK, RemoteTimeout, actuatorVars, sensorVars
  <2>4. CASE GuiCommand
    <3>1. PICK p \in GuiPcts : Enqueue(Msg(TARGET_FAN, p, SOURCE_GUI))
      BY <2>4 DEF GuiCommand
    <3>2. Msg(TARGET_FAN, p, SOURCE_GUI) \in Msgs
      BY DEF Msgs, GuiMsgs
    <3>3. QED
      BY <2>4, <3>1, <3>2, EnqueueType
         DEF TypeOK, GuiCommand, actuatorVars, sensorVars
  <2>5. CASE applay_task
    <3>1. Head(queue) \in Msgs /\ queue' \in Seq(Msgs) /\ Len(queue') <= QueueLen
      BY <2>5, ArbitrationAssumption DEF TypeOK, applay_task
    <3>2. CASE ApplyFan(Head(queue))
      <4>1. FanAccepts(Head(queue)) /\ FanPwm(Head(queue)) \in 0 .. 300
        BY <3>1, <3>2, FanCommandFacts DEF ApplyFan
      <4>2. fan' = [pwm |-> FanPwm(Head(queue)), light |-> FanPct(Head(queue)) # 0]
        BY <3>2, <4>1 DEF ApplyFan, fan_apply, motor_set_speed
      <4>3. fan' \in [pwm : 0 .. 300, light : BOOLEAN]
        BY <4>1, <4>2
      <4>4. mode_control' \in {0, 1} /\ age' \in Nat
        BY <3>2 DEF ApplyFan, TypeOK
      <4>5. QED
        BY <2>5, <3>1, <3>2, <4>3, <4>4
           DEF TypeOK, applay_task, ApplyFan, sensorVars
    <3>3. CASE ApplyHeat(Head(queue))
      BY <2>5, <3>1, <3>3 DEF TypeOK, applay_task, ApplyHeat, switch_apply, sensorVars
    <3>4. CASE ApplyHumid(Head(queue))
      BY <2>5, <3>1, <3>4 DEF TypeOK, applay_task, ApplyHumid, switch_apply, sensorVars
    <3>5. QED
      BY <2>5, <3>2, <3>3, <3>4 DEF applay_task
  <2>6. CASE SensorDecide
    BY <2>6 DEF TypeOK, SensorDecide, actuatorVars
  <2>7. CASE SensorCheck
    BY <2>7 DEF TypeOK, SensorCheck, actuatorVars
  <2>8. CASE SensorSend
    <3>1. Msg(TARGET_FAN, auto_cmd, SOURCE_AUTO) \in Msgs
      BY <2>8 DEF TypeOK, SensorSend, Msgs, AutoMsgs
    <3>2. queue' \in Seq(Msgs) /\ Len(queue') <= QueueLen /\ lastFan' \in Msgs \cup {None}
      BY <2>8, <3>1, EnqueueType DEF TypeOK, SensorSend
    <3>3. QED
      BY <2>8, <3>2 DEF TypeOK, SensorSend, actuatorVars
  <2>9. CASE SensorExpire
    BY <2>9 DEF TypeOK, SensorExpire, actuatorVars
  <2>10. CASE SensorRelease
    BY <2>10 DEF TypeOK, SensorRelease, actuatorVars
  <2>11. CASE SensorSleep
    BY <2>11, ArbitrationAssumption
       DEF TypeOK, SensorSleep, TickAfter, actuatorVars, Older, AgeCap
  <2>12. CASE UNCHANGED vars
    BY <2>12 DEF TypeOK, vars, actuatorVars, sensorVars
  <2>13. QED
    BY <2>1, <2>2, <2>3, <2>4, <2>5, <2>6, <2>7, <2>8, <2>9, <2>10, <2>11, <2>12
       DEF Next, sensor_data_get_task
<1>3. QED
  BY <1>1, <1>2, PTL DEF Spec

-----------------------------------------------------------------------------
(* A step that leaves queue, fan and history alone keeps the fan obedient. *)
LEMMA ObeyUnchanged ==
  ASSUME FanObeysLastCommand, UNCHANGED <<queue, fan, lastFan>>
  PROVE  FanObeysLastCommand'
  BY DEF FanObeysLastCommand, LastFanQueued

(* Accepting a command keeps the fan obedient: a FAN command becomes the    *)
(* newest one, any other command leaves the newest one where it is.        *)
LEMMA EnqueueObey ==
  ASSUME TypeOK, FanObeysLastCommand, NEW m \in Msgs, Enqueue(m), UNCHANGED fan
  PROVE  FanObeysLastCommand'
<1>1. /\ queue' \in Seq(Msgs) /\ Len(queue') = Len(queue) + 1
      /\ \A j \in 1 .. Len(queue) : queue'[j] = queue[j]
      /\ queue'[Len(queue) + 1] = m
      /\ Len(queue) \in Nat
  BY DEF TypeOK, Enqueue
<1>2. CASE m.target = TARGET_FAN
  <2>1. PICK n \in Nat : n = Len(queue) + 1
    BY <1>1
  <2>2. LastFanQueued(n)'
    BY <1>1, <1>2, <2>1 DEF LastFanQueued, Enqueue
  <2>3. QED
    BY <1>1, <2>1, <2>2 DEF FanObeysLastCommand
<1>3. CASE m.target # TARGET_FAN
  <2>1. lastFan' = lastFan
    BY <1>3 DEF Enqueue
  <2>2. CASE \E i \in 1 .. Len(queue) : LastFanQueued(i)
    <3>1. PICK i \in 1 .. Len(queue) : LastFanQueued(i)
      BY <2>2
    <3>2. LastFanQueued(i)'
      BY <1>1, <1>3, <2>1, <3>1 DEF LastFanQueued
    <3>3. QED
      BY <1>1, <3>1, <3>2 DEF FanObeysLastCommand
  <2>3. CASE ~ \E i \in 1 .. Len(queue) : LastFanQueued(i)
    <3>1. \A j \in 1 .. Len(queue') : queue'[j].target # TARGET_FAN
      BY <1>1, <1>3, <2>3 DEF FanObeysLastCommand
    <3>2. QED
      BY <2>1, <2>3, <3>1 DEF FanObeysLastCommand
  <2>4. QED
    BY <2>2, <2>3
<1>4. QED
  BY <1>2, <1>3

(* Applying the head of the queue keeps the fan obedient: when the head is  *)
(* the newest FAN command, the fan now does what it asks for.              *)
LEMMA ApplyObey ==
  ASSUME TypeOK, FanObeysLastCommand, applay_task
  PROVE  FanObeysLastCommand'
<1>1. /\ queue' \in Seq(Msgs) /\ Len(queue') = Len(queue) - 1
      /\ \A j \in 1 .. Len(queue') : queue'[j] = queue[j + 1]
      /\ Len(queue) \in Nat /\ Len(queue) >= 1
      /\ Head(queue) = queue[1] /\ Head(queue) \in Msgs
  BY DEF TypeOK, applay_task
<1>2. lastFan' = lastFan
  BY DEF applay_task
<1>3. ASSUME Head(queue).target # TARGET_FAN PROVE fan' = fan
  BY <1>3 DEF applay_task, ApplyFan, ApplyHeat, ApplyHumid
<1>4. ASSUME Head(queue).target = TARGET_FAN
      PROVE  fan' = [pwm |-> FanPwm(Head(queue)), light |-> FanPct(Head(queue)) # 0]
  <2>1. ApplyFan(Head(queue))
    BY <1>4 DEF applay_task, ApplyHeat, ApplyHumid, TARGET_FAN, TARGET_HEAT, TARGET_HUMID
  <2>2. FanAccepts(Head(queue)) /\ FanPwm(Head(queue)) \in 0 .. 300
    BY <1>1, <1>4, FanCommandFacts
  <2>3. QED
    BY <2>1, <2>2 DEF ApplyFan, fan_apply, motor_set_speed
<1>5. CASE \E i \in 1 .. Len(queue) : LastFanQueued(i)
  <2>1. PICK i \in 1 .. Len(queue) : LastFanQueued(i)
    BY <1>5
  <2>2. CASE i = 1
    <3>1. \A j \in 1 .. Len(queue') : queue'[j].target # TARGET_FAN
      BY <1>1, <2>1, <2>2 DEF LastFanQueued
    <3>2. fan' = [pwm |-> FanPwm(lastFan'), light |-> FanPct(lastFan') # 0]
      BY <1>1, <1>2, <1>4, <2>1, <2>2 DEF LastFanQueued
    <3>3. QED
      BY <3>1, <3>2 DEF FanObeysLastCommand
  <2>3. CASE i # 1
    <3>1. i - 1 \in 1 .. Len(queue')
      BY <1>1, <2>3
    <3>2. LastFanQueued(i - 1)'
      BY <1>1, <1>2, <2>1, <2>3, <3>1 DEF LastFanQueued
    <3>3. QED
      BY <3>1, <3>2 DEF FanObeysLastCommand
  <2>4. QED
    BY <2>2, <2>3
<1>6. CASE ~ \E i \in 1 .. Len(queue) : LastFanQueued(i)
  <2>1. \A j \in 1 .. Len(queue) : queue[j].target # TARGET_FAN
    BY <1>6 DEF FanObeysLastCommand
  <2>2. \A j \in 1 .. Len(queue') : queue'[j].target # TARGET_FAN
    BY <1>1, <2>1
  <2>3. fan' = fan
    BY <1>1, <1>3, <2>1
  <2>4. QED
    BY <1>2, <1>6, <2>2, <2>3 DEF FanObeysLastCommand
<1>7. QED
  BY <1>5, <1>6

(* No accepted FAN command is lost, duplicated or overtaken between          *)
(* xQueueSend and motor_set_speed, for every queue length and command set. *)
THEOREM FanObeys == Spec => []FanObeysLastCommand
<1>1. Init => FanObeysLastCommand
  BY DEF Init, FanObeysLastCommand
<1>2. TypeOK /\ FanObeysLastCommand /\ [Next]_vars => FanObeysLastCommand'
  <2> SUFFICES ASSUME TypeOK, FanObeysLastCommand, [Next]_vars
               PROVE  FanObeysLastCommand'
    OBVIOUS
  <2>1. ASSUME NEW r \in Remotes, RemoteCommand(r) \/ RemoteTimeout(r)
        PROVE  FanObeysLastCommand'
    BY <2>1, ObeyUnchanged DEF RemoteCommand, RemoteTimeout, actuatorVars
  <2>2. ASSUME NEW r \in Remotes, RemoteSend(r) PROVE FanObeysLastCommand'
    <3>1. pending[r] \in Msgs
      BY <2>2 DEF TypeOK, RemoteSend, Msgs
    <3>2. QED
      BY <2>2, <3>1, EnqueueObey DEF RemoteSend, actuatorVars
  <2>3. CASE GuiCommand
    <3>1. PICK p \in GuiPcts : Enqueue(Msg(TARGET_FAN, p, SOURCE_GUI))
      BY <2>3 DEF GuiCommand
    <3>2. Msg(TARGET_FAN, p, SOURCE_GUI) \in Msgs
      BY DEF Msgs, GuiMsgs
    <3>3. QED
      BY <2>3, <3>1, <3>2, EnqueueObey DEF GuiCommand, actuatorVars
  <2>4. CASE applay_task
    BY <2>4, ApplyObey
  <2>5. CASE SensorSend
    <3>1. Msg(TARGET_FAN, auto_cmd, SOURCE_AUTO) \in Msgs
      BY <2>5 DEF TypeOK, SensorSend, Msgs, AutoMsgs
    <3>2. QED
      BY <2>5, <3>1, EnqueueObey, ObeyUnchanged DEF SensorSend, actuatorVars
  <2>6. CASE SensorDecide \/ SensorCheck \/ SensorExpire \/ SensorRelease \/ SensorSleep
    BY <2>6, ObeyUnchanged DEF SensorDecide, SensorCheck, SensorExpire, SensorRelease,
                               SensorSleep, actuatorVars
  <2>7. CASE UNCHANGED vars
    BY <2>7, ObeyUnchanged DEF vars, actuatorVars
  <2>8. QED
    BY <2>1, <2>2, <2>3, <2>4, <2>5, <2>6, <2>7 DEF Next, sensor_data_get_task
<1>3. QED
  BY <1>1, <1>2, TypeCorrect, PTL DEF Spec

-----------------------------------------------------------------------------
(* A step that leaves the sensor task, the mode and the history age alone   *)
(* preserves the timer invariant.                                          *)
LEMMA TimerUnchanged ==
  ASSUME ManualTimer, UNCHANGED <<mode_control, sensorVars, age>>
  PROVE  ManualTimer'
  BY DEF ManualTimer, Elapsed, sensorVars

(* The timer invariant is inductive.                                       *)
LEMMA TimerStep == TypeOK /\ ManualTimer /\ [Next]_vars => ManualTimer'
<1> SUFFICES ASSUME TypeOK, ManualTimer, [Next]_vars PROVE ManualTimer'
  OBVIOUS
<1>1. ASSUME NEW r \in Remotes, RemoteCommand(r) \/ RemoteSend(r) \/ RemoteTimeout(r)
      PROVE  ManualTimer'
  BY <1>1, TimerUnchanged DEF RemoteCommand, RemoteSend, RemoteTimeout
<1>2. CASE GuiCommand
  BY <1>2, TimerUnchanged DEF GuiCommand
<1>3. CASE applay_task
  <2>1. CASE ApplyFan(Head(queue))
    BY <1>3, <2>1, ArbitrationAssumption
       DEF TypeOK, ManualTimer, applay_task, ApplyFan, Elapsed, sensorVars
  <2>2. CASE ApplyHeat(Head(queue))
    BY <1>3, <2>2, TimerUnchanged DEF applay_task, ApplyHeat
  <2>3. CASE ApplyHumid(Head(queue))
    BY <1>3, <2>3, TimerUnchanged DEF applay_task, ApplyHumid
  <2>4. QED
    BY <1>3, <2>1, <2>2, <2>3 DEF applay_task
<1>4. CASE SensorDecide
  BY <1>4 DEF TypeOK, ManualTimer, SensorDecide, Elapsed
<1>5. CASE SensorCheck
  BY <1>5 DEF TypeOK, ManualTimer, SensorCheck, Elapsed
<1>6. CASE SensorSend
  BY <1>6 DEF TypeOK, ManualTimer, SensorSend, Elapsed
<1>7. CASE SensorExpire
  BY <1>7, ArbitrationAssumption DEF TypeOK, ManualTimer, SensorExpire, Elapsed
<1>8. CASE SensorRelease
  BY <1>8 DEF TypeOK, ManualTimer, SensorRelease, Elapsed
<1>9. CASE SensorSleep
  <2>1. PICK d \in 1 .. MaxStall :
          /\ tick' = TickAfter(d)
          /\ age' = IF mode_control = 1 THEN Older(age, d) ELSE age
    BY <1>9 DEF SensorSleep
  <2>2. prev_mode = 1 => Elapsed(tick', enter_tick) = Elapsed(tick, enter_tick) + d
    BY <1>9, <2>1, ArbitrationAssumption
       DEF TypeOK, ManualTimer, SensorSleep, TickAfter, Elapsed
  <2>3. prev_mode = 1 => Elapsed(tick, enter_tick) \in Nat
    BY ArbitrationAssumption DEF TypeOK, Elapsed
  <2>4. mode_control = 1 => Older(age, d) = age + d
    BY <1>9, <2>3, ArbitrationAssumption
       DEF TypeOK, ManualTimer, SensorSleep, Older, AgeCap
  <2>5. QED
    BY <1>9, <2>1, <2>2, <2>3, <2>4, ArbitrationAssumption
       DEF TypeOK, ManualTimer, SensorSleep
<1>10. CASE UNCHANGED vars
  BY <1>10, TimerUnchanged DEF vars
<1>11. QED
  BY <1>1, <1>2, <1>3, <1>4, <1>5, <1>6, <1>7, <1>8, <1>9, <1>10
     DEF Next, sensor_data_get_task

(* The age of manual mode and the sensor task's static variables stay       *)
(* related, across the wrap of the tick counter (task_sensor.c, the         *)
(* manual timeout).                                                         *)
THEOREM TimerInvariant == Spec => [](TypeOK /\ ManualTimer)
<1>1. Init => ManualTimer
  BY ArbitrationAssumption DEF Init, ManualTimer
<1>2. QED
  BY <1>1, TypeCorrect, TimerStep, PTL DEF Spec

(* Manual mode never outlasts the timeout by more than two sensor loops,    *)
(* for every timeout, stall bound and tick range.                          *)
THEOREM ManualBounded == Spec => []ManualModeBounded
<1>1. TypeOK /\ ManualTimer => ManualModeBounded
  BY ArbitrationAssumption DEF TypeOK, ManualTimer, ManualModeBounded, Elapsed
<1>2. QED
  BY <1>1, TimerInvariant, PTL

(* Manual mode is never cut short: every release follows a full timeout.   *)
THEOREM ManualLasts == Spec => ManualModeLasts
<1>1. TypeOK /\ ManualTimer /\ [Next]_vars
        => [mode_control = 1 /\ mode_control' = 0 => age >= Timeout]_vars
  <2> SUFFICES ASSUME TypeOK, ManualTimer, Next, mode_control = 1, mode_control' = 0
               PROVE  age >= Timeout
    BY DEF vars
  <2>1. SensorRelease
    BY DEF Next, RemoteCommand, RemoteSend, RemoteTimeout, GuiCommand, applay_task,
           ApplyFan, ApplyHeat, ApplyHumid, sensor_data_get_task, SensorDecide,
           SensorCheck, SensorSend, SensorExpire, SensorSleep
  <2>2. QED
    BY <2>1, ArbitrationAssumption DEF TypeOK, ManualTimer, SensorRelease, Elapsed
<1>2. QED
  BY <1>1, TimerInvariant, PTL DEF Spec, ManualModeLasts

=============================================================================
