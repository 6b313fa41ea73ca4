---------------------------- MODULE FanArbitration ----------------------------
(***************************************************************************)
(* Who controls the fan: the automatic decision of sensor_data_get_task,   *)
(* the manual sources (GUI, LoRa, MQTT) and applay_task, which share       *)
(* ActuatorCmdQueue and mode_control.                                      *)
(*                                                                         *)
(* Interleaving follows the task priorities: lora_task 7, applay_task 6,   *)
(* mqtt_task 5, my_gui_task 4, sensor_data_get_task 3.  The sensor task    *)
(* can be preempted between any two accesses to shared state, so its loop  *)
(* is cut there (variable spc).  applay_task is preempted by lora_task     *)
(* only, which touches the queue and nothing applay_task writes, so one    *)
(* receive and its dispatch are one step.                                  *)
(***************************************************************************)
EXTENDS Applay, SensorRead, Integers, Sequences

CONSTANTS
  QueueLen,     \* length of ActuatorCmdQueue (10 in task_start.c)
  Remotes,      \* remote sources in use, a subset of {LORA, NETWORK}
  RemoteCmds,   \* commands their frames carry, pairs <<target, value>>
  GuiPcts,      \* slider positions in use, a subset of 0..100
  Readings,     \* rounds of raw sensor readings that can occur
  Timeout,      \* MODE_TIMEOUT_MS in sensor periods
  MaxStall,     \* longest sensor loop in periods: the AT driver of mqtt_task
                \* busy-waits (delay_ms) at a higher priority
  TickMod       \* number of values of the tick counter before it wraps

ASSUME ArbitrationAssumption ==
  /\ QueueLen \in Nat \ {0}
  /\ Remotes \subseteq {SOURCE_LORA, SOURCE_NETWORK}
  /\ RemoteCmds \subseteq ({TARGET_FAN} \X FanLevels)
                          \cup ({TARGET_HEAT, TARGET_HUMID} \X {0, 1})
  /\ GuiPcts \subseteq 0 .. 100
  /\ Timeout \in Nat \ {0}
  /\ MaxStall \in Nat \ {0}
  /\ TickMod \in Nat
  /\ Timeout + MaxStall <= TickMod

VARIABLES
  queue,         \* ActuatorCmdQueue
  pending,       \* per remote task: the command blocked in xQueueSend
  fan,           \* [pwm, light]: motor compare value and fan light
  heat, humid,   \* heater and humidifier channels
  mode_control,  \* 1 = manual, 0 = automatic
  spc,           \* where sensor_data_get_task is
  auto_cmd,      \* its decision of this loop
  last_auto_cmd, \* its decision of the previous loop, -1 at boot
  prev_mode,     \* static prev_mode_control
  enter_tick,    \* static manual_enter_tick
  tick,          \* xTaskGetTickCount() in sensor periods
  lastFan,       \* history: last FAN command accepted by the queue
  age            \* history: sensor periods since mode_control became 1

sensorVars == <<spc, auto_cmd, last_auto_cmd, prev_mode, enter_tick, tick>>
actuatorVars == <<fan, heat, humid>>
vars == <<queue, pending, actuatorVars, mode_control, sensorVars, lastFan, age>>

(* The levels the sensor decision can produce.                             *)
AutoCmds == {AutoCmd(r) : r \in Readings}

None == [target |-> "NONE", value |-> 0, source |-> "NONE"]

RemoteMsgs == {Msg(c[1], c[2], r) : c \in RemoteCmds, r \in Remotes}
GuiMsgs    == {Msg(TARGET_FAN, p, SOURCE_GUI) : p \in GuiPcts}
AutoMsgs   == {Msg(TARGET_FAN, l, SOURCE_AUTO) : l \in AutoCmds}
Msgs       == RemoteMsgs \cup GuiMsgs \cup AutoMsgs

(* TickType_t arithmetic is unsigned: addition wraps, and a difference     *)
(* survives one wrap.                                                      *)
TickAfter(d) == IF tick + d < TickMod THEN tick + d ELSE tick + d - TickMod
Elapsed(now, then) == IF now >= then THEN now - then ELSE now - then + TickMod

(* History: age stops at AgeCap, one beyond what ManualModeBounded allows.   *)
AgeCap == Timeout + 2 * MaxStall
Older(a, d) == IF a + d <= AgeCap THEN a + d ELSE AgeCap

-----------------------------------------------------------------------------
Init ==
  /\ queue = << >>
  /\ pending = [r \in Remotes |-> None]
  /\ fan = [pwm |-> BootPwm, light |-> FALSE]
  /\ heat = FALSE /\ humid = FALSE
  /\ mode_control = 0
  /\ spc = "decide"
  /\ auto_cmd = 0 /\ last_auto_cmd = -1
  /\ prev_mode = 0 /\ enter_tick = 0
  /\ tick = 0
  /\ lastFan = None
  /\ age = 0

(* Mutant: the queue takes one message too many.                           *)
Enqueue_OneMore(m) ==
  /\ Len(queue) <= QueueLen
  /\ queue' = Append(queue, m)
  /\ lastFan' = IF m.target = TARGET_FAN THEN m ELSE lastFan

(* xQueueSend once there is room.                                          *)
Enqueue(m) ==
  /\ Len(queue) < QueueLen
  /\ queue' = Append(queue, m)
  /\ lastFan' = IF m.target = TARGET_FAN THEN m ELSE lastFan

-----------------------------------------------------------------------------
(* lora_task and mqtt_on_message turn a frame or a JSON text into a command *)
(* and call xQueueSend with a 100 ms timeout: the task blocks while the    *)
(* queue is full, then sends, or gives up and drops the command.           *)
RemoteCommand(r) ==
  /\ pending[r] = None
  /\ \E c \in RemoteCmds : pending' = [pending EXCEPT ![r] = Msg(c[1], c[2], r)]
  /\ UNCHANGED <<queue, actuatorVars, mode_control, sensorVars, lastFan, age>>

RemoteSend(r) ==
  /\ pending[r] # None
  /\ Enqueue(pending[r])
  /\ pending' = [pending EXCEPT ![r] = None]
  /\ UNCHANGED <<actuatorVars, mode_control, sensorVars, age>>

RemoteTimeout(r) ==
  /\ pending[r] # None
  /\ Len(queue) = QueueLen
  /\ pending' = [pending EXCEPT ![r] = None]
  /\ UNCHANGED <<queue, actuatorVars, mode_control, sensorVars, lastFan, age>>

(* A GUI callback sends with timeout 0; on a full queue the command is lost *)
(* and nothing here changes.                                               *)
GuiCommand ==
  /\ \E p \in GuiPcts : Enqueue(Msg(TARGET_FAN, p, SOURCE_GUI))
  /\ UNCHANGED <<pending, actuatorVars, mode_control, sensorVars, age>>

-----------------------------------------------------------------------------
(* applay_task: xQueueReceive, then applay_dispatch by target.             *)
ApplyFan(m) ==
  /\ m.target = TARGET_FAN
  /\ LET new == fan_apply(m, [pwm |-> fan.pwm, light |-> fan.light,
                              running |-> FALSE, speed |-> 0])
     IN fan' = [pwm |-> new.pwm, light |-> new.light]
  /\ mode_control' = IF TakesManual(m) THEN 1 ELSE mode_control
  /\ age' = IF TakesManual(m) /\ mode_control = 0 THEN 0 ELSE age
  /\ UNCHANGED <<heat, humid>>

ApplyHeat(m) ==
  /\ m.target = TARGET_HEAT
  /\ heat' = switch_apply(m)
  /\ UNCHANGED <<fan, humid, mode_control, age>>

ApplyHumid(m) ==
  /\ m.target = TARGET_HUMID
  /\ humid' = switch_apply(m)
  /\ UNCHANGED <<fan, heat, mode_control, age>>

applay_task ==
  /\ queue # << >>
  /\ queue' = Tail(queue)
  /\ \/ ApplyFan(Head(queue))
     \/ ApplyHeat(Head(queue))
     \/ ApplyHumid(Head(queue))
  /\ UNCHANGED <<pending, sensorVars, lastFan>>

-----------------------------------------------------------------------------
(* One loop of sensor_data_get_task, cut at its accesses to shared state.  *)

(* Read the sensors and decide on a level; nothing is sent when it is the  *)
(* level of the previous loop.                                             *)
SensorDecide ==
  /\ spc = "decide"
  /\ \E c \in AutoCmds :
       /\ auto_cmd' = c
       /\ spc' = IF c # last_auto_cmd THEN "check" ELSE "expire"
  /\ UNCHANGED <<queue, pending, actuatorVars, mode_control, last_auto_cmd,
                 prev_mode, enter_tick, tick, lastFan, age>>

(* `if (mode_control == 0)'; in manual mode only last_auto_cmd is updated. *)
SensorCheck ==
  /\ spc = "check"
  /\ IF mode_control = 0
       THEN spc' = "send" /\ UNCHANGED last_auto_cmd
       ELSE spc' = "expire" /\ last_auto_cmd' = auto_cmd
  /\ UNCHANGED <<queue, pending, actuatorVars, mode_control, auto_cmd,
                 prev_mode, enter_tick, tick, lastFan, age>>

(* xQueueSend with timeout 0; last_auto_cmd is updated even on a drop.     *)
SensorSend ==
  /\ spc = "send"
  /\ \/ Enqueue(Msg(TARGET_FAN, auto_cmd, SOURCE_AUTO))
     \/ Len(queue) = QueueLen /\ UNCHANGED <<queue, lastFan>>
  /\ last_auto_cmd' = auto_cmd
  /\ spc' = "expire"
  /\ UNCHANGED <<pending, actuatorVars, mode_control, auto_cmd,
                 prev_mode, enter_tick, tick, age>>

(* Mutant: the entry time is taken in every loop.                          *)
SensorExpire_AlwaysReenter ==
  /\ spc = "expire"
  /\ IF mode_control = 1
       THEN /\ enter_tick' = tick
            /\ prev_mode' = 1
            /\ spc' = IF Elapsed(tick, enter_tick') >= Timeout
                        THEN "release" ELSE "sleep"
       ELSE spc' = "sleep" /\ UNCHANGED <<enter_tick, prev_mode>>
  /\ UNCHANGED <<queue, pending, actuatorVars, mode_control, auto_cmd,
                 last_auto_cmd, tick, lastFan, age>>

(* Manual mode timeout: the entry time is taken when manual mode is first  *)
(* seen, and the verdict is computed before mode_control is written.       *)
SensorExpire ==
  /\ spc = "expire"
  /\ IF mode_control = 1
       THEN /\ enter_tick' = IF prev_mode = 0 THEN tick ELSE enter_tick
            /\ prev_mode' = 1
            /\ spc' = IF Elapsed(tick, enter_tick') >= Timeout
                        THEN "release" ELSE "sleep"
       ELSE spc' = "sleep" /\ UNCHANGED <<enter_tick, prev_mode>>
  /\ UNCHANGED <<queue, pending, actuatorVars, mode_control, auto_cmd,
                 last_auto_cmd, tick, lastFan, age>>

(* Mutant: prev_mode_control is not reset on release.                      *)
SensorRelease_KeepPrev ==
  /\ spc = "release"
  /\ mode_control' = 0
  /\ spc' = "sleep"
  /\ UNCHANGED <<queue, pending, actuatorVars, auto_cmd, last_auto_cmd,
                 prev_mode, enter_tick, tick, lastFan, age>>

(* The timeout has been found to be over: back to automatic mode.          *)
SensorRelease ==
  /\ spc = "release"
  /\ mode_control' = 0
  /\ prev_mode' = 0
  /\ spc' = "sleep"
  /\ UNCHANGED <<queue, pending, actuatorVars, auto_cmd, last_auto_cmd,
                 enter_tick, tick, lastFan, age>>

(* vTaskDelay(500), and the time higher priorities kept the processor.     *)
SensorSleep ==
  /\ spc = "sleep"
  /\ \E d \in 1 .. MaxStall :
       /\ tick' = TickAfter(d)
       /\ age' = IF mode_control = 1 THEN Older(age, d) ELSE age
  /\ spc' = "decide"
  /\ UNCHANGED <<queue, pending, actuatorVars, mode_control, auto_cmd,
                 last_auto_cmd, prev_mode, enter_tick, lastFan>>

sensor_data_get_task ==
  \/ SensorDecide \/ SensorCheck \/ SensorSend
  \/ SensorExpire \/ SensorRelease \/ SensorSleep

-----------------------------------------------------------------------------
Next ==
  \/ \E r \in Remotes : RemoteCommand(r) \/ RemoteSend(r) \/ RemoteTimeout(r)
  \/ GuiCommand
  \/ applay_task
  \/ sensor_data_get_task

Spec == Init /\ [][Next]_vars

(* FreeRTOS runs a ready task once the higher priorities sleep, and every   *)
(* one of them ends its loop in vTaskDelay: each task is weakly fair.      *)
Fairness ==
  /\ WF_vars(applay_task)
  /\ WF_vars(sensor_data_get_task)

FairSpec == Spec /\ Fairness
-----------------------------------------------------------------------------
TypeOK ==
  /\ queue \in Seq(Msgs) /\ Len(queue) <= QueueLen
  /\ pending \in [Remotes -> RemoteMsgs \cup {None}]
  /\ fan \in [pwm : 0 .. 300, light : BOOLEAN]
  /\ heat \in BOOLEAN /\ humid \in BOOLEAN
  /\ mode_control \in {0, 1}
  /\ spc \in {"decide", "check", "send", "expire", "release", "sleep"}
  /\ auto_cmd \in AutoCmds \cup {0} /\ last_auto_cmd \in AutoCmds \cup {-1}
  /\ spc \in {"check", "send"} => auto_cmd \in AutoCmds
  /\ prev_mode \in {0, 1} /\ enter_tick \in 0 .. TickMod - 1
  /\ tick \in 0 .. TickMod - 1
  /\ lastFan \in Msgs \cup {None}
  /\ age \in Nat

(* The fan obeys the last FAN command the queue accepted, whoever sent it:  *)
(* either that command is still queued with no FAN command behind it, or   *)
(* no FAN command is queued and motor and light are what it asked for.  No *)
(* accepted command is lost, duplicated or overtaken on its way from       *)
(* xQueueSend to motor_set_speed.                                          *)
LastFanQueued(i) ==
  /\ queue[i] = lastFan
  /\ queue[i].target = TARGET_FAN
  /\ \A j \in 1 .. Len(queue) : j > i => queue[j].target # TARGET_FAN

FanObeysLastCommand ==
  \/ \E i \in 1 .. Len(queue) : LastFanQueued(i)
  \/ /\ \A j \in 1 .. Len(queue) : queue[j].target # TARGET_FAN
     /\ lastFan # None =>
          fan = [pwm |-> FanPwm(lastFan), light |-> FanPct(lastFan) # 0]

(* Manual mode ends: mode_control is never 1 for longer than the timeout   *)
(* plus the two sensor loops needed to notice it, across tick wrap-around. *)
ManualModeBounded ==
  mode_control = 1 => age <= Timeout - 1 + 2 * MaxStall

(* Manual mode is not cut short: the sensor task hands the fan back to the  *)
(* automatic decision only after a full timeout of manual mode, whatever   *)
(* earlier manual episodes left in its static variables.                   *)
ManualModeLasts ==
  [][mode_control = 1 /\ mode_control' = 0 => age >= Timeout]_vars

(* The inductive form of the two bounds on manual mode: how the history     *)
(* variable age relates to the static variables of the sensor task.        *)
ManualTimer ==
  /\ prev_mode = 1 => mode_control = 1
  /\ spc = "release" => prev_mode = 1 /\ Elapsed(tick, enter_tick) >= Timeout
  /\ prev_mode = 1 =>
       /\ Elapsed(tick, enter_tick) <= age
       /\ age <= Elapsed(tick, enter_tick) + MaxStall
       /\ Elapsed(tick, enter_tick) <= Timeout - 1 + MaxStall
       /\ spc = "sleep" => Elapsed(tick, enter_tick) < Timeout
  /\ mode_control = 1 /\ prev_mode = 0 =>
       /\ age <= MaxStall
       /\ spc = "sleep" => age = 0

(* Every manual takeover is eventually handed back.                        *)
ManualModeEnds == mode_control = 1 ~> mode_control = 0

(* task_sensor.c promises that a manual timeout returns the fan to          *)
(* automatic control.  In automatic mode with a standing HI decision the   *)
(* fan must reach full speed, unless the decision or the mode changes.     *)
AlarmServedInAutoMode ==
  (mode_control = 0 /\ last_auto_cmd = APPLAY_VAL_HI)
    ~> \/ fan.pwm = LevelPwm[APPLAY_VAL_HI]
       \/ mode_control = 1
       \/ last_auto_cmd # APPLAY_VAL_HI
=============================================================================
