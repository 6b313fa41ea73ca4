------------------------------- MODULE Applay -------------------------------
(***************************************************************************)
(* The actuator driver layer (Drivers/BSP/APPLAY): the one message type    *)
(* every control source puts on ActuatorCmdQueue, and what fan_apply,      *)
(* heat_apply and humid_apply do with it.  Constant-level definitions      *)
(* shared by the state machines that contain the actuator task.            *)
(*                                                                         *)
(* FanMutex is not modelled: the only task that calls the three functions  *)
(* is applay_task, so the mutex is never contended.                        *)
(***************************************************************************)
EXTENDS Naturals

SOURCE_AUTO    == "AUTO"
SOURCE_LORA    == "LORA"
SOURCE_GUI     == "GUI"
SOURCE_NETWORK == "NETWORK"

TARGET_FAN   == "FAN"
TARGET_HEAT  == "HEAT"
TARGET_HUMID == "HUMID"

APPLAY_VAL_OFF == 0
APPLAY_VAL_ON  == 1
APPLAY_VAL_LOW == 1
APPLAY_VAL_MID == 2
APPLAY_VAL_HI  == 3

(* The levels every source but the GUI sends to the fan.                   *)
FanLevels == APPLAY_VAL_OFF .. APPLAY_VAL_HI

Msg(target, value, source) ==
  [target |-> target, value |-> value, source |-> source]

(* gtim_timx_pwm_chy_init(300 - 1, ...) starts the motor at half duty.     *)
BootPwm == (300 - 1) \div 2

(* Mutant: the range test excludes full duty.                              *)
motor_set_speed_NoFullDuty(old, a) == IF a \in 0 .. 299 THEN a ELSE old

(* motor_set_speed ignores a compare value outside 0..300.                 *)
motor_set_speed(old, a) == IF a \in 0 .. 300 THEN a ELSE old

(* The GUI sends a duty cycle in percent; it is cast to uint8_t and capped. *)
GuiPct(value) == LET b == value % 256 IN IF b <= 100 THEN b ELSE 100

LevelPwm == [l \in FanLevels |-> 100 * l]
LevelPct == [l \in FanLevels |-> IF l = APPLAY_VAL_HI THEN 100 ELSE 33 * l]

(* fan_apply's default case: an unknown level is ignored.                  *)
FanAccepts(m) == m.source = SOURCE_GUI \/ m.value \in FanLevels

FanPct(m) == IF m.source = SOURCE_GUI THEN GuiPct(m.value) ELSE LevelPct[m.value]
FanPwm(m) == IF m.source = SOURCE_GUI THEN 3 * GuiPct(m.value) ELSE LevelPwm[m.value]

(* The state fan_apply writes: the PWM compare register, the indicator     *)
(* light and the two display globals fan_running and fan_speed.            *)
fan_apply(m, fan) ==
  IF FanAccepts(m)
    THEN [pwm     |-> motor_set_speed(fan.pwm, FanPwm(m)),
          light   |-> FanPct(m) # 0,
          running |-> FanPct(m) # 0,
          speed   |-> FanPct(m)]
    ELSE fan

(* fan_apply sets mode_control to 1 for every source but SOURCE_AUTO.      *)
TakesManual(m) == m.target = TARGET_FAN /\ FanAccepts(m) /\ m.source # SOURCE_AUTO

(* heat_apply and humid_apply: 0 switches the channel off, anything else   *)
(* on; pin, running flag and light of a channel are one Boolean.           *)
switch_apply(m) == m.value # APPLAY_VAL_OFF
=============================================================================
