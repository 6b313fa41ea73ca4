---------------------------- MODULE GuiFanPanel ----------------------------
(***************************************************************************)
(* The fan panel of the screen (my_gui.c): a switch, a slider and the      *)
(* alert link, which opens the fan when an average is above the alert      *)
(* limits and closes it when the alert ends.  The panel commands the fan   *)
(* through ActuatorCmdQueue, as the other sources do, and shares the       *)
(* display variables fan_running and fan_speed with applay_task.           *)
(*                                                                         *)
(* applay_task (priority 6) preempts my_gui_task (priority 4) anywhere, so *)
(* a handler is two steps: it changes widgets and display variables, then  *)
(* it sends (GuiSend).  Handlers do not interleave with each other: they   *)
(* all run in my_gui_task.                                                 *)
(***************************************************************************)
EXTENDS Applay, Sequences

CONSTANTS
  QueueLen,   \* length of ActuatorCmdQueue (10)
  Others,     \* FAN commands of the sensor task, lora_task and mqtt_task
  Positions   \* slider positions in use

VARIABLES
  queue,          \* ActuatorCmdQueue
  fan,            \* pwm, light and the display variables running, speed
  checked,        \* the switch
  slider,         \* its value
  enabled,        \* it is not disabled
  alert_auto_on,
  out,            \* the command a handler is about to send
  alerting,       \* history: the last average was an alert
  userOn,         \* history: the user's last use of the switch was ON
  userActed,      \* history: it was used since the last average
  synced          \* history: fan_apply took a FAN command, none dropped since

widgets == <<checked, slider, enabled, alert_auto_on>>
history == <<alerting, userOn, userActed, synced>>
vars == <<queue, fan, widgets, out, history>>

(* What a handler is about to send: nothing, a value, or, for the alert     *)
(* link, whatever fan_speed holds when the message is filled in.           *)
Nothing == [kind |-> "nothing", value |-> 0]
Value(v) == [kind |-> "value", value |-> v]
FanSpeed == [kind |-> "fan_speed", value |-> 0]

Init ==
  /\ queue = << >>
  /\ fan = [pwm |-> BootPwm, light |-> FALSE, running |-> FALSE, speed |-> 50]
  /\ checked = FALSE /\ slider = 50 /\ enabled = FALSE
  /\ alert_auto_on = FALSE
  /\ out = Nothing
  /\ alerting = FALSE /\ userOn = FALSE /\ userActed = FALSE /\ synced = FALSE

-----------------------------------------------------------------------------
(* fan_switch_event_cb; LVGL has toggled the switch before the callback.   *)
SwitchOn ==
  /\ out = Nothing /\ ~checked
  /\ checked' = TRUE /\ enabled' = TRUE /\ alert_auto_on' = FALSE
  /\ fan' = [fan EXCEPT !.running = TRUE]
  /\ out' = Value(slider)
  /\ userOn' = TRUE /\ userActed' = TRUE
  /\ UNCHANGED <<queue, slider, alerting, synced>>

(* Mutant: the display variables are set and no command is sent.           *)
SwitchOff_NoSend ==
  /\ out = Nothing /\ checked
  /\ checked' = FALSE /\ enabled' = FALSE /\ alert_auto_on' = FALSE
  /\ slider' = 0
  /\ fan' = [fan EXCEPT !.running = FALSE, !.speed = 0]
  /\ userOn' = FALSE /\ userActed' = TRUE
  /\ UNCHANGED <<queue, out, alerting, synced>>

SwitchOff ==
  /\ out = Nothing /\ checked
  /\ checked' = FALSE /\ enabled' = FALSE /\ alert_auto_on' = FALSE
  /\ slider' = 0
  /\ fan' = [fan EXCEPT !.running = FALSE, !.speed = 0]
  /\ out' = Value(APPLAY_VAL_OFF)
  /\ userOn' = FALSE /\ userActed' = TRUE
  /\ UNCHANGED <<queue, alerting, synced>>

(* fan_slider_event_cb; a disabled slider does not move.                   *)
SliderMove ==
  /\ out = Nothing /\ enabled
  /\ \E p \in Positions : /\ slider' = p
                          /\ fan' = [fan EXCEPT !.speed = p]
                          /\ out' = Value(p)
  /\ UNCHANGED <<queue, checked, enabled, alert_auto_on, history>>

-----------------------------------------------------------------------------
(* update_sensor_display with a new average.                               *)
AlertStarts ==
  /\ out = Nothing /\ ~alert_auto_on
  /\ alert_auto_on' = TRUE /\ checked' = TRUE /\ enabled' = TRUE
  /\ slider' = IF slider < 80 THEN 80 ELSE slider
  /\ fan' = [fan EXCEPT !.running = TRUE, !.speed = slider']
  /\ out' = FanSpeed
  /\ alerting' = TRUE /\ userActed' = FALSE
  /\ UNCHANGED <<queue, userOn, synced>>

AlertGoesOn ==
  /\ out = Nothing /\ alert_auto_on
  /\ alerting' = TRUE /\ userActed' = FALSE
  /\ UNCHANGED <<queue, fan, widgets, out, userOn, synced>>

(* Mutant: alert_auto_on is not cleared.                                   *)
AlertEnds_KeepFlag ==
  /\ out = Nothing /\ alert_auto_on
  /\ checked' = FALSE /\ enabled' = FALSE
  /\ slider' = 0
  /\ fan' = [fan EXCEPT !.running = FALSE, !.speed = 0]
  /\ out' = Value(APPLAY_VAL_OFF)
  /\ alerting' = FALSE /\ userActed' = FALSE
  /\ UNCHANGED <<queue, alert_auto_on, userOn, synced>>

AlertEnds ==
  /\ out = Nothing /\ alert_auto_on
  /\ alert_auto_on' = FALSE /\ checked' = FALSE /\ enabled' = FALSE
  /\ slider' = 0
  /\ fan' = [fan EXCEPT !.running = FALSE, !.speed = 0]
  /\ out' = Value(APPLAY_VAL_OFF)
  /\ alerting' = FALSE /\ userActed' = FALSE
  /\ UNCHANGED <<queue, userOn, synced>>

AllNormal ==
  /\ out = Nothing /\ ~alert_auto_on
  /\ alerting' = FALSE /\ userActed' = FALSE
  /\ UNCHANGED <<queue, fan, widgets, out, userOn, synced>>

update_sensor_display == AlertStarts \/ AlertGoesOn \/ AlertEnds \/ AllNormal

(* Mutant: a full queue is not noticed.                                    *)
GuiSend_NoRoom ==
  /\ out # Nothing
  /\ LET value == IF out = FanSpeed THEN fan.speed ELSE out.value
     IN  queue' = Append(queue, Msg(TARGET_FAN, value, SOURCE_GUI))
  /\ out' = Nothing
  /\ UNCHANGED <<fan, widgets, history>>

(* The message is filled in and sent with timeout 0: lost on a full queue.  *)
GuiSend ==
  /\ out # Nothing
  /\ LET value == IF out = FanSpeed THEN fan.speed ELSE out.value
     IN  \/ /\ Len(queue) < QueueLen
            /\ queue' = Append(queue, Msg(TARGET_FAN, value, SOURCE_GUI))
            /\ UNCHANGED synced
         \/ /\ Len(queue) = QueueLen
            /\ synced' = FALSE
            /\ UNCHANGED queue
  /\ out' = Nothing
  /\ UNCHANGED <<fan, widgets, alerting, userOn, userActed>>

my_gui_task == \/ SwitchOn \/ SwitchOff \/ SliderMove
               \/ update_sensor_display \/ GuiSend

-----------------------------------------------------------------------------
OtherSource ==
  /\ Len(queue) < QueueLen
  /\ \E m \in Others : queue' = Append(queue, m)
  /\ UNCHANGED <<fan, widgets, out, history>>

applay_task ==
  /\ queue # << >>
  /\ fan' = fan_apply(Head(queue), fan)
  /\ queue' = Tail(queue)
  /\ synced' = (synced \/ FanAccepts(Head(queue)))
  /\ UNCHANGED <<widgets, out, alerting, userOn, userActed>>

Next == my_gui_task \/ OtherSource \/ applay_task

Spec == Init /\ [][Next]_vars
-----------------------------------------------------------------------------
TypeOK ==
  /\ queue \in Seq(Others \cup {Msg(TARGET_FAN, p, SOURCE_GUI) : p \in 0 .. 100})
  /\ Len(queue) <= QueueLen
  /\ fan \in [pwm : 0 .. 300, light : BOOLEAN, running : BOOLEAN, speed : 0 .. 100]
  /\ {checked, enabled, alert_auto_on} \subseteq BOOLEAN /\ slider \in 0 .. 100
  /\ {alerting, userOn, userActed, synced} \subseteq BOOLEAN
  /\ out \in [kind : {"nothing", "value", "fan_speed"}, value : 0 .. 100]

(* The display variables tell the truth once nothing is under way: two      *)
(* tasks write them, in any order, yet with an empty queue, no handler     *)
(* running and no command dropped they agree with the motor and the light  *)
(* (33 and 66 percent stand for 100 and 200 of 300).                       *)
DisplayAgrees ==
  synced /\ queue = << >> /\ out = Nothing =>
    /\ fan.pwm \in 3 * fan.speed .. 3 * fan.speed + 2
    /\ fan.running = (fan.pwm # 0) /\ fan.light = fan.running

(* The alert link is neither left behind nor forgotten: alert_auto_on is    *)
(* set only while the last average was an alert and the switch shows ON,   *)
(* and in an alert only the user's own use of the switch clears it.        *)
AlertLinkCurrent ==
  /\ alert_auto_on => alerting /\ checked /\ enabled
  /\ alerting => alert_auto_on \/ userActed

(* my_gui.c says that the end of an alert closes what the alert opened and  *)
(* keeps what the user opened: the switch never goes off on a user whose   *)
(* last word was ON.                                                       *)
UserFanSurvivesAlert == [][checked /\ ~checked' => ~userOn']_vars
=============================================================================
