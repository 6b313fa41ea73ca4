----------------------------- MODULE GuiScreen ------------------------------
(***************************************************************************)
(* The whole screen: my_gui_task with its pages, its histories and its fan *)
(* panel, against applay_task and the other sources of commands.  A new    *)
(* average goes through all of it (apply_avg_to_gui): it enters the        *)
(* history, may start or end the alert link, and refreshes an open page.   *)
(***************************************************************************)
EXTENDS GuiPages

CONSTANTS QueueLen, Others, Positions

VARIABLES queue, fan, checked, slider, enabled, alert_auto_on, out,
          alerting, userOn, userActed, synced

Panel == INSTANCE GuiFanPanel

ASSUME PanelAssumption ==
  /\ QueueLen \in Nat \ {0}
  /\ \A m \in Others : m.target = Panel!TARGET_FAN /\ m.source # Panel!SOURCE_GUI
  /\ Positions \subseteq 0 .. 100

panelVars == <<queue, fan, checked, slider, enabled, alert_auto_on, out,
               alerting, userOn, userActed, synced>>
screenVars == <<historyVars, pageVars>>
vars == <<panelVars, screenVars>>

Init == Panel!Init /\ history_init /\ PagesInit

-----------------------------------------------------------------------------
(* The panel's widgets are on the home page, among its controls.           *)
PanelEvent ==
  /\ Visible("controls")
  /\ Panel!SwitchOn \/ Panel!SwitchOff \/ Panel!SliderMove
  /\ UNCHANGED screenVars

(* Mutant: an open detail page is refreshed from what was there before.     *)
apply_avg_to_gui_RefreshFirst ==
  /\ Panel!update_sensor_display
  /\ HistoryPush
  /\ IF Visible("detail")
     THEN /\ detail' = DetailOf(detail_channel)
          /\ hidden' = HistChartHidden(hidden, history.count)
     ELSE UNCHANGED <<hidden, detail>>
  /\ UNCHANGED <<chart_fullscreen, detail_channel>>

(* my_gui_pump_rx_queue with a new average, up to the alert link's send.    *)
apply_avg_to_gui ==
  /\ HistoryPush
  /\ Panel!update_sensor_display
  /\ RefreshDetail

TouchPage == out = Panel!Nothing /\ PageEvent /\ UNCHANGED <<panelVars, historyVars>>

PanelSends == Panel!GuiSend /\ UNCHANGED screenVars

my_gui_task == PanelEvent \/ apply_avg_to_gui \/ TouchPage \/ PanelSends

OtherTasks == (Panel!OtherSource \/ Panel!applay_task) /\ UNCHANGED screenVars

Next == my_gui_task \/ OtherTasks

Spec == Init /\ [][Next]_vars
-----------------------------------------------------------------------------
TypeOK ==
  /\ Panel!TypeOK
  /\ hidden \subseteq HomeParts \cup {"detail", "sys", "hist_chart"}
  /\ chart_fullscreen \in BOOLEAN /\ detail_channel \in Channels
  /\ sensor_data_count_min \in Nat /\ samples \in 0 .. MaxSamples
  /\ history.head \in 0 .. HISTORY_BUCKETS - 1 /\ history.count \in 0 .. HISTORY_BUCKETS
  /\ history_hour.head \in 0 .. HOUR_HISTORY - 1 /\ history_hour.count \in 0 .. HOUR_HISTORY

(* The panel keeps its promises (see GuiFanPanel) whatever page is shown    *)
(* when an average arrives.                                                *)
DisplayAgrees == Panel!DisplayAgrees
AlertLinkCurrent == Panel!AlertLinkCurrent
=============================================================================
