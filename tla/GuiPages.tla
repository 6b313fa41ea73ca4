------------------------------ MODULE GuiPages ------------------------------
(***************************************************************************)
(* The pages of the screen (my_gui.c): the home page, whose chart can fill *)
(* the whole page, the detail page of a channel and the system page.  A    *)
(* page is shown and left by setting and clearing HIDDEN flags, of a page  *)
(* and of everything on it.                                                *)
(*                                                                         *)
(* An event reaches a widget only while the widget and the page it is on   *)
(* are visible.                                                            *)
(***************************************************************************)
EXTENDS GuiHistory

CONSTANT CH_MAX     \* number of channels (4)

ASSUME ChannelAssumption == CH_MAX \in Nat \ {0}

Channels == 0 .. CH_MAX - 1

VARIABLES
  hidden,            \* the widgets whose HIDDEN flag is set
  chart_fullscreen,  \* the chart fills the home page
  detail_channel,    \* the channel of the detail page
  detail             \* what the detail page shows: channel, points and averages

pageVars == <<hidden, chart_fullscreen, detail_channel, detail>>

(* The widgets, as far as their flags differ: the parts of the home page    *)
(* (the controls are the labels, the fan's widgets and the bar with the    *)
(* channel buttons), and the chart on the detail page.                     *)
HomeParts == {"home", "frames", "controls", "chart"}
Pages == {"home", "detail", "sys"}
PageOf(w) == CASE w \in HomeParts -> "home"
               [] w \in {"detail", "hist_chart"} -> "detail"
               [] OTHER -> "sys"
Visible(w) == w \notin hidden /\ PageOf(w) \notin hidden

(* What update_detail_page puts on the page of channel ch.                  *)
DetailOf(ch) ==
  [channel |-> ch, points |-> OldToNew(history, HISTORY_BUCKETS),
   averages |-> <<Avg30, Avg60, Avg12h, Avg24h>>]

(* The chart is hidden on a page without data.                             *)
HistChartHidden(h, n) == IF n = 0 THEN h \cup {"hist_chart"} ELSE h \ {"hist_chart"}

PagesInit ==
  /\ hidden = {"detail", "sys", "hist_chart"}
  /\ chart_fullscreen = FALSE
  /\ detail_channel = 0
  /\ detail = [channel |-> 0, points |-> << >>,
               averages |-> << << >>, << >>, << >>, << >> >>]

-----------------------------------------------------------------------------
(* chart_fullscreen_event_cb and back_butten_event_cb.                     *)
EnterFullscreen ==
  /\ Visible("chart") /\ ~chart_fullscreen
  /\ chart_fullscreen' = TRUE
  /\ hidden' = hidden \cup {"controls"}
  /\ UNCHANGED <<detail_channel, detail>>

LeaveFullscreen ==
  /\ Visible("home") /\ chart_fullscreen
  /\ chart_fullscreen' = FALSE
  /\ hidden' = hidden \ {"controls", "chart"}
  /\ UNCHANGED <<detail_channel, detail>>

(* detail_channel_btn_event_cb.                                            *)
EnterDetail ==
  /\ Visible("controls") /\ ~chart_fullscreen
  /\ detail_channel' \in Channels
  /\ detail' = DetailOf(detail_channel')
  /\ hidden' = HistChartHidden((hidden \cup HomeParts) \ {"detail"}, history.count)
  /\ UNCHANGED chart_fullscreen

(* Mutant: only the flag of the home page itself is cleared.               *)
ShowHome_RootOnly(page) == hidden' = (hidden \cup {page}) \ {"home", "hist_chart"}

ShowHome(page) == hidden' = (hidden \cup {page}) \ (HomeParts \cup {"hist_chart"})

(* detail_back_event_cb, sys_btn_event_cb and sys_back_event_cb.           *)
LeaveDetail ==
  /\ Visible("detail")
  /\ ShowHome("detail")
  /\ UNCHANGED <<chart_fullscreen, detail_channel, detail>>

EnterSys ==
  /\ Visible("controls") /\ ~chart_fullscreen
  /\ hidden' = (hidden \cup HomeParts) \ {"sys"}
  /\ UNCHANGED <<chart_fullscreen, detail_channel, detail>>

LeaveSys ==
  /\ Visible("sys")
  /\ ShowHome("sys")
  /\ UNCHANGED <<chart_fullscreen, detail_channel, detail>>

PageEvent == \/ EnterFullscreen \/ LeaveFullscreen \/ EnterDetail
             \/ LeaveDetail \/ EnterSys \/ LeaveSys

(* The end of apply_avg_to_gui, after the push: an open detail page is      *)
(* refreshed.                                                              *)
RefreshDetail ==
  /\ UNCHANGED <<chart_fullscreen, detail_channel>>
  /\ IF Visible("detail")
     THEN /\ detail' = DetailOf(detail_channel)'
          /\ hidden' = HistChartHidden(hidden, history'.count)
     ELSE UNCHANGED <<hidden, detail>>

-----------------------------------------------------------------------------
(* The screen never gets stuck between pages: exactly one page is shown,    *)
(* and when it is the home page nothing on it was left hidden, except the  *)
(* controls while the chart fills the page.                                *)
HomeIsWhole ==
  /\ \E p \in Pages : Pages \ {p} = Pages \cap hidden
  /\ "home" \notin hidden =>
       HomeParts \cap hidden = IF chart_fullscreen THEN {"controls"} ELSE {}

(* An open detail page is of the channel chosen and of the present: its     *)
(* chart runs from the oldest minute kept to the newest, its averages are  *)
(* those of now, and it is there exactly when there are data.              *)
DetailIsCurrent ==
  Visible("detail") =>
    LET n == Lesser(samples, HISTORY_BUCKETS)
    IN  /\ detail.channel = detail_channel
        /\ detail.points = [i \in 1 .. n |-> samples - n + i]
        /\ detail.averages = <<Avg30, Avg60, Avg12h, Avg24h>>
        /\ ("hist_chart" \in hidden) = (n = 0)
=============================================================================
