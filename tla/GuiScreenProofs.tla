-------------------------- MODULE GuiScreenProofs --------------------------
(***************************************************************************)
(* Theorems about GuiScreen: the panel, the pages and the histories, for   *)
(* every queue length, set of commands, number of channels and ring size   *)
(* that satisfies the assumptions.                                         *)
(***************************************************************************)
EXTENDS GuiScreen, SequenceFacts, TLAPS

-----------------------------------------------------------------------------
(* The type invariant of the panel, with its sets named.                    *)
Commands == Others \cup {Panel!Msg(Panel!TARGET_FAN, p, Panel!SOURCE_GUI) : p \in 0 .. 100}
Fans == [pwm : 0 .. 300, light : BOOLEAN, running : BOOLEAN, speed : 0 .. 100]
Outs == [kind : {"nothing", "value", "fan_speed"}, value : 0 .. 100]

PanelTypeOK ==
  /\ queue \in Seq(Commands) /\ Len(queue) <= QueueLen
  /\ fan \in Fans
  /\ checked \in BOOLEAN /\ enabled \in BOOLEAN /\ alert_auto_on \in BOOLEAN
  /\ slider \in 0 .. 100 /\ out \in Outs
  /\ alerting \in BOOLEAN /\ userOn \in BOOLEAN /\ userActed \in BOOLEAN /\ synced \in BOOLEAN

(* The panel.  Of the commands in the queue only those fan_apply accepts    *)
(* count; once none of them is left, no handler is running and none was    *)
(* dropped, the display variables agree with the motor.                    *)
Agree == /\ fan.pwm \in 3 * fan.speed .. 3 * fan.speed + 2
         /\ fan.running = (fan.pwm # 0) /\ fan.light = fan.running

NothingPending ==
  synced /\ out = Panel!Nothing /\ \A i \in DOMAIN queue : ~Panel!FanAccepts(queue[i])

PanelInv ==
  /\ PanelTypeOK
  /\ Panel!AlertLinkCurrent
  /\ NothingPending => Agree

(* fan_apply leaves every command it accepts on the display, and stays in   *)
(* the ranges of the registers for every command.                          *)
LEMMA ApplyFacts ==
  ASSUME NEW f \in Fans, NEW m \in Commands
  PROVE  LET g == Panel!fan_apply(m, f)
         IN  /\ g \in Fans
             /\ Panel!FanAccepts(m) => /\ g.pwm \in 3 * g.speed .. 3 * g.speed + 2
                                       /\ g.running = (g.pwm # 0) /\ g.light = g.running
             /\ ~Panel!FanAccepts(m) => g = f
<1>1. CASE ~Panel!FanAccepts(m)
  BY <1>1 DEF Panel!fan_apply
<1>2. CASE Panel!FanAccepts(m) /\ m.source = Panel!SOURCE_GUI
  <2>1. PICK p \in 0 .. 100 : m = Panel!Msg(Panel!TARGET_FAN, p, Panel!SOURCE_GUI)
    BY <1>2, PanelAssumption DEF Commands
  <2>2. m.value = p
    BY <2>1 DEF Panel!Msg
  <2>3. Panel!GuiPct(m.value) = p
    BY <2>2 DEF Panel!GuiPct
  <2>4. Panel!FanPct(m) = p /\ Panel!FanPwm(m) = 3 * p /\ 3 * p \in 0 .. 300
    BY <1>2, <2>3 DEF Panel!FanPct, Panel!FanPwm
  <2>5. Panel!motor_set_speed(f.pwm, 3 * p) = 3 * p
    BY <2>4 DEF Panel!motor_set_speed
  <2>6. Panel!fan_apply(m, f) = [pwm |-> 3 * p, light |-> p # 0, running |-> p # 0, speed |-> p]
    BY <1>2, <2>4, <2>5 DEF Panel!fan_apply
  <2>7. QED
    BY <1>2, <2>6 DEF Fans
<1>3. CASE Panel!FanAccepts(m) /\ m.source # Panel!SOURCE_GUI
  <2>1. m.value \in 0 .. 3
    BY <1>3 DEF Panel!FanAccepts, Panel!FanLevels, Panel!APPLAY_VAL_OFF, Panel!APPLAY_VAL_HI
  <2>2. PICK pct \in {0, 33, 66, 100}, pwm \in {0, 100, 200, 300} :
          /\ Panel!FanPct(m) = pct /\ Panel!FanPwm(m) = pwm
          /\ pwm \in 3 * pct .. 3 * pct + 2 /\ (pwm = 0) = (pct = 0)
    BY <1>3, <2>1 DEF Panel!FanPct, Panel!FanPwm, Panel!LevelPct, Panel!LevelPwm,
                      Panel!FanLevels, Panel!APPLAY_VAL_OFF, Panel!APPLAY_VAL_HI
  <2>3. Panel!motor_set_speed(f.pwm, pwm) = pwm
    BY DEF Panel!motor_set_speed
  <2>4. Panel!fan_apply(m, f)
          = [pwm |-> pwm, light |-> pct # 0, running |-> pct # 0, speed |-> pct]
    BY <1>3, <2>2, <2>3 DEF Panel!fan_apply
  <2>5. QED
    BY <1>3, <2>2, <2>4 DEF Fans
<1>4. QED
  BY <1>1, <1>2, <1>3

(* What the handlers may leave in the display variables and behind.         *)
LEMMA DisplayFacts ==
  ASSUME NEW f \in Fans, NEW r \in BOOLEAN, NEW p \in 0 .. 100
  PROVE  /\ [f EXCEPT !.running = r] \in Fans
         /\ [f EXCEPT !.speed = p] \in Fans
         /\ [f EXCEPT !.running = r, !.speed = p] \in Fans
         /\ [f EXCEPT !.running = FALSE, !.speed = 0] \in Fans
<1>1. \A g \in Fans, b \in BOOLEAN : [g EXCEPT !.running = b] \in Fans
  BY DEF Fans
<1>2. \A g \in Fans, q \in 0 .. 100 : [g EXCEPT !.speed = q] \in Fans
  BY DEF Fans
<1>3. 0 \in 0 .. 100 /\ FALSE \in BOOLEAN
  OBVIOUS
<1>4. QED
  BY <1>1, <1>2, <1>3

(* What a handler may have pending.                                         *)
LEMMA OutFacts ==
  /\ Panel!Nothing \in Outs
  /\ Panel!FanSpeed \in Outs /\ Panel!FanSpeed # Panel!Nothing
  /\ \A v \in 0 .. 100 : Panel!Value(v) \in Outs /\ Panel!Value(v) # Panel!Nothing
  BY DEF Outs, Panel!Nothing, Panel!Value, Panel!FanSpeed

(* The panel at start.                                                      *)
LEMMA PanelInit == Panel!Init => PanelInv
<1> SUFFICES ASSUME Panel!Init PROVE PanelInv
  OBVIOUS
<1>1. fan \in Fans
  <2>1. (300 - 1) \div 2 \in 0 .. 300
    OBVIOUS
  <2>2. QED
    BY <2>1 DEF Panel!Init, Panel!BootPwm, Fans
<1>2. queue \in Seq(Commands) /\ Len(queue) <= QueueLen
  BY PanelAssumption DEF Panel!Init
<1>3. slider \in 0 .. 100 /\ out \in Outs
  BY OutFacts DEF Panel!Init
<1>4. PanelTypeOK
  BY <1>1, <1>2, <1>3 DEF Panel!Init, PanelTypeOK
<1>5. QED
  BY <1>4 DEF Panel!Init, PanelInv, Panel!AlertLinkCurrent, NothingPending

(* The handlers change widgets and display variables and leave a command    *)
(* behind, so that nothing is claimed of the display until it is sent.     *)
LEMMA HandlerInv ==
  ASSUME PanelInv,
         Panel!SwitchOn \/ Panel!SwitchOff \/ Panel!SliderMove \/ Panel!update_sensor_display
  PROVE  PanelInv'
<1>1. CASE Panel!SwitchOn
  <2>1. fan' \in Fans /\ out' \in Outs /\ out' # Panel!Nothing
    BY <1>1, DisplayFacts, OutFacts DEF Panel!SwitchOn, PanelInv, PanelTypeOK
  <2>2. QED
    BY <1>1, <2>1 DEF Panel!SwitchOn, PanelInv, PanelTypeOK, Panel!AlertLinkCurrent, NothingPending
<1>2. CASE Panel!SwitchOff
  <2>1. fan' \in Fans
    BY <1>2, DisplayFacts DEF Panel!SwitchOff, PanelInv, PanelTypeOK
  <2>2. slider' \in 0 .. 100 /\ out' \in Outs /\ out' # Panel!Nothing
    BY <1>2, OutFacts DEF Panel!SwitchOff, Panel!APPLAY_VAL_OFF
  <2>3. QED
    BY <1>2, <2>1, <2>2
       DEF Panel!SwitchOff, PanelInv, PanelTypeOK, Panel!AlertLinkCurrent, NothingPending
<1>3. CASE Panel!SliderMove
  <2>1. PICK p \in Positions : /\ slider' = p /\ fan' = [fan EXCEPT !.speed = p]
                               /\ out' = Panel!Value(p)
    BY <1>3 DEF Panel!SliderMove
  <2>2. slider' \in 0 .. 100 /\ fan' \in Fans /\ out' \in Outs /\ out' # Panel!Nothing
    BY <2>1, DisplayFacts, OutFacts, PanelAssumption DEF PanelInv, PanelTypeOK
  <2>3. QED
    BY <1>3, <2>2 DEF Panel!SliderMove, Panel!history, PanelInv, PanelTypeOK,
                      Panel!AlertLinkCurrent, NothingPending
<1>4. CASE Panel!AlertStarts
  <2>1. slider' \in 0 .. 100
    BY <1>4 DEF Panel!AlertStarts, PanelInv, PanelTypeOK
  <2>2. fan' \in Fans /\ out' \in Outs /\ out' # Panel!Nothing
    BY <1>4, <2>1, DisplayFacts, OutFacts DEF Panel!AlertStarts, PanelInv, PanelTypeOK
  <2>3. QED
    BY <1>4, <2>1, <2>2
       DEF Panel!AlertStarts, PanelInv, PanelTypeOK, Panel!AlertLinkCurrent, NothingPending
<1>5. CASE Panel!AlertGoesOn
  BY <1>5 DEF Panel!AlertGoesOn, Panel!widgets, PanelInv, PanelTypeOK,
              Panel!AlertLinkCurrent, NothingPending, Agree
<1>6. CASE Panel!AlertEnds
  <2>1. fan' \in Fans
    BY <1>6, DisplayFacts DEF Panel!AlertEnds, PanelInv, PanelTypeOK
  <2>2. slider' \in 0 .. 100 /\ out' \in Outs /\ out' # Panel!Nothing
    BY <1>6, OutFacts DEF Panel!AlertEnds, Panel!APPLAY_VAL_OFF
  <2>3. QED
    BY <1>6, <2>1, <2>2
       DEF Panel!AlertEnds, PanelInv, PanelTypeOK, Panel!AlertLinkCurrent, NothingPending
<1>7. CASE Panel!AllNormal
  BY <1>7 DEF Panel!AllNormal, Panel!widgets, PanelInv, PanelTypeOK,
              Panel!AlertLinkCurrent, NothingPending, Agree
<1>8. QED
  BY <1>1, <1>2, <1>3, <1>4, <1>5, <1>6, <1>7 DEF Panel!update_sensor_display

(* A command of the panel that reaches the queue will be accepted; one that *)
(* does not clears synced.                                                 *)
LEMMA SendInv == ASSUME PanelInv, Panel!GuiSend PROVE PanelInv'
<1> DEFINE value == IF out = Panel!FanSpeed THEN fan.speed ELSE out.value
           m == Panel!Msg(Panel!TARGET_FAN, value, Panel!SOURCE_GUI)
<1>1. value \in 0 .. 100
  BY DEF PanelInv, PanelTypeOK, Fans, Outs
<1>2. m \in Commands /\ Panel!FanAccepts(m)
  BY <1>1 DEF Commands, Panel!FanAccepts, Panel!Msg
<1>3. queue \in Seq(Commands) /\ Len(queue) <= QueueLen
  BY DEF PanelInv, PanelTypeOK
<1>4. out' = Panel!Nothing /\ UNCHANGED <<fan, checked, slider, enabled, alert_auto_on,
                                         alerting, userOn, userActed>>
  BY DEF Panel!GuiSend, Panel!widgets
<1> HIDE DEF m
<1>5. CASE Len(queue) < QueueLen /\ queue' = Append(queue, m) /\ UNCHANGED synced
  <2>1. /\ queue' \in Seq(Commands) /\ Len(queue') <= QueueLen
        /\ Len(queue) + 1 \in DOMAIN queue' /\ queue'[Len(queue) + 1] = m
    BY <1>2, <1>3, <1>5, AppendFacts, PanelAssumption
  <2>2. ~NothingPending'
    BY <1>2, <2>1 DEF NothingPending
  <2>3. QED
    BY <1>4, <1>5, <2>1, <2>2, OutFacts
       DEF PanelInv, PanelTypeOK, Panel!AlertLinkCurrent
<1>6. CASE synced' = FALSE /\ UNCHANGED queue
  BY <1>3, <1>4, <1>6, OutFacts
     DEF PanelInv, PanelTypeOK, Panel!AlertLinkCurrent, NothingPending
<1>7. QED
  BY <1>5, <1>6 DEF Panel!GuiSend, m

(* The other sources and the actuator task.                                *)
LEMMA OthersInv == ASSUME PanelInv, Panel!OtherSource \/ Panel!applay_task PROVE PanelInv'
<1>1. queue \in Seq(Commands) /\ Len(queue) <= QueueLen
  BY DEF PanelInv, PanelTypeOK
<1>2. CASE Panel!OtherSource
  <2>1. PICK m \in Others : queue' = Append(queue, m)
    BY <1>2 DEF Panel!OtherSource
  <2>2. /\ queue' \in Seq(Commands) /\ Len(queue') <= QueueLen
        /\ \A i \in DOMAIN queue : i \in DOMAIN queue' /\ queue'[i] = queue[i]
    BY <1>1, <1>2, <2>1, AppendFacts, PanelAssumption DEF Commands, Panel!OtherSource
  <2>3. UNCHANGED <<fan, checked, slider, enabled, alert_auto_on, out,
                    alerting, userOn, userActed, synced>>
    BY <1>2 DEF Panel!OtherSource, Panel!widgets, Panel!history
  <2>4. NothingPending' => NothingPending
    BY <2>2, <2>3 DEF NothingPending
  <2>5. QED
    BY <2>2, <2>3, <2>4 DEF PanelInv, PanelTypeOK, Panel!AlertLinkCurrent, Agree
<1>3. CASE Panel!applay_task
  <2> DEFINE m == Head(queue)
  <2>1. /\ queue # << >> /\ queue' = Tail(queue) /\ fan' = Panel!fan_apply(m, fan)
        /\ synced' = (synced \/ Panel!FanAccepts(m))
        /\ UNCHANGED <<checked, slider, enabled, alert_auto_on, out,
                       alerting, userOn, userActed>>
    BY <1>3 DEF Panel!applay_task, Panel!widgets
  <2>2. /\ m \in Commands /\ m = queue[1] /\ queue' \in Seq(Commands)
        /\ Len(queue') <= QueueLen /\ DOMAIN queue' = 1 .. Len(queue) - 1
        /\ \A i \in DOMAIN queue' : queue'[i] = queue[i + 1]
    BY <1>1, <2>1, TakeFacts, PanelAssumption
  <2> HIDE DEF m
  <2>3. fan' \in Fans
    BY <2>1, <2>2, ApplyFacts DEF PanelInv, PanelTypeOK
  <2>4. Panel!FanAccepts(m) => Agree'
    BY <2>1, <2>2, ApplyFacts DEF PanelInv, PanelTypeOK, Agree
  <2>5. ~Panel!FanAccepts(m) /\ NothingPending' => NothingPending /\ fan' = fan
    <3>1. \A i \in DOMAIN queue : i = 1 \/ (i - 1 \in DOMAIN queue' /\ queue'[i - 1] = queue[i])
      BY <1>1, <2>2
    <3>2. QED
      BY <2>1, <2>2, <3>1, ApplyFacts DEF NothingPending, PanelInv, PanelTypeOK
  <2>6. NothingPending' => Agree'
    BY <2>4, <2>5 DEF PanelInv, Agree
  <2>7. PanelTypeOK'
    BY <2>1, <2>2, <2>3 DEF PanelInv, PanelTypeOK
  <2>8. QED
    BY <2>1, <2>6, <2>7 DEF PanelInv, PanelTypeOK, Panel!AlertLinkCurrent
<1>4. QED
  BY <1>2, <1>3


-----------------------------------------------------------------------------
(* The rings.  Slot(r, i, size) holds the i-th newest entry of r; after n   *)
(* pushes the ring holds the newest of them, and a ring that is not full   *)
(* has been filled from slot 0 on.                                         *)
Slot(r, i, size) == IF r.head - i < 0 THEN r.head - i + size ELSE r.head - i

RingOK(r, n, size) ==
  /\ r.head \in 0 .. size - 1 /\ r.count = Lesser(n, size)
  /\ r.count < size => r.head = r.count
  /\ r.buf = [j \in 0 .. size - 1 |-> r.buf[j]]

(* The minute ring holds the newest minutes in order.                       *)
MinuteRing ==
  /\ samples \in Nat
  /\ RingOK(history, samples, HISTORY_BUCKETS)
  /\ \A i \in 1 .. history.count : history.buf[Slot(history, i, HISTORY_BUCKETS)] = samples - i + 1

(* The hour ring holds the newest whole hours in order; the counter says     *)
(* how many minutes have begun the hour that is under way.                 *)
HoursDone == IF samples = 0 THEN 0 ELSE (samples - 1) \div HourSamples
WholeHour(s, h) == Elements(s) = Hour(h) /\ Len(s) = HourSamples

HourRing ==
  /\ HoursDone \in Nat /\ sensor_data_count_min \in 0 .. HourSamples
  /\ samples = HoursDone * HourSamples + sensor_data_count_min
  /\ sensor_data_count_min = 0 => samples = 0
  /\ RingOK(history_hour, HoursDone, HOUR_HISTORY)
  /\ \A i \in 1 .. history_hour.count :
       WholeHour(history_hour.buf[Slot(history_hour, i, HOUR_HISTORY)], HoursDone - i + 1)

(* The pages: the page that is shown decides which parts may be hidden, and *)
(* an open detail page shows what the rings hold.                          *)
PagesInv ==
  /\ hidden \subseteq HomeParts \cup {"detail", "sys", "hist_chart"}
  /\ chart_fullscreen \in BOOLEAN /\ detail_channel \in Channels
  /\ HomeIsWhole
  /\ "home" \in hidden => ~chart_fullscreen
  /\ "detail" \notin hidden => /\ detail = DetailOf(detail_channel)
                               /\ ("hist_chart" \in hidden) = (history.count = 0)

ScreenInv == PanelInv /\ MinuteRing /\ HourRing /\ PagesInv


(* The modulus of the rings in linear arithmetic.                           *)
LEMMA WrapFacts ==
  ASSUME NEW size \in Nat \ {0}
  PROVE  \A x \in 0 .. 2 * size - 1 : x % size = IF x < size THEN x ELSE x - size
  OBVIOUS

(* The indices of a ring.                                                  *)
LEMMA RingRange ==
  ASSUME NEW r, NEW n \in Nat, NEW size \in Nat \ {0}, RingOK(r, n, size)
  PROVE  r.head \in 0 .. size - 1 /\ r.count \in 0 .. size
  BY DEF RingOK, Lesser

(* history_get reads a slot of the ring.                                    *)
LEMMA SlotType ==
  ASSUME NEW r, NEW n \in Nat, NEW size \in Nat \ {0}, RingOK(r, n, size),
         NEW i \in 1 .. r.count
  PROVE  Slot(r, i, size) \in 0 .. size - 1
  BY DEF RingOK, Lesser, Slot

(* A push makes its value the newest entry and leaves the others in order,  *)
(* one place further back; a full ring loses its oldest entry.             *)
Pushed(q, r, v, n, size) ==
  /\ RingOK(q, n + 1, size)
  /\ q.buf[Slot(q, 1, size)] = v
  /\ \A i \in 2 .. q.count : /\ i - 1 \in 1 .. r.count
                             /\ q.buf[Slot(q, i, size)] = r.buf[Slot(r, i - 1, size)]

(* history_push keeps what is in the ring and overwrites the oldest.        *)
LEMMA PushFacts ==
  ASSUME NEW r, NEW v, NEW n \in Nat, NEW size \in Nat \ {0}, RingOK(r, n, size),
         NEW q, q = Push(r, v, size)
  PROVE  Pushed(q, r, v, n, size)
<1>1. /\ r.head \in 0 .. size - 1 /\ r.count = Lesser(n, size)
      /\ r.count < size => r.head = r.count
      /\ r.buf = [j \in 0 .. size - 1 |-> r.buf[j]]
  BY DEF RingOK
<1>2. /\ q.buf = [r.buf EXCEPT ![r.head] = v]
      /\ q.head = (r.head + 1) % size
      /\ q.count = Lesser(r.count + 1, size)
  BY DEF Push
<1>3. q.head = IF r.head + 1 = size THEN 0 ELSE r.head + 1
  <2> DEFINE x == r.head + 1
  <2>1. x \in 0 .. 2 * size - 1 /\ x <= size /\ (x = size => x - size = 0)
    BY <1>1
  <2>2. x % size = IF x < size THEN x ELSE x - size
    <3> HIDE DEF x
    <3>1. QED
      BY <2>1, WrapFacts
  <2>3. q.head = x % size
    BY <1>2
  <2>4. QED
    BY <2>1, <2>2, <2>3, <1>1
<1>4. q.count = Lesser(n + 1, size) /\ (q.count < size => q.head = q.count)
  BY <1>1, <1>2, <1>3 DEF Lesser
<1>5. /\ DOMAIN q.buf = 0 .. size - 1 /\ q.buf[r.head] = v
      /\ \A j \in 0 .. size - 1 : j # r.head => q.buf[j] = r.buf[j]
      /\ q.buf = [j \in 0 .. size - 1 |-> q.buf[j]]
  BY <1>1, <1>2
<1>6. RingOK(q, n + 1, size)
  BY <1>3, <1>4, <1>5, <1>1 DEF RingOK
<1>7. Slot(q, 1, size) = r.head
  BY <1>1, <1>3 DEF Slot
<1>8. ASSUME NEW i \in 2 .. q.count
      PROVE  /\ i - 1 \in 1 .. r.count
             /\ q.buf[Slot(q, i, size)] = r.buf[Slot(r, i - 1, size)]
  <2>1. i - 1 \in 1 .. r.count /\ i <= size
    BY <1>1, <1>2, <1>4 DEF Lesser
  <2>2. Slot(q, i, size) = Slot(r, i - 1, size)
    BY <1>1, <1>3, <2>1 DEF Slot
  <2>3. Slot(r, i - 1, size) \in 0 .. size - 1 /\ Slot(r, i - 1, size) # r.head
    BY <1>1, <2>1 DEF Slot
  <2>4. QED
    BY <1>5, <2>1, <2>2, <2>3
<1>9. QED
  BY <1>5, <1>6, <1>7, <1>8 DEF Pushed

(* What the readers of a ring see: the k newest of n entries.               *)
NewestOf(r, n, k, size) ==
  /\ Newest(r, k, size) = [i \in 1 .. Lesser(n, k) |-> r.buf[Slot(r, i, size)]]
  /\ 1 .. Lesser(n, k) \subseteq 1 .. r.count

(* The newest values of a ring are the ones pushed last.                    *)
LEMMA NewestFacts ==
  ASSUME NEW r, NEW n \in Nat, NEW size \in Nat \ {0}, RingOK(r, n, size), NEW k \in 0 .. size
  PROVE  NewestOf(r, n, k, size)
<1>1. r.count = Lesser(n, size) /\ r.head \in 0 .. size - 1
  BY DEF RingOK
<1>2. Lesser(r.count, k) = Lesser(n, k) /\ 1 .. Lesser(n, k) \subseteq 1 .. r.count
  BY <1>1 DEF Lesser
<1>3. QED
  BY <1>1, <1>2 DEF Newest, Slot, NewestOf


(* The sizes of the rings as numbers.                                       *)
LEMMA HistorySizes ==
  /\ HISTORY_BUCKETS \in Nat \ {0} /\ HOUR_HISTORY \in Nat \ {0}
  /\ Recent \in 0 .. HISTORY_BUCKETS /\ RecentHours \in 0 .. HOUR_HISTORY
  /\ HourSamples = HISTORY_BUCKETS
  BY HistoryAssumption

(* The fill level of the minute ring.                                      *)
LEMMA MinuteRingFacts ==
  ASSUME MinuteRing, NEW n, n = Lesser(samples, HISTORY_BUCKETS)
  PROVE  /\ history.head \in 0 .. HISTORY_BUCKETS - 1 /\ history.count = n
         /\ n < HISTORY_BUCKETS => history.head = n
         /\ n \in 0 .. HISTORY_BUCKETS /\ samples \in Nat /\ n <= samples
<1>1. /\ history.head \in 0 .. HISTORY_BUCKETS - 1 /\ history.count = n /\ samples \in Nat
      /\ history.count < HISTORY_BUCKETS => history.head = history.count
  BY DEF MinuteRing, RingOK
<1>2. QED
  BY <1>1, HistorySizes DEF Lesser

(* The chart runs from the oldest minute kept to the newest.                *)
LEMMA ChartFacts ==
  ASSUME MinuteRing, NEW n, n = Lesser(samples, HISTORY_BUCKETS)
  PROVE  OldToNew(history, HISTORY_BUCKETS) = [i \in 1 .. n |-> samples - n + i]
<1> DEFINE start == IF history.count < HISTORY_BUCKETS THEN 0 ELSE history.head
<1>1. /\ history.head \in 0 .. HISTORY_BUCKETS - 1 /\ history.count = n
      /\ n < HISTORY_BUCKETS => history.head = n
      /\ n \in 0 .. HISTORY_BUCKETS /\ samples \in Nat /\ n <= samples
  BY MinuteRingFacts
<1>2. ASSUME NEW i \in 1 .. n
      PROVE  history.buf[(start + i - 1) % HISTORY_BUCKETS] = samples - n + i
  <2>1. n - i + 1 \in 1 .. history.count
    BY <1>1
  <2>2. (start + i - 1) % HISTORY_BUCKETS = Slot(history, n - i + 1, HISTORY_BUCKETS)
    <3> DEFINE x == start + i - 1
    <3>1. x \in 0 .. 2 * HISTORY_BUCKETS - 1
      BY <1>1, HistorySizes
    <3>2. x % HISTORY_BUCKETS = IF x < HISTORY_BUCKETS THEN x ELSE x - HISTORY_BUCKETS
      <4> HIDE DEF x
      <4>1. QED
        BY <3>1, WrapFacts, HistorySizes
    <3>3. QED
      BY <1>1, <3>2, HistorySizes DEF Slot
  <2>3. history.buf[Slot(history, n - i + 1, HISTORY_BUCKETS)] = samples - (n - i + 1) + 1
    BY <2>1 DEF MinuteRing
  <2>4. samples - (n - i + 1) + 1 = samples - n + i
    BY <1>1
  <2>5. QED
    BY <2>2, <2>3, <2>4
<1>3. OldToNew(history, HISTORY_BUCKETS)
        = [i \in 1 .. n |-> history.buf[(start + i - 1) % HISTORY_BUCKETS]]
  BY <1>1 DEF OldToNew
<1>4. QED
  BY <1>2, <1>3

(* The average over the whole ring, in the order of the slots, is of the    *)
(* newest minutes, each of them once.                                      *)
LEMMA FilledFacts ==
  ASSUME MinuteRing, NEW n, n = Lesser(samples, HISTORY_BUCKETS)
  PROVE  Len(Filled(history)) = n /\ Elements(Filled(history)) = samples - n + 1 .. samples
<1> DEFINE S == samples - n + 1 .. samples
<1>1. /\ history.head \in 0 .. HISTORY_BUCKETS - 1 /\ history.count = n
      /\ n < HISTORY_BUCKETS => history.head = n
      /\ n \in 0 .. HISTORY_BUCKETS /\ samples \in Nat /\ n <= samples
  BY MinuteRingFacts
<1>2. Filled(history) = [i \in 1 .. n |-> history.buf[i - 1]]
  BY <1>1 DEF Filled
<1>3. \A i \in 1 .. n : history.buf[Slot(history, i, HISTORY_BUCKETS)] = samples - i + 1
  BY <1>1 DEF MinuteRing
<1>4. ASSUME NEW i \in 1 .. n PROVE history.buf[i - 1] \in S
  <2> DEFINE k == IF i - 1 < history.head THEN history.head - (i - 1)
                                          ELSE history.head - (i - 1) + HISTORY_BUCKETS
  <2>1. k \in 1 .. n /\ Slot(history, k, HISTORY_BUCKETS) = i - 1
    BY <1>1, HistorySizes DEF Slot
  <2>2. history.buf[i - 1] = samples - k + 1
    BY <1>3, <2>1
  <2>3. QED
    BY <1>1, <2>1, <2>2
<1>5. ASSUME NEW v \in S PROVE \E i \in 1 .. n : history.buf[i - 1] = v
  <2>1. samples - v + 1 \in 1 .. n
    BY <1>1
  <2> DEFINE j == Slot(history, samples - v + 1, HISTORY_BUCKETS)
  <2>2. history.buf[j] = v
    <3>1. history.buf[j] = samples - (samples - v + 1) + 1
      BY <1>3, <2>1
    <3>2. samples - (samples - v + 1) + 1 = v
      BY <1>1
    <3>3. QED
      BY <3>1, <3>2
  <2>3. j \in 0 .. n - 1
    BY <1>1, <2>1, HistorySizes DEF Slot
  <2>4. j + 1 \in 1 .. n /\ (j + 1) - 1 = j
    BY <1>1, <2>3
  <2>5. QED
    BY <2>2, <2>4
<1> DEFINE f == Filled(history)
<1>6. DOMAIN f = 1 .. n /\ n \in Nat /\ \A i \in 1 .. n : f[i] = history.buf[i - 1]
  BY <1>1, <1>2
<1>7. f \in [1 .. n -> S]
  BY <1>2, <1>4
<1> HIDE DEF f, S
<1>8. Len(f) = n
  BY <1>6, <1>7, FunctionFacts
<1>9. Elements(f) = S
  BY <1>4, <1>5, <1>6 DEF Elements
<1>10. QED
  BY <1>8, <1>9 DEF f, S

(* The count of whole hours in linear arithmetic.                           *)
LEMMA DivFacts ==
  ASSUME NEW d \in Nat \ {0}, NEW q \in Nat, NEW r \in 0 .. d - 1
  PROVE  (q * d + r) \div d = q
  OBVIOUS

(* The rings are empty at first.                                            *)
LEMMA HistoryInit == history_init => MinuteRing /\ HourRing
<1> SUFFICES ASSUME history_init PROVE MinuteRing /\ HourRing
  OBVIOUS
<1>1. \A size \in Nat \ {0} : /\ RingOK(EmptyRing(size), 0, size)
                              /\ EmptyRing(size).count = 0
  BY DEF RingOK, EmptyRing, Lesser
<1>2. samples = 0 /\ sensor_data_count_min = 0 /\ HoursDone = 0
  BY DEF history_init, HoursDone
<1>3. /\ RingOK(history, 0, HISTORY_BUCKETS) /\ history.count = 0
      /\ RingOK(history_hour, 0, HOUR_HISTORY) /\ history_hour.count = 0
  BY <1>1, HistorySizes DEF history_init
<1>4. HoursDone * HourSamples + sensor_data_count_min = 0
  BY <1>2, HistorySizes
<1>5. QED
  BY <1>2, <1>3, <1>4, HistorySizes DEF MinuteRing, HourRing

(* A new minute average enters the minute ring; the first one of an hour    *)
(* completes the hour before it.                                           *)
LEMMA MinutePush == ASSUME MinuteRing, HistoryPush PROVE MinuteRing'
<1>1. /\ samples' = samples + 1 /\ samples \in Nat
      /\ history' = Push(history, samples', HISTORY_BUCKETS)
      /\ RingOK(history, samples, HISTORY_BUCKETS)
  BY DEF HistoryPush, MinuteRing
<1>2. Pushed(history', history, samples', samples, HISTORY_BUCKETS)
  BY <1>1, PushFacts, HistorySizes
<1>3. /\ RingOK(history', samples', HISTORY_BUCKETS)
      /\ history'.buf[Slot(history', 1, HISTORY_BUCKETS)] = samples'
      /\ \A i \in 2 .. history'.count :
           /\ i - 1 \in 1 .. history.count
           /\ history'.buf[Slot(history', i, HISTORY_BUCKETS)]
                = history.buf[Slot(history, i - 1, HISTORY_BUCKETS)]
  BY <1>1, <1>2 DEF Pushed
<1>4. ASSUME NEW i \in 1 .. history'.count
      PROVE  history'.buf[Slot(history', i, HISTORY_BUCKETS)] = samples' - i + 1
  <2>1. history'.count \in Nat
    BY <1>1, <1>3, HistorySizes DEF RingOK, Lesser
  <2>2. CASE i = 1
    BY <1>1, <1>3, <2>2
  <2>3. CASE i \in 2 .. history'.count
    <3>1. history'.buf[Slot(history', i, HISTORY_BUCKETS)] = samples - (i - 1) + 1
      BY <1>3, <2>3 DEF MinuteRing
    <3>2. samples - (i - 1) + 1 = samples' - i + 1
      BY <1>1, <2>1
    <3>3. QED
      BY <3>1, <3>2
  <2>4. QED
    BY <2>1, <2>2, <2>3
<1>5. samples' \in Nat
  BY <1>1
<1>6. QED
  BY <1>3, <1>4, <1>5 DEF MinuteRing

(* Samples counted in whole hours and minutes of the next.                  *)
LEMMA HourCount ==
  ASSUME MinuteRing, HourRing, HistoryPush
  PROVE  /\ HoursDone' \in Nat /\ sensor_data_count_min' \in 1 .. HourSamples
         /\ samples' = HoursDone' * HourSamples + sensor_data_count_min'
         /\ HoursDone' = IF HourIsOver THEN HoursDone + 1 ELSE HoursDone
<1> DEFINE q == HoursDone
           r == sensor_data_count_min
           d == HourSamples
<1>1. /\ q \in Nat /\ r \in 0 .. d /\ d \in Nat \ {0}
      /\ samples = q * d + r /\ samples \in Nat /\ samples' = samples + 1
  BY HistorySizes DEF HourRing, MinuteRing, HistoryPush
<1>2. HoursDone' = samples \div d
  <2>1. samples' # 0 /\ samples' - 1 = samples
    BY <1>1
  <2>2. QED
    BY <2>1 DEF HoursDone
<1>3. CASE HourIsOver
  <2>1. r = d /\ sensor_data_count_min' = 1
    <3> HIDE DEF q
    <3>1. QED
      BY <1>1, <1>3 DEF HourIsOver, HistoryPush
  <2>2. samples = (q + 1) * d + 0 /\ q + 1 \in Nat /\ 0 \in 0 .. d - 1
    <3> HIDE DEF q, d, r
    <3>1. QED
      BY <1>1, <2>1
  <2>3. HoursDone' = q + 1
    <3> HIDE DEF q, d, r
    <3>1. QED
      BY <1>1, <1>2, <2>2, DivFacts
  <2>4. samples' = (q + 1) * d + 1
    <3> HIDE DEF q, d, r
    <3>1. QED
      BY <1>1, <2>2
  <2>5. QED
    BY <1>3, <1>1, <2>1, <2>2, <2>3, <2>4
<1>4. CASE ~HourIsOver
  <2>1. r \in 0 .. d - 1 /\ sensor_data_count_min' = r + 1
    <3> HIDE DEF q
    <3>1. QED
      BY <1>1, <1>4 DEF HourIsOver, HistoryPush
  <2>2. HoursDone' = q
    <3> HIDE DEF q, d, r
    <3>1. QED
      BY <1>1, <1>2, <2>1, DivFacts
  <2>3. samples' = q * d + (r + 1) /\ r + 1 \in 1 .. d
    <3> HIDE DEF q, d, r
    <3>1. QED
      BY <1>1, <2>1
  <2>4. QED
    BY <1>4, <1>1, <2>1, <2>2, <2>3
<1>5. QED
  BY <1>3, <1>4
(* When an hour is over, the minute ring holds exactly its minutes.         *)
LEMMA FullHour ==
  ASSUME MinuteRing, NEW h \in Nat, samples = h * HourSamples + HourSamples
  PROVE  WholeHour(Filled(history), h + 1)
<1>1. /\ h * HourSamples \in Nat /\ (h + 1) * HourSamples = h * HourSamples + HourSamples
      /\ h + 1 - 1 = h /\ HourSamples \in Nat \ {0} /\ samples \in Nat
  BY HistorySizes DEF MinuteRing
<1>2. Lesser(samples, HISTORY_BUCKETS) = HourSamples
  BY <1>1, HistorySizes DEF Lesser
<1>3. /\ Len(Filled(history)) = HourSamples
      /\ Elements(Filled(history)) = samples - HourSamples + 1 .. samples
  BY <1>2, FilledFacts
<1>4. Hour(h + 1) = (h + 1 - 1) * HourSamples + 1 .. (h + 1) * HourSamples
  BY DEF Hour
<1>5. samples - HourSamples + 1 = (h + 1 - 1) * HourSamples + 1 /\ samples = (h + 1) * HourSamples
  BY <1>1
<1>6. QED
  BY <1>3, <1>4, <1>5 DEF WholeHour

(* A minute average keeps the hour ring, with or without a new hour.        *)
LEMMA HourPush == ASSUME MinuteRing, HourRing, HistoryPush PROVE HourRing'
<1>1. /\ HoursDone' \in Nat /\ sensor_data_count_min' \in 1 .. HourSamples
      /\ samples' = HoursDone' * HourSamples + sensor_data_count_min'
      /\ HoursDone' = IF HourIsOver THEN HoursDone + 1 ELSE HoursDone
  BY HourCount
<1>2. sensor_data_count_min' # 0 /\ sensor_data_count_min' \in 0 .. HourSamples
  BY <1>1, HistorySizes
<1>3. RingOK(history_hour, HoursDone, HOUR_HISTORY) /\ HoursDone \in Nat
  BY DEF HourRing
<1>4. \A i \in 1 .. history_hour.count :
        WholeHour(history_hour.buf[Slot(history_hour, i, HOUR_HISTORY)], HoursDone - i + 1)
  BY DEF HourRing
<1>5. CASE HourIsOver
  <2>1. samples = HoursDone * HourSamples + HourSamples
    <3>1. sensor_data_count_min = HourSamples
      BY <1>5, HistorySizes DEF HourIsOver, HourRing
    <3>2. QED
      BY <3>1 DEF HourRing
  <2>2. WholeHour(Filled(history), HoursDone + 1)
    BY <1>3, <2>1, FullHour
  <2>3. /\ history_hour' = Push(history_hour, Filled(history), HOUR_HISTORY)
        /\ HoursDone' = HoursDone + 1
    BY <1>1, <1>5 DEF HistoryPush
  <2>4. Pushed(history_hour', history_hour, Filled(history), HoursDone, HOUR_HISTORY)
    BY <1>3, <2>3, PushFacts, HistorySizes
  <2>5. history_hour'.count \in Nat
    BY <1>3, <2>4, HistorySizes DEF Pushed, RingOK, Lesser
  <2>6. ASSUME NEW i \in 1 .. history_hour'.count
        PROVE  WholeHour(history_hour'.buf[Slot(history_hour', i, HOUR_HISTORY)],
                         HoursDone + 1 - i + 1)
    <3>1. CASE i = 1
      <4>1. HoursDone + 1 - i + 1 = HoursDone + 1
        BY <3>1, <1>3
      <4>2. QED
        BY <3>1, <4>1, <2>2, <2>4 DEF Pushed
    <3>2. CASE i \in 2 .. history_hour'.count
      <4>1. HoursDone - (i - 1) + 1 = HoursDone + 1 - i + 1
        BY <1>3, <2>5
      <4>2. WholeHour(history_hour.buf[Slot(history_hour, i - 1, HOUR_HISTORY)],
                      HoursDone - (i - 1) + 1)
        BY <1>4, <2>4, <3>2 DEF Pushed
      <4>3. QED
        BY <4>1, <4>2, <2>4, <3>2 DEF Pushed
    <3>3. QED
      BY <2>5, <3>1, <3>2
  <2>7. QED
    BY <1>1, <1>2, <2>3, <2>4, <2>6 DEF HourRing, Pushed
<1>6. CASE ~HourIsOver
  <2>1. history_hour' = history_hour /\ HoursDone' = HoursDone
    BY <1>1, <1>6 DEF HistoryPush
  <2>2. QED
    BY <1>1, <1>2, <1>3, <1>4, <2>1 DEF HourRing
<1>7. QED
  BY <1>5, <1>6

-----------------------------------------------------------------------------
(* The pages.  Each of the lemmas that follow is about one kind of touch.   *)
LEMMA PagesInitially == Init => PagesInv
<1> SUFFICES ASSUME Init PROVE PagesInv
  OBVIOUS
<1>1. history.count = 0
  BY DEF Init, history_init, EmptyRing
<1>2. Pages \ {"home"} = Pages \cap hidden
  BY DEF Init, PagesInit, Pages
<1>3. HomeIsWhole
  BY <1>2 DEF Init, PagesInit, HomeIsWhole, Pages, HomeParts
<1>4. 0 \in Channels
  BY ChannelAssumption DEF Channels
<1>5. QED
  BY <1>1, <1>3, <1>4 DEF Init, PagesInit, PagesInv, HomeParts

(* Exactly one page is shown, page by page.                                 *)
OneOf(h) ==
  \/ "home" \notin h /\ "detail" \in h /\ "sys" \in h
  \/ "home" \in h /\ "detail" \notin h /\ "sys" \in h
  \/ "home" \in h /\ "detail" \in h /\ "sys" \notin h

(* One page is visible.                                                     *)
LEMMA OnePage ==
  ASSUME NEW h
  PROVE  OneOf(h) <=> \E p \in Pages : Pages \ {p} = Pages \cap h
<1>1. ASSUME NEW p \in Pages, Pages \ {p} = Pages \cap h PROVE OneOf(h)
  <2>1. /\ "home" \in Pages /\ "detail" \in Pages /\ "sys" \in Pages
        /\ \A x \in Pages : x \in h <=> x # p
        /\ p = "home" \/ p = "detail" \/ p = "sys"
    BY <1>1 DEF Pages
  <2>2. QED
    BY <2>1 DEF OneOf
<1>2. CASE "home" \notin h /\ "detail" \in h /\ "sys" \in h
  <2>1. Pages \ {"home"} = Pages \cap h /\ "home" \in Pages
    BY <1>2 DEF Pages
  <2>2. QED
    BY <1>2, <2>1 DEF OneOf
<1>3. CASE "home" \in h /\ "detail" \notin h /\ "sys" \in h
  <2>1. Pages \ {"detail"} = Pages \cap h /\ "detail" \in Pages
    BY <1>3 DEF Pages
  <2>2. QED
    BY <1>3, <2>1 DEF OneOf
<1>4. CASE "home" \in h /\ "detail" \in h /\ "sys" \notin h
  <2>1. Pages \ {"sys"} = Pages \cap h /\ "sys" \in Pages
    BY <1>4 DEF Pages
  <2>2. QED
    BY <1>4, <2>1 DEF OneOf
<1>5. QED
  BY <1>1, <1>2, <1>3, <1>4 DEF OneOf

(* What can be touched.                                                     *)
LEMMA VisibleFacts ==
  /\ Visible("chart") => "chart" \notin hidden /\ "home" \notin hidden
  /\ Visible("controls") => "controls" \notin hidden /\ "home" \notin hidden
  /\ Visible("home") <=> "home" \notin hidden
  /\ Visible("detail") <=> "detail" \notin hidden
  /\ Visible("sys") <=> "sys" \notin hidden
<1>1. /\ PageOf("chart") = "home" /\ PageOf("controls") = "home" /\ PageOf("home") = "home"
      /\ PageOf("detail") = "detail" /\ PageOf("sys") = "sys"
  BY DEF PageOf, HomeParts
<1>2. QED
  BY <1>1 DEF Visible

(* A step that fixes which widgets are hidden keeps the invariant of the    *)
(* pages if it leaves a whole home page, and a detail page that is current.*)
LEMMA PagesStep ==
  ASSUME hidden' \subseteq HomeParts \cup {"detail", "sys", "hist_chart"},
         chart_fullscreen' \in BOOLEAN, detail_channel' \in Channels,
         OneOf(hidden'),
         "home" \notin hidden' =>
           HomeParts \cap hidden' = IF chart_fullscreen' THEN {"controls"} ELSE {},
         "home" \in hidden' => ~chart_fullscreen',
         "detail" \notin hidden' => /\ detail' = DetailOf(detail_channel)'
                                    /\ ("hist_chart" \in hidden') = (history.count = 0)'
  PROVE  PagesInv'
<1>1. \E p \in Pages : Pages \ {p} = Pages \cap hidden'
  BY OnePage
<1>2. HomeIsWhole'
  BY <1>1 DEF HomeIsWhole
<1>3. QED
  BY <1>2 DEF PagesInv

(* Touching a page keeps one page visible and whole.                        *)
LEMMA PageEventInv ==
  ASSUME PagesInv, PageEvent, UNCHANGED historyVars
  PROVE  PagesInv'
<1>1. /\ hidden \subseteq HomeParts \cup {"detail", "sys", "hist_chart"}
      /\ chart_fullscreen \in BOOLEAN /\ detail_channel \in Channels
      /\ "home" \in hidden => ~chart_fullscreen
      /\ "detail" \notin hidden => /\ detail = DetailOf(detail_channel)
                                   /\ ("hist_chart" \in hidden) = (history.count = 0)
      /\ "home" \notin hidden =>
           HomeParts \cap hidden = IF chart_fullscreen THEN {"controls"} ELSE {}
  BY DEF PagesInv, HomeIsWhole
<1>2. OneOf(hidden)
  BY OnePage DEF PagesInv, HomeIsWhole
<1>3. DetailOf(detail_channel)' = DetailOf(detail_channel') /\ (history.count = 0)' = (history.count = 0)
  BY DEF DetailOf, historyVars, Avg30, Avg60, Avg12h, Avg24h
<1>4. CASE EnterFullscreen
  BY <1>1, <1>2, <1>3, <1>4, PagesStep, VisibleFacts DEF EnterFullscreen, OneOf, HomeParts
<1>5. CASE LeaveFullscreen
  BY <1>1, <1>2, <1>3, <1>5, PagesStep, VisibleFacts DEF LeaveFullscreen, OneOf, HomeParts
<1>6. CASE EnterDetail
  BY <1>1, <1>2, <1>3, <1>6, PagesStep, VisibleFacts DEF EnterDetail, HistChartHidden, OneOf, HomeParts
<1>7. CASE LeaveDetail
  BY <1>1, <1>2, <1>3, <1>7, PagesStep, VisibleFacts DEF LeaveDetail, ShowHome, OneOf, HomeParts
<1>8. CASE EnterSys
  BY <1>1, <1>2, <1>3, <1>8, PagesStep, VisibleFacts DEF EnterSys, OneOf, HomeParts
<1>9. CASE LeaveSys
  BY <1>1, <1>2, <1>3, <1>9, PagesStep, VisibleFacts DEF LeaveSys, ShowHome, OneOf, HomeParts
<1>10. QED
  BY <1>4, <1>5, <1>6, <1>7, <1>8, <1>9 DEF PageEvent

(* A refresh of the detail page shows the newest values.                    *)
LEMMA RefreshInv ==
  ASSUME PagesInv, RefreshDetail
  PROVE  PagesInv'
<1>1. /\ hidden \subseteq HomeParts \cup {"detail", "sys", "hist_chart"}
      /\ chart_fullscreen \in BOOLEAN /\ detail_channel \in Channels
      /\ "home" \in hidden => ~chart_fullscreen
      /\ "home" \notin hidden =>
           HomeParts \cap hidden = IF chart_fullscreen THEN {"controls"} ELSE {}
  BY DEF PagesInv, HomeIsWhole
<1>2. OneOf(hidden)
  BY OnePage DEF PagesInv, HomeIsWhole
<1>3. CASE Visible("detail")
  <2>1. /\ hidden' = HistChartHidden(hidden, history'.count)
        /\ detail' = DetailOf(detail_channel)'
        /\ chart_fullscreen' = chart_fullscreen /\ detail_channel' = detail_channel
    BY <1>3 DEF RefreshDetail
  <2>2. /\ \A w : w # "hist_chart" => (w \in hidden' <=> w \in hidden)
        /\ ("hist_chart" \in hidden') = (history.count = 0)'
        /\ hidden' \subseteq HomeParts \cup {"detail", "sys", "hist_chart"}
    BY <1>1, <2>1 DEF HistChartHidden
  <2>3. HomeParts \cap hidden' = HomeParts \cap hidden /\ OneOf(hidden')
    BY <1>2, <2>2 DEF HomeParts, OneOf
  <2>4. "home" \in hidden' <=> "home" \in hidden
    BY <2>2
  <2>5. QED
    BY <1>1, <2>1, <2>2, <2>3, <2>4, PagesStep
<1>4. CASE ~Visible("detail")
  BY <1>1, <1>2, <1>4, PagesStep, VisibleFacts DEF RefreshDetail, OneOf, HomeParts
<1>5. QED
  BY <1>3, <1>4

-----------------------------------------------------------------------------
(* The initial states and the steps of the whole screen.                    *)
LEMMA ScreenInit == Init => ScreenInv
  BY PanelInit, HistoryInit, PagesInitially DEF Init, ScreenInv

(* What the panel and the other tasks do leaves pages and histories alone.  *)
LEMMA ScreenStutter ==
  ASSUME MinuteRing, HourRing, PagesInv, UNCHANGED screenVars
  PROVE  MinuteRing' /\ HourRing' /\ PagesInv'
<1>1. /\ UNCHANGED <<history, history_hour, sensor_data_count_min, samples>>
      /\ UNCHANGED <<hidden, chart_fullscreen, detail_channel, detail>>
  BY DEF screenVars, historyVars, pageVars
<1>2. MinuteRing' /\ HourRing'
  BY <1>1 DEF MinuteRing, HourRing, HoursDone
<1>3. HomeIsWhole' /\ DetailOf(detail_channel)' = DetailOf(detail_channel)
  BY <1>1 DEF PagesInv, HomeIsWhole, DetailOf, Avg30, Avg60, Avg12h, Avg24h
<1>4. PagesInv'
  BY <1>1, <1>3 DEF PagesInv
<1>5. QED
  BY <1>2, <1>4

(* Steps that leave the panel alone.                                        *)
LEMMA PanelStutter == ASSUME PanelInv, UNCHANGED panelVars PROVE PanelInv'
  BY DEF panelVars, PanelInv, PanelTypeOK, Panel!AlertLinkCurrent, NothingPending, Agree

(* Steps that leave the rings alone.                                        *)
LEMMA HistoryStutter ==
  ASSUME MinuteRing, HourRing, UNCHANGED historyVars
  PROVE  MinuteRing' /\ HourRing'
  BY DEF historyVars, MinuteRing, HourRing, HoursDone

(* Every step of the screen keeps its invariant.                            *)
LEMMA ScreenNext == ASSUME ScreenInv, [Next]_vars PROVE ScreenInv'
<1>1. CASE PanelEvent
  BY <1>1, HandlerInv, ScreenStutter DEF PanelEvent, ScreenInv
<1>2. CASE apply_avg_to_gui
  BY <1>2, HandlerInv, MinutePush, HourPush, RefreshInv DEF apply_avg_to_gui, ScreenInv
<1>3. CASE TouchPage
  BY <1>3, PanelStutter, HistoryStutter, PageEventInv DEF TouchPage, ScreenInv
<1>4. CASE PanelSends
  BY <1>4, SendInv, ScreenStutter DEF PanelSends, ScreenInv
<1>5. CASE OtherTasks
  BY <1>5, OthersInv, ScreenStutter DEF OtherTasks, ScreenInv
<1>6. CASE UNCHANGED vars
  BY <1>6, PanelStutter, ScreenStutter DEF vars, ScreenInv
<1>7. QED
  BY <1>1, <1>2, <1>3, <1>4, <1>5, <1>6 DEF Next, my_gui_task

-----------------------------------------------------------------------------
(* The screen is consistent: the panel with the motor and the alert, the     *)
(* rings with what was pushed, the pages with each other and with the rings.*)
THEOREM ScreenInvariant == Spec => []ScreenInv
<1>1. Init => ScreenInv
  BY ScreenInit
<1>2. ScreenInv /\ [Next]_vars => ScreenInv'
  BY ScreenNext
<1>3. QED
  BY <1>1, <1>2, PTL DEF Spec

(* The bound on the number of minute averages.                              *)
Bounded == samples \in 0 .. MaxSamples

(* Every variable of the screen stays in its type: the queue, the fan, the  *)
(* indices and fill levels of the rings, the widgets and the pages.        *)
THEOREM ScreenTypes == Spec => []TypeOK
<1>1. Init => Bounded
  BY HistoryAssumption DEF Init, history_init, Bounded
<1>2. Bounded /\ [Next]_vars => Bounded'
  <2> SUFFICES ASSUME Bounded, [Next]_vars PROVE Bounded'
    OBVIOUS
  <2>1. CASE HistoryPush
    BY <2>1, HistoryAssumption DEF HistoryPush, Bounded
  <2>2. CASE UNCHANGED samples
    BY <2>2 DEF Bounded
  <2>3. QED
    BY <2>1, <2>2 DEF Next, my_gui_task, PanelEvent, apply_avg_to_gui, TouchPage, PanelSends,
                      OtherTasks, vars, screenVars, historyVars
<1>3. ScreenInv /\ Bounded => TypeOK
  <2> SUFFICES ASSUME ScreenInv, Bounded PROVE TypeOK
    OBVIOUS
  <2>1. Panel!TypeOK
    <3>1. PanelTypeOK
      BY DEF ScreenInv, PanelInv
    <3>2. QED
      BY <3>1 DEF PanelTypeOK, Panel!TypeOK, Commands, Fans, Outs
  <2>2. /\ history.head \in 0 .. HISTORY_BUCKETS - 1 /\ history.count \in 0 .. HISTORY_BUCKETS
    BY RingRange, HistorySizes DEF ScreenInv, MinuteRing
  <2>3. /\ history_hour.head \in 0 .. HOUR_HISTORY - 1 /\ history_hour.count \in 0 .. HOUR_HISTORY
    BY RingRange, HistorySizes DEF ScreenInv, HourRing
  <2>4. sensor_data_count_min \in Nat
    BY HistorySizes DEF ScreenInv, HourRing
  <2>5. QED
    BY <2>1, <2>2, <2>3, <2>4 DEF ScreenInv, PagesInv, Bounded, TypeOK
<1>4. QED
  BY <1>1, <1>2, <1>3, ScreenInvariant, PTL DEF Spec

(* Two tasks write the display variables, in any order; once no command of   *)
(* the fan is under way they agree with the motor and the light.           *)
THEOREM DisplayTellsTheTruth == Spec => []DisplayAgrees
<1>1. ScreenInv => DisplayAgrees
  <2> SUFFICES ASSUME ScreenInv, synced, queue = << >>, out = Panel!Nothing PROVE Agree
    BY DEF DisplayAgrees, Panel!DisplayAgrees, Agree
  <2>1. NothingPending
    BY DEF NothingPending
  <2>2. QED
    BY <2>1 DEF ScreenInv, PanelInv
<1>2. QED
  BY <1>1, ScreenInvariant, PTL

(* The alert link is set only during an alert and with the switch ON, and   *)
(* in an alert only the user's own use of the switch clears it.            *)
THEOREM AlertLinkFollows == Spec => []AlertLinkCurrent
<1>1. ScreenInv => AlertLinkCurrent
  BY DEF ScreenInv, PanelInv, AlertLinkCurrent
<1>2. QED
  BY <1>1, ScreenInvariant, PTL

(* Exactly one page is shown, and a home page that is shown is whole.       *)
THEOREM HomePageWhole == Spec => []HomeIsWhole
<1>1. ScreenInv => HomeIsWhole
  BY DEF ScreenInv, PagesInv
<1>2. QED
  BY <1>1, ScreenInvariant, PTL

(* An open detail page is of the channel chosen and of the present: its     *)
(* chart runs from the oldest minute kept to the newest one.               *)
THEOREM DetailPageCurrent == Spec => []DetailIsCurrent
<1>1. ScreenInv => DetailIsCurrent
  <2> SUFFICES ASSUME ScreenInv, Visible("detail"),
                      NEW n, n = Lesser(samples, HISTORY_BUCKETS)
               PROVE  /\ detail.channel = detail_channel
                      /\ detail.points = [i \in 1 .. n |-> samples - n + i]
                      /\ detail.averages = <<Avg30, Avg60, Avg12h, Avg24h>>
                      /\ ("hist_chart" \in hidden) = (n = 0)
    BY DEF DetailIsCurrent
  <2>1. detail = DetailOf(detail_channel) /\ ("hist_chart" \in hidden) = (history.count = 0)
    BY VisibleFacts DEF ScreenInv, PagesInv
  <2>2. history.count = n
    BY MinuteRingFacts DEF ScreenInv
  <2>3. OldToNew(history, HISTORY_BUCKETS) = [i \in 1 .. n |-> samples - n + i]
    BY ChartFacts DEF ScreenInv
  <2>4. QED
    BY <2>1, <2>2, <2>3 DEF DetailOf
<1>2. QED
  BY <1>1, ScreenInvariant, PTL

(* The minute averages of the screen are of exactly the newest minutes,     *)
(* however often the ring has wrapped.                                     *)
THEOREM MinuteAverages == Spec => []MinuteAveragesAreNewest
<1>1. ScreenInv => MinuteAveragesAreNewest
  <2> SUFFICES ASSUME ScreenInv, NEW n, n = Lesser(samples, HISTORY_BUCKETS)
               PROVE  /\ Len(Avg60) = n /\ Elements(Avg60) = samples - n + 1 .. samples
                      /\ Avg30 = [i \in 1 .. Lesser(n, Recent) |-> samples - i + 1]
    BY DEF MinuteAveragesAreNewest
  <2>1. Len(Avg60) = n /\ Elements(Avg60) = samples - n + 1 .. samples
    BY FilledFacts DEF ScreenInv, Avg60
  <2>2. samples \in Nat /\ RingOK(history, samples, HISTORY_BUCKETS)
    BY DEF ScreenInv, MinuteRing
  <2>3. Lesser(samples, Recent) = Lesser(n, Recent)
    BY <2>2, HistorySizes DEF Lesser
  <2>4. /\ Avg30 = [i \in 1 .. Lesser(samples, Recent)
                      |-> history.buf[Slot(history, i, HISTORY_BUCKETS)]]
        /\ 1 .. Lesser(samples, Recent) \subseteq 1 .. history.count
    <3>1. NewestOf(history, samples, Recent, HISTORY_BUCKETS)
      BY <2>2, NewestFacts, HistorySizes
    <3>2. QED
      BY <3>1 DEF Avg30, NewestOf
  <2>5. \A i \in 1 .. Lesser(samples, Recent) :
          history.buf[Slot(history, i, HISTORY_BUCKETS)] = samples - i + 1
    BY <2>4 DEF ScreenInv, MinuteRing
  <2>6. QED
    BY <2>1, <2>3, <2>4, <2>5
<1>2. QED
  BY <1>1, ScreenInvariant, PTL

(* What the values of 12 and 24 hours are averages of.                      *)
LEMMA HourAverages ==
  ASSUME HourRing, NEW k \in 0 .. HOUR_HISTORY,
         NEW avg, avg = Newest(history_hour, k, HOUR_HISTORY)
  PROVE  /\ Len(avg) = Lesser(HoursDone, k)
         /\ \A i \in DOMAIN avg : WholeHour(avg[i], HoursDone - i + 1)
<1>1. RingOK(history_hour, HoursDone, HOUR_HISTORY) /\ HoursDone \in Nat
  BY DEF HourRing
<1>2. /\ avg = [i \in 1 .. Lesser(HoursDone, k)
                  |-> history_hour.buf[Slot(history_hour, i, HOUR_HISTORY)]]
      /\ 1 .. Lesser(HoursDone, k) \subseteq 1 .. history_hour.count
  <2>1. NewestOf(history_hour, HoursDone, k, HOUR_HISTORY)
    BY <1>1, NewestFacts, HistorySizes
  <2>2. QED
    BY <2>1 DEF NewestOf
<1>3. Lesser(HoursDone, k) \in Nat
  BY <1>1, HistorySizes DEF Lesser
<1> DEFINE n == Lesser(HoursDone, k)
           S == {avg[i] : i \in 1 .. n}
<1>4. avg \in [1 .. n -> S] /\ DOMAIN avg = 1 .. n
  BY <1>2
<1> HIDE DEF n, S
<1>5. Len(avg) = n
  BY <1>3, <1>4, FunctionFacts DEF n
<1>6. QED
  BY <1>2, <1>4, <1>5 DEF HourRing, n

(* The hour averages are of whole hours that adjoin, and the screen         *)
(* averages over the newest of them.                                       *)
THEOREM HourAveragesTheorem == Spec => []HourAveragesAdjoin
<1>1. ScreenInv => HourAveragesAdjoin
  <2> SUFFICES ASSUME ScreenInv PROVE HourAveragesAdjoin
    OBVIOUS
  <2>1. /\ Len(Avg24h) = Lesser(HoursDone, HOUR_HISTORY)
        /\ \A i \in DOMAIN Avg24h : WholeHour(Avg24h[i], HoursDone - i + 1)
    <3>1. HOUR_HISTORY \in 0 .. HOUR_HISTORY
      BY HistorySizes
    <3>2. QED
      BY <3>1, HourAverages DEF ScreenInv, Avg24h
  <2>2. /\ Len(Avg12h) = Lesser(HoursDone, RecentHours)
        /\ \A i \in DOMAIN Avg12h : WholeHour(Avg12h[i], HoursDone - i + 1)
    BY HourAverages, HistorySizes DEF ScreenInv, Avg12h
  <2>3. QED
    BY <2>1, <2>2 DEF HourAveragesAdjoin, HoursDone, WholeHour
<1>2. QED
  BY <1>1, ScreenInvariant, PTL
=============================================================================
