----------------------------- MODULE GuiHistory -----------------------------
(***************************************************************************)
(* The histories behind the charts and averages of the screen (my_gui.c):  *)
(* a ring of minute averages, a ring of hour averages made from it, and    *)
(* what the detail page reads out of them.  All four channels get every    *)
(* push together, so one channel stands for all.                           *)
(*                                                                         *)
(* A minute average is its serial number; an average of averages is the    *)
(* sequence of what was summed.                                            *)
(***************************************************************************)
EXTENDS Integers, Sequences

CONSTANTS
  HISTORY_BUCKETS,  \* minute averages kept (60)
  HOUR_HISTORY,     \* hour averages kept (24)
  HourSamples,      \* minute averages in an hour (60)
  Recent,           \* minute averages in the "30 min" value (30)
  RecentHours,      \* hour averages in the "12 h" value (12)
  MaxSamples        \* bound: minute averages in a behaviour

ASSUME HistoryAssumption ==
  /\ {HISTORY_BUCKETS, HOUR_HISTORY, HourSamples, Recent, RecentHours} \subseteq Nat \ {0}
  /\ HourSamples = HISTORY_BUCKETS
  /\ Recent <= HISTORY_BUCKETS /\ RecentHours <= HOUR_HISTORY
  /\ MaxSamples \in Nat

VARIABLES
  history,                \* the minute ring: [buf, head, count]
  history_hour,           \* the hour ring
  sensor_data_count_min,  \* pushes since the last hour average
  samples                 \* history: minute averages so far

historyVars == <<history, history_hour, sensor_data_count_min, samples>>

Lesser(a, b) == IF a < b THEN a ELSE b

(* Rings of the two sizes.                                                 *)
EmptyRing(size) == [buf |-> [i \in 0 .. size - 1 |-> 0], head |-> 0, count |-> 0]

(* history_push_one, history_push_hour.                                    *)
Push(r, v, size) ==
  [buf   |-> [r.buf EXCEPT ![r.head] = v],
   head  |-> (r.head + 1) % size,
   count |-> Lesser(r.count + 1, size)]

(* Mutant: the index below zero is not wrapped.                            *)
Newest_NoWrap(r, k, size) ==
  [i \in 1 .. Lesser(r.count, k) |->
     LET idx == r.head - i IN IF idx < 0 THEN r.buf[0] ELSE r.buf[idx]]

(* The newest k entries, newest first.                                     *)
Newest(r, k, size) ==
  [i \in 1 .. Lesser(r.count, k) |->
     LET idx == r.head - i IN IF idx < 0 THEN r.buf[idx + size] ELSE r.buf[idx]]

(* Slots 0 .. count-1, in the order of the slots.                          *)
Filled(r) == [i \in 1 .. r.count |-> r.buf[i - 1]]

(* The order in which a chart is drawn.                                    *)
OldToNew(r, size) ==
  LET start == IF r.count < size THEN 0 ELSE r.head
  IN  [i \in 1 .. r.count |-> r.buf[(start + i - 1) % size]]

(* my_gui_get_average: what the four values are averages of.               *)
Avg60 == Filled(history)
Avg30 == Newest(history, Recent, HISTORY_BUCKETS)
Avg24h == Newest(history_hour, HOUR_HISTORY, HOUR_HISTORY)
Avg12h == Newest(history_hour, RecentHours, HOUR_HISTORY)

-----------------------------------------------------------------------------
history_init ==
  /\ history = EmptyRing(HISTORY_BUCKETS)
  /\ history_hour = EmptyRing(HOUR_HISTORY)
  /\ sensor_data_count_min = 0
  /\ samples = 0

(* Mutant: an off-by-one in the test for a full hour.                      *)
HourIsOver_Late == sensor_data_count_min > HourSamples

HourIsOver == sensor_data_count_min >= HourSamples

(* The history part of apply_avg_to_gui: the hour average is made before    *)
(* the new minute average is pushed.                                       *)
HistoryPush ==
  /\ samples < MaxSamples
  /\ samples' = samples + 1
  /\ history_hour' = IF HourIsOver THEN Push(history_hour, Filled(history), HOUR_HISTORY)
                                   ELSE history_hour
  /\ sensor_data_count_min' = IF HourIsOver THEN 1 ELSE sensor_data_count_min + 1
  /\ history' = Push(history, samples', HISTORY_BUCKETS)

-----------------------------------------------------------------------------
Elements(s) == {s[i] : i \in DOMAIN s}

(* The minute averages of the screen are of exactly the newest minutes,     *)
(* however often the ring has wrapped.                                     *)
MinuteAveragesAreNewest ==
  LET n == Lesser(samples, HISTORY_BUCKETS)
  IN  /\ Len(Avg60) = n /\ Elements(Avg60) = samples - n + 1 .. samples
      /\ Avg30 = [i \in 1 .. Lesser(n, Recent) |-> samples - i + 1]

(* The hour averages are of whole hours that adjoin: every minute is in     *)
(* exactly one of them, and the screen averages over the newest hours.     *)
Hour(h) == (h - 1) * HourSamples + 1 .. h * HourSamples

HourAveragesAdjoin ==
  LET hours == IF samples = 0 THEN 0 ELSE (samples - 1) \div HourSamples
      NewestHours(avg, k) ==
        /\ Len(avg) = Lesser(hours, k)
        /\ \A i \in DOMAIN avg : /\ Elements(avg[i]) = Hour(hours - i + 1)
                                 /\ Len(avg[i]) = HourSamples
  IN  NewestHours(Avg24h, HOUR_HISTORY) /\ NewestHours(Avg12h, RecentHours)
=============================================================================
