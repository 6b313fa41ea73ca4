---------------------------- MODULE EnvPipeline ----------------------------
(***************************************************************************)
(* The reporting pipeline: sensor_data_get_task puts raw samples on        *)
(* EnvSampleQueue, data_process_task accumulates them and closes a period  *)
(* with one average, which goes to ReportQueue (read by lora_task and, in  *)
(* its RUN phase, by mqtt_task) and to the one-place LV_RXDataQueue (read  *)
(* by my_gui_task).                                                        *)
(*                                                                         *)
(* Time is a tick per sensor loop.  Tick differences are taken from the    *)
(* last period start, so the model keeps the difference itself; it stops   *)
(* counting at Period, beyond which the code only tests >=.                *)
(***************************************************************************)
EXTENDS Naturals, Sequences, SequencesExt

CONSTANTS
  Samples,       \* env_sample_t values: [err, val, wet]
  EnvLen,        \* length of EnvSampleQueue (8)
  ReportLen,     \* length of ReportQueue (2)
  Period,        \* DATA_PROCESS_PERIOD_MS in sensor loops (120)
  MaxPeriods     \* bound: number of averages computed in a behaviour

Channels == {"temp", "humi", "co2", "co"}

(* The read_error bit that excludes a channel, and its fixed-point scale.  *)
SensorOf == [temp |-> "DHT11", humi |-> "DHT11", co2 |-> "MQ135", co |-> "MQ7"]
Scale    == [temp |-> 10, humi |-> 10, co2 |-> 1, co |-> 1]

ASSUME PipelineAssumption ==
  /\ IsFiniteSet(Samples)
  \* The fields are bytes (temp, humi) and halfwords (co2, co).
  /\ \A s \in Samples : /\ s.val \in [Channels -> Nat]
                        /\ \A c \in Channels : Scale[c] * s.val[c] <= 65535
  /\ {EnvLen, ReportLen, Period, MaxPeriods} \subseteq Nat \ {0}

VARIABLES
  envq,        \* EnvSampleQueue
  awake,       \* sensor_data_get_task has slept since its last sample
  dpc,         \* where data_process_task is
  elapsed,     \* ticks since period_start
  waited,      \* ticks it has been blocked in xQueueReceive
  acc,         \* its accumulators, with two history fields
  avg,         \* the average being delivered, << >> for none
  closed,      \* history: number of averages computed
  reportq,     \* ReportQueue
  lv,          \* LV_RXDataQueue, a sequence of length at most 1
  lora_ready,  \* what ATK_MW1278D_Init returned at boot: 0 if the radio is there
  shown,       \* history: number of the average the GUI shows, 0 for none
  loraSent, mqttSent, mqttLost, dropped  \* history: where averages went

vars == <<envq, awake, dpc, elapsed, waited, acc, avg, closed, reportq, lv,
          lora_ready, shown, loraSent, mqttSent, mqttLost, dropped>>
outVars == <<lora_ready, shown, loraSent, mqttSent, mqttLost>>

(* The accumulators at the start of a period; `from' is history: the        *)
(* samples received.                                                       *)
Zero == [sum |-> [c \in Channels |-> 0], wet |-> 0, cnt |-> 0, last_err |-> {},
         from |-> {}]

Init ==
  /\ envq = << >> /\ awake = TRUE
  /\ dpc = "receive" /\ elapsed = 0 /\ waited = 0
  /\ acc = Zero /\ avg = << >> /\ closed = 0
  /\ reportq = << >> /\ lv = << >>
  /\ lora_ready \in 0 .. 1 /\ shown = 0
  /\ loraSent = {} /\ mqttSent = {} /\ mqttLost = {} /\ dropped = {}

-----------------------------------------------------------------------------
(* vTaskDelay(500) of the sensor task, as the rest of the system sees it.  *)
Tick ==
  /\ awake' = TRUE
  /\ elapsed' = IF elapsed < Period THEN elapsed + 1 ELSE elapsed
  /\ waited' = IF dpc = "receive" /\ waited < Period THEN waited + 1 ELSE waited
  /\ UNCHANGED <<envq, dpc, acc, avg, closed, reportq, lv, outVars, dropped>>

(* One sample per loop, xQueueSend with timeout 0: dropped on a full queue. *)
SensorSample ==
  /\ awake /\ awake' = FALSE
  /\ \E s \in Samples :
       envq' = IF Len(envq) < EnvLen THEN Append(envq, s) ELSE envq
  /\ UNCHANGED <<dpc, elapsed, waited, acc, avg, closed, reportq, lv, outVars, dropped>>

-----------------------------------------------------------------------------
Accumulate(s) ==
  [acc EXCEPT !.sum = [c \in Channels |->
                         IF SensorOf[c] \in s.err THEN @[c]
                                                  ELSE @[c] + Scale[c] * s.val[c]],
              !.wet = IF s.wet /\ "FC37" \notin s.err THEN @ + 1 ELSE @,
              !.cnt = @ + 1, !.last_err = s.err, !.from = @ \cup {s}]

(* data_process_task, blocked in xQueueReceive: a sample, or the timeout.  *)
Receive ==
  /\ dpc = "receive" /\ envq # << >>
  /\ acc' = Accumulate(Head(envq))
  /\ envq' = Tail(envq)
  /\ dpc' = "check" /\ waited' = 0
  /\ UNCHANGED <<awake, elapsed, avg, closed, reportq, lv, outVars, dropped>>

ReceiveTimeout ==
  /\ dpc = "receive" /\ envq = << >> /\ waited = Period
  /\ dpc' = "check" /\ waited' = 0
  /\ UNCHANGED <<envq, awake, elapsed, acc, avg, closed, reportq, lv,
                 outVars, dropped>>

(* The average of a period; its number and `from' are history.             *)
Average ==
  [id       |-> closed + 1,
   err_bits |-> acc.last_err,
   val      |-> [c \in Channels |-> (acc.sum[c] \div acc.cnt) % 65536],
   sample_count |-> acc.cnt,
   rain_flag    |-> acc.wet * 10 >= acc.cnt * 3,
   from     |-> acc.from]

(* Mutant: only the counter is cleared.                                    *)
Cleared_CountOnly == [acc EXCEPT !.cnt = 0, !.from = {}]

(* Mutant: the counter is not cleared.                                     *)
Cleared_KeepCount == [Zero EXCEPT !.cnt = acc.cnt, !.last_err = acc.last_err]

(* last_err is not cleared between periods.                                *)
Cleared == [Zero EXCEPT !.last_err = acc.last_err]

(* Period test.  period_start becomes the time read here; the accumulators  *)
(* are cleared below, after the delivery.                                  *)
NotYet ==
  /\ dpc = "check" /\ elapsed < Period
  /\ dpc' = "receive"
  /\ UNCHANGED <<envq, awake, elapsed, waited, acc, avg, closed, reportq, lv,
                 outVars, dropped>>

SkipPeriod ==
  /\ dpc = "check" /\ elapsed = Period /\ acc.cnt = 0
  /\ acc' = Cleared
  /\ dpc' = "receive" /\ elapsed' = 0
  /\ UNCHANGED <<envq, awake, waited, avg, closed, reportq, lv, outVars, dropped>>

ClosePeriod ==
  /\ dpc = "check" /\ elapsed = Period /\ acc.cnt > 0
  /\ closed < MaxPeriods
  /\ avg' = Average
  /\ closed' = closed + 1
  /\ dpc' = "report" /\ elapsed' = 0
  /\ UNCHANGED <<envq, awake, waited, acc, reportq, lv, outVars, dropped>>

(* Mutant: the oldest average makes room when ReportQueue is full.         *)
SendReport_DropOldest ==
  /\ dpc = "report"
  /\ reportq' = Append(IF Len(reportq) = ReportLen THEN Tail(reportq) ELSE reportq, avg)
  /\ dpc' = "overwrite"
  /\ UNCHANGED <<envq, awake, elapsed, waited, acc, avg, closed, lv, outVars, dropped>>

(* xQueueSend to ReportQueue with a 100 ms timeout ...                     *)
SendReport ==
  /\ dpc = "report"
  /\ \/ /\ Len(reportq) < ReportLen
        /\ reportq' = Append(reportq, avg)
        /\ UNCHANGED dropped
     \/ /\ Len(reportq) = ReportLen
        /\ dropped' = dropped \cup {avg.id}
        /\ UNCHANGED reportq
  /\ dpc' = "overwrite"
  /\ UNCHANGED <<envq, awake, elapsed, waited, acc, avg, closed, lv, outVars>>

(* Mutant: LV_RXDataQueue takes more than one average.                     *)
OverwriteLv_Append ==
  /\ dpc = "overwrite"
  /\ lv' = Append(lv, avg)
  /\ acc' = Cleared /\ avg' = << >>
  /\ dpc' = "receive"
  /\ UNCHANGED <<envq, awake, elapsed, waited, closed, reportq, outVars, dropped>>

(* Mutant: xQueueSend in place of xQueueOverwrite.                         *)
OverwriteLv_Send ==
  /\ dpc = "overwrite"
  /\ lv' = IF lv = << >> THEN <<avg>> ELSE lv
  /\ acc' = Cleared /\ avg' = << >>
  /\ dpc' = "receive"
  /\ UNCHANGED <<envq, awake, elapsed, waited, closed, reportq, outVars, dropped>>

(* ... then xQueueOverwrite for the GUI, then the accumulators are cleared. *)
OverwriteLv ==
  /\ dpc = "overwrite"
  /\ lv' = <<avg>>
  /\ acc' = Cleared /\ avg' = << >>
  /\ dpc' = "receive"
  /\ UNCHANGED <<envq, awake, elapsed, waited, closed, reportq, outVars, dropped>>

data_process_task == \/ Receive \/ ReceiveTimeout \/ NotYet \/ SkipPeriod
                     \/ ClosePeriod \/ SendReport \/ OverwriteLv

-----------------------------------------------------------------------------
(* Mutant: lora_task deletes itself when the radio is there.                *)
LoraRuns_Inverted == lora_ready # 0

(* lora_task deletes itself at its start when the radio was not found.      *)
LoraRuns == lora_ready = 0

(* lora_task: xQueueReceive with timeout 0, frame and send.                *)
LoraReport ==
  /\ LoraRuns /\ reportq # << >>
  /\ reportq' = Tail(reportq)
  /\ loraSent' = loraSent \cup {Head(reportq).id}
  /\ UNCHANGED <<envq, awake, dpc, elapsed, waited, acc, avg, closed, lv,
                 lora_ready, shown, mqttSent, mqttLost, dropped>>

(* mqtt_task in RUN: receive and mqtt_publish; a failed publish is printed *)
(* and the average is gone.  Module MqttSession has the phases; here the   *)
(* task may be in RUN at any time, or never.                               *)
MqttReport ==
  /\ reportq # << >>
  /\ reportq' = Tail(reportq)
  /\ \/ mqttSent' = mqttSent \cup {Head(reportq).id} /\ UNCHANGED mqttLost
     \/ mqttLost' = mqttLost \cup {Head(reportq).id} /\ UNCHANGED mqttSent
  /\ UNCHANGED <<envq, awake, dpc, elapsed, waited, acc, avg, closed, lv,
                 lora_ready, shown, loraSent, dropped>>

(* my_gui_pump_rx_queue.                                                   *)
PumpRxQueue ==
  /\ lv # << >>
  /\ lv' = << >>
  /\ shown' = lv[1].id
  /\ UNCHANGED <<envq, awake, dpc, elapsed, waited, acc, avg, closed, reportq,
                 lora_ready, loraSent, mqttSent, mqttLost, dropped>>

Next == \/ Tick \/ SensorSample \/ data_process_task
        \/ LoraReport \/ MqttReport \/ PumpRxQueue

Spec == Init /\ [][Next]_vars

(* Time passes, the sensor loop samples after every sleep, and no task is   *)
(* starved: every higher priority ends its loop in a delay.  lora_task is  *)
(* one of them if it runs at all; mqtt_task need not be in RUN.            *)
Fairness == /\ WF_vars(Tick) /\ WF_vars(SensorSample)
            /\ WF_vars(data_process_task)
            /\ WF_vars(LoraReport) /\ WF_vars(PumpRxQueue)

FairSpec == Spec /\ Fairness
-----------------------------------------------------------------------------
Averages == [id : 1 .. MaxPeriods, err_bits : SUBSET UNION {s.err : s \in Samples},
             val : [Channels -> 0 .. 65535], sample_count : Nat \ {0},
             rain_flag : BOOLEAN, from : SUBSET Samples]

TypeOK ==
  /\ Len(envq) <= EnvLen /\ Len(reportq) <= ReportLen /\ Len(lv) <= 1
  /\ \A i \in DOMAIN envq : envq[i] \in Samples
  /\ \A i \in DOMAIN reportq : reportq[i] \in Averages
  /\ \A i \in DOMAIN lv : lv[i] \in Averages
  /\ dpc \in {"receive", "check", "report", "overwrite"}
  /\ elapsed \in 0 .. Period /\ waited \in 0 .. Period
  /\ awake \in BOOLEAN /\ lora_ready \in 0 .. 1
  /\ closed \in 0 .. MaxPeriods /\ shown \in 0 .. MaxPeriods

(* Valid readings of a channel in a period, scaled.                        *)
ValidReadings(a, c) ==
  {Scale[c] * s.val[c] : s \in {x \in a.from : SensorOf[c] \notin x.err}}

NeverFailed(a, c) == \A s \in a.from : SensorOf[c] \notin s.err

(* What is reported is grounded in what was measured in that period and     *)
(* nothing else: no average exceeds the largest valid reading of its       *)
(* period, none falls below the smallest unless its sensor failed, and a   *)
(* sensor that only failed reads 0.  No accumulator leaks into the next    *)
(* period, whatever the interleaving with the consumers.                   *)
GroundedAverages ==
  \A a \in Range(reportq) \cup Range(lv) : \A c \in Channels :
    LET valid == ValidReadings(a, c)
    IN  /\ a.val[c] <= Max(valid \cup {0})
        /\ NeverFailed(a, c) => a.val[c] >= Min(valid)

Queued == {reportq[i].id : i \in DOMAIN reportq}

(* Every average computed is in exactly one place: sent over LoRa, handed   *)
(* to MQTT (sent or failed), waiting, dropped on a full queue, or still in *)
(* data_process_task; and the queue hands them out in order.               *)
ReportsAccountedFor ==
  LET held == IF dpc = "report" THEN {closed} ELSE {}
      places == <<loraSent, mqttSent, mqttLost, Queued, dropped, held>>
  IN  /\ UNION Range(places) = 1 .. closed
      /\ \A i, j \in DOMAIN places : i # j => places[i] \cap places[j] = {}
      /\ \A i, j \in DOMAIN reportq : i < j => reportq[i].id < reportq[j].id
      /\ \A i \in DOMAIN reportq :
           \A k \in loraSent \cup mqttSent \cup mqttLost : k < reportq[i].id

(* The GUI never falls behind for good nor goes back: between deliveries    *)
(* its mailbox, or else its screen, has the newest average, even when      *)
(* ReportQueue dropped it.                                                 *)
GuiHasNewest ==
  dpc \in {"receive", "check"} =>
    IF lv = << >> THEN shown = closed ELSE lv[1].id = closed

(* A sample that was counted is reported: an open period is always closed,  *)
(* up to the bound on the number of periods.                               *)
PeriodsClose == acc.cnt > 0 /\ closed < MaxPeriods ~> acc.cnt = 0

(* Every average reaches the screen or is superseded there, with or without *)
(* the radio, and everything ReportQueue accepted leaves it if lora_task   *)
(* runs.  Without the radio only mqtt_task reads ReportQueue, and nothing  *)
(* says that it is ever in RUN.                                            *)
ReportsDelivered ==
  \A k \in 1 .. MaxPeriods :
    /\ closed >= k ~> shown >= k
    /\ lora_ready = 0 /\ k \in Queued ~> k \in loraSent \cup mqttSent \cup mqttLost
=============================================================================
