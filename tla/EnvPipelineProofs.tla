------------------------- MODULE EnvPipelineProofs --------------------------
(***************************************************************************)
(* Theorems about EnvPipeline, for every set of samples, every queue       *)
(* length, period and number of periods.                                   *)
(***************************************************************************)
EXTENDS EnvPipeline, SequenceFacts, TLAPS

-----------------------------------------------------------------------------
(* The types of the accumulators; what the queues and avg hold.             *)
Errs == UNION {s.err : s \in Samples}

Accs == [sum : [Channels -> Nat], wet : Nat, cnt : Nat, last_err : SUBSET Errs,
         from : SUBSET Samples]

Types ==
  /\ envq \in Seq(Samples) /\ Len(envq) <= EnvLen
  /\ reportq \in Seq(Averages) /\ Len(reportq) <= ReportLen
  /\ lv \in Seq(Averages) /\ Len(lv) <= 1
  /\ acc \in Accs
  /\ dpc \in {"receive", "check", "report", "overwrite"}
  /\ elapsed \in 0 .. Period /\ waited \in 0 .. Period /\ awake \in BOOLEAN
  /\ lora_ready \in 0 .. 1
  /\ closed \in 0 .. MaxPeriods /\ shown \in 0 .. MaxPeriods
  /\ dpc \in {"report", "overwrite"} => avg \in Averages /\ avg.id = closed

(* The constants as numbers.                                                *)
LEMMA Sizes ==
  /\ EnvLen \in Nat \ {0} /\ ReportLen \in Nat \ {0}
  /\ Period \in Nat \ {0} /\ MaxPeriods \in Nat \ {0}
  BY PipelineAssumption

(* A sample counts in every channel whose sensor did not fail.              *)
LEMMA AccumulateFacts ==
  ASSUME NEW s \in Samples, acc \in Accs
  PROVE  LET b == Accumulate(s)
         IN  /\ b \in Accs
             /\ b.cnt = acc.cnt + 1 /\ b.from = acc.from \cup {s}
             /\ \A c \in Channels :
                  /\ Scale[c] * s.val[c] \in Nat
                  /\ b.sum[c] = IF SensorOf[c] \in s.err THEN acc.sum[c]
                                ELSE acc.sum[c] + Scale[c] * s.val[c]
<1> DEFINE x(c) == Scale[c] * s.val[c]
           sum == [c \in Channels |-> IF SensorOf[c] \in s.err THEN acc.sum[c]
                                      ELSE acc.sum[c] + x(c)]
           wet == IF s.wet /\ "FC37" \notin s.err THEN acc.wet + 1 ELSE acc.wet
<1>1. /\ acc.sum \in [Channels -> Nat] /\ acc.wet \in Nat /\ acc.cnt \in Nat
      /\ acc.from \subseteq Samples
  BY DEF Accs
<1>2. \A c \in Channels : Scale[c] \in Nat /\ s.val[c] \in Nat
  BY PipelineAssumption DEF Scale, Channels
<1>3. \A c \in Channels : x(c) \in Nat
  BY <1>2
<1> HIDE DEF x
<1>4. sum \in [Channels -> Nat] /\ wet \in Nat /\ acc.cnt + 1 \in Nat
  BY <1>1, <1>3
<1>5. s.err \in SUBSET Errs /\ acc.from \cup {s} \in SUBSET Samples
  BY <1>1 DEF Errs
<1>6. Accumulate(s) = [sum |-> sum, wet |-> wet, cnt |-> acc.cnt + 1, last_err |-> s.err,
                       from |-> acc.from \cup {s}]
  <2>1. Accumulate(s) = [acc EXCEPT !.sum = sum, !.wet = wet, !.cnt = acc.cnt + 1,
                                    !.last_err = s.err, !.from = acc.from \cup {s}]
    BY DEF Accumulate, x
  <2> HIDE DEF sum, wet
  <2>2. acc = [sum |-> acc.sum, wet |-> acc.wet, cnt |-> acc.cnt, last_err |-> acc.last_err,
               from |-> acc.from]
    BY DEF Accs
  <2>3. QED
    BY <2>1, <2>2
<1> HIDE DEF sum, wet
<1>7. Accumulate(s) \in Accs
  BY <1>4, <1>5, <1>6 DEF Accs
<1>8. QED
  BY <1>3, <1>6, <1>7 DEF sum, x

(* The two empty accumulators, at boot and after an average.                *)
LEMMA ClearedFacts ==
  ASSUME acc \in Accs
  PROVE  /\ Zero \in Accs /\ Cleared \in Accs
         /\ \A b \in {Zero, Cleared} :
              b.cnt = 0 /\ b.from = {} /\ \A c \in Channels : b.sum[c] = 0
  BY DEF Accs, Zero, Cleared

(* The conversion of an average to a halfword.                              *)
Halfword == 0 .. 65535
Low16(x) == x % 65536

(* The cut to 16 bits never makes a number larger.                          *)
LEMMA HalfwordFacts ==
  ASSUME NEW x \in Nat
  PROVE  Low16(x) \in Halfword /\ Low16(x) <= x /\ (x <= 65535 => Low16(x) = x)
<1>1. Low16(x) \in Halfword
  BY DEF Low16, Halfword
<1>2. ASSUME x <= 65535 PROVE x % 65536 = x
  BY <1>2
<1>3. Low16(x) <= x
  BY DEF Low16
<1>4. ASSUME x <= 65535 PROVE Low16(x) = x
  BY <1>2, <1>4 DEF Low16
<1>5. QED
  BY <1>1, <1>3, <1>4

(* Averages as a set of records.                                            *)
LEMMA AverageSet ==
  Averages = [id : 1 .. MaxPeriods, err_bits : SUBSET Errs, val : [Channels -> Halfword],
              sample_count : Nat \ {0}, rain_flag : BOOLEAN, from : SUBSET Samples]
  BY DEF Averages, Errs, Halfword

(* The fields of an average.                                                *)
LEMMA AverageFields ==
  ASSUME NEW a \in Averages
  PROVE  a.id \in 1 .. MaxPeriods /\ a.val \in [Channels -> Halfword] /\ a.from \subseteq Samples
<1> DEFINE Ids == 1 .. MaxPeriods
           Counts == Nat \ {0}
           Vals == [Channels -> Halfword]
           E == SUBSET Errs
           F == SUBSET Samples
<1>1. a \in [id : Ids, err_bits : E, val : Vals, sample_count : Counts,
             rain_flag : BOOLEAN, from : F]
  BY AverageSet
<1> HIDE DEF Ids, Vals, E, F, Counts
<1>2. a.id \in Ids /\ a.val \in Vals /\ a.from \in F
  BY <1>1
<1>3. QED
  BY <1>2 DEF Ids, Vals, F

(* compute_avg makes an average, numbered after the last.                   *)
LEMMA AverageType ==
  ASSUME acc \in Accs, acc.cnt > 0, closed \in 0 .. MaxPeriods, closed < MaxPeriods
  PROVE  Average \in Averages /\ Average.id = closed + 1
<1>1. closed + 1 \in 1 .. MaxPeriods /\ acc.cnt \in Nat \ {0}
  BY Sizes DEF Accs
<1> DEFINE q == [c \in Channels |-> acc.sum[c] \div acc.cnt]
           val == [c \in Channels |-> Low16(q[c])]
           rain == acc.wet * 10 >= acc.cnt * 3
<1>2. \A c \in Channels : q[c] \in Nat
  BY <1>1 DEF Accs
<1>3. val = [c \in Channels |-> (acc.sum[c] \div acc.cnt) % 65536]
  BY DEF Low16
<1> HIDE DEF q
<1>4. val \in [Channels -> Halfword]
  BY <1>2, HalfwordFacts
<1> HIDE DEF val
<1>5. acc.last_err \in SUBSET Errs /\ acc.from \in SUBSET Samples /\ rain \in BOOLEAN
  BY DEF Accs
<1>6. Average = [id |-> closed + 1, err_bits |-> acc.last_err, val |-> val,
                 sample_count |-> acc.cnt, rain_flag |-> rain, from |-> acc.from]
  BY <1>3 DEF Average
<1> HIDE DEF rain
<1>7. Average \in Averages
  <2> DEFINE Ids == 1 .. MaxPeriods
             Counts == Nat \ {0}
             Vals == [Channels -> Halfword]
             E == SUBSET Errs
             F == SUBSET Samples
             n == closed + 1
  <2>1. n \in Ids /\ acc.cnt \in Counts /\ val \in Vals /\ acc.last_err \in E /\ acc.from \in F
    BY <1>1, <1>4, <1>5
  <2>2. Average = [id |-> n, err_bits |-> acc.last_err, val |-> val,
                   sample_count |-> acc.cnt, rain_flag |-> rain, from |-> acc.from]
    BY <1>6
  <2>3. Averages = [id : Ids, err_bits : E, val : Vals, sample_count : Counts,
                    rain_flag : BOOLEAN, from : F]
    BY AverageSet
  <2> HIDE DEF Ids, Counts, Vals, E, F, n
  <2>4. QED
    BY <1>5, <2>1, <2>2, <2>3
<1>8. QED
  BY <1>6, <1>7

-----------------------------------------------------------------------------
(* The initial state has these types.                                       *)
LEMMA TypesInit == Init => Types
<1> SUFFICES ASSUME Init PROVE Types
  OBVIOUS
<1>1. envq \in Seq(Samples) /\ reportq \in Seq(Averages) /\ lv \in Seq(Averages)
      /\ Len(envq) = 0 /\ Len(reportq) = 0 /\ Len(lv) = 0
  BY DEF Init
<1>2. Zero \in Accs
  BY DEF Zero, Accs
<1>3. QED
  BY <1>1, <1>2, Sizes DEF Init, Types

(* Every step keeps these types.                                            *)
LEMMA TypesNext == ASSUME Types, [Next]_vars PROVE Types'
<1>1. /\ envq \in Seq(Samples) /\ Len(envq) <= EnvLen
      /\ reportq \in Seq(Averages) /\ Len(reportq) <= ReportLen
      /\ lv \in Seq(Averages) /\ Len(lv) <= 1
      /\ acc \in Accs /\ closed \in 0 .. MaxPeriods /\ shown \in 0 .. MaxPeriods
      /\ elapsed \in 0 .. Period /\ waited \in 0 .. Period
  BY DEF Types
<1>2. CASE Tick
  <2>1. elapsed' \in 0 .. Period /\ waited' \in 0 .. Period
    BY <1>1, <1>2, Sizes DEF Tick
  <2>2. QED
    BY <1>2, <2>1 DEF Tick, outVars, Types
<1>3. CASE SensorSample
  <2>1. PICK s \in Samples : envq' = IF Len(envq) < EnvLen THEN Append(envq, s) ELSE envq
    BY <1>3 DEF SensorSample
  <2>2. envq' \in Seq(Samples) /\ Len(envq') <= EnvLen
    BY <1>1, <2>1, AppendFacts, Sizes
  <2>3. QED
    BY <1>3, <2>2 DEF SensorSample, outVars, Types
<1>4. CASE Receive
  <2>1. /\ Head(envq) \in Samples /\ envq' \in Seq(Samples) /\ Len(envq') <= EnvLen
    BY <1>1, <1>4, TakeFacts, Sizes DEF Receive
  <2>2. acc' \in Accs
    BY <1>1, <1>4, <2>1, AccumulateFacts DEF Receive
  <2>3. waited' \in 0 .. Period
    BY <1>4, Sizes DEF Receive
  <2>4. QED
    BY <1>4, <2>1, <2>2, <2>3 DEF Receive, outVars, Types
<1>5. CASE ReceiveTimeout
  <2>1. waited' \in 0 .. Period
    BY <1>5, Sizes DEF ReceiveTimeout
  <2>2. QED
    BY <1>5, <2>1 DEF ReceiveTimeout, outVars, Types
<1>6. CASE NotYet
  BY <1>6 DEF NotYet, outVars, Types
<1>7. CASE SkipPeriod
  <2>1. acc' \in Accs /\ elapsed' \in 0 .. Period
    BY <1>1, <1>7, ClearedFacts, Sizes DEF SkipPeriod
  <2>2. QED
    BY <1>7, <2>1 DEF SkipPeriod, outVars, Types
<1>8. CASE ClosePeriod
  <2>1. avg' \in Averages /\ avg'.id = closed'
    BY <1>1, <1>8, AverageType DEF ClosePeriod
  <2>2. elapsed' \in 0 .. Period /\ closed' \in 0 .. MaxPeriods
    BY <1>1, <1>8, Sizes DEF ClosePeriod
  <2>3. QED
    BY <1>8, <2>1, <2>2 DEF ClosePeriod, outVars, Types
<1>9. CASE SendReport
  <2>1. avg \in Averages
    BY <1>9 DEF SendReport, Types
  <2>2. reportq' \in Seq(Averages) /\ Len(reportq') <= ReportLen
    <3>1. CASE Len(reportq) < ReportLen /\ reportq' = Append(reportq, avg)
      <4>1. reportq' \in Seq(Averages) /\ Len(reportq') = Len(reportq) + 1 /\ Len(reportq) \in Nat
        BY <1>1, <2>1, <3>1, AppendFacts
      <4>2. QED
        BY <3>1, <4>1, Sizes
    <3>2. CASE UNCHANGED reportq
      BY <1>1, <3>2
    <3>3. QED
      BY <1>9, <3>1, <3>2 DEF SendReport
  <2>3. QED
    BY <1>9, <2>2 DEF SendReport, outVars, Types
<1>10. CASE OverwriteLv
  <2>1. avg \in Averages
    BY <1>10 DEF OverwriteLv, Types
  <2>2. lv' \in Seq(Averages) /\ Len(lv') <= 1
    BY <1>10, <2>1, OneFacts DEF OverwriteLv
  <2>3. acc' \in Accs
    BY <1>1, <1>10, ClearedFacts DEF OverwriteLv
  <2>4. QED
    BY <1>10, <2>2, <2>3 DEF OverwriteLv, outVars, Types
<1>11. CASE LoraReport \/ MqttReport
  <2>1. reportq' \in Seq(Averages) /\ Len(reportq') <= ReportLen
    <3>1. reportq # << >> /\ reportq' = Tail(reportq)
      BY <1>11 DEF LoraReport, MqttReport
    <3>2. reportq' \in Seq(Averages) /\ Len(reportq') = Len(reportq) - 1 /\ Len(reportq) \in Nat
      BY <1>1, <3>1, TakeFacts
    <3>3. QED
      BY <1>1, <3>2, Sizes
  <2>2. QED
    BY <1>11, <2>1 DEF LoraReport, MqttReport, Types
<1>12. CASE PumpRxQueue
  <2>1. lv[1] \in Averages /\ lv' \in Seq(Averages) /\ Len(lv') <= 1
    BY <1>1, <1>12, TakeFacts DEF PumpRxQueue
  <2>2. shown' \in 0 .. MaxPeriods
    <3>1. lv[1].id \in 1 .. MaxPeriods
      BY <2>1, AverageFields
    <3>2. QED
      BY <1>12, <3>1, Sizes DEF PumpRxQueue
  <2>3. QED
    BY <1>12, <2>1, <2>2 DEF PumpRxQueue, Types
<1>13. CASE UNCHANGED vars
  BY <1>13 DEF vars, outVars, Types
<1>14. QED
  BY <1>2, <1>3, <1>4, <1>5, <1>6, <1>7, <1>8, <1>9, <1>10, <1>11, <1>12, <1>13
     DEF Next, data_process_task

(* Types of every reachable state.                                          *)
LEMMA TypesInvariant == Spec => []Types
<1>1. Types /\ [Next]_vars => Types'
  BY TypesNext
<1>2. QED
  BY <1>1, TypesInit, PTL DEF Spec

(* Queues within their lengths and full of well-formed samples and          *)
(* averages, timers within the period.                                     *)
THEOREM PipelineTypes == Spec => []TypeOK
<1>1. Types => TypeOK
  BY DEF Types, TypeOK
<1>2. QED
  BY <1>1, TypesInvariant, PTL

-----------------------------------------------------------------------------
(* What the GUI holds.  While data_process_task is between closing a period *)
(* and the delivery, the newest average is the one it has in hand.         *)
LEMMA GuiNext ==
  ASSUME Types, Types', GuiHasNewest, [Next]_vars
  PROVE  GuiHasNewest'
<1>1. CASE OverwriteLv
  <2>1. lv' # << >> /\ lv'[1] = avg /\ avg.id = closed /\ closed' = closed
    BY <1>1, OneFacts DEF OverwriteLv, Types
  <2>2. QED
    BY <2>1 DEF GuiHasNewest
<1>2. CASE ClosePeriod \/ SendReport
  BY <1>2 DEF ClosePeriod, SendReport, GuiHasNewest
<1>3. CASE PumpRxQueue
  BY <1>3 DEF PumpRxQueue, GuiHasNewest
<1>4. CASE Tick \/ SensorSample \/ Receive \/ ReceiveTimeout \/ NotYet \/ SkipPeriod
           \/ LoraReport \/ MqttReport \/ UNCHANGED vars
  <2>1. UNCHANGED <<lv, shown, closed>>
    BY <1>4 DEF Tick, SensorSample, Receive, ReceiveTimeout, NotYet, SkipPeriod,
                LoraReport, MqttReport, vars, outVars
  <2>2. dpc' \in {"receive", "check"} => dpc \in {"receive", "check"}
    BY <1>4 DEF Tick, SensorSample, Receive, ReceiveTimeout, NotYet, SkipPeriod,
                LoraReport, MqttReport, vars
  <2>3. QED
    BY <2>1, <2>2 DEF GuiHasNewest
<1>5. QED
  BY <1>1, <1>2, <1>3, <1>4 DEF Next, data_process_task

(* Between deliveries the mailbox, or else the screen, has the newest       *)
(* average, even one that ReportQueue dropped.                             *)
THEOREM GuiNewest == Spec => []GuiHasNewest
<1>1. Init => GuiHasNewest
  BY DEF Init, GuiHasNewest
<1>2. Types /\ Types' /\ GuiHasNewest /\ [Next]_vars => GuiHasNewest'
  BY GuiNext
<1>3. QED
  BY <1>1, <1>2, TypesInvariant, PTL DEF Spec

-----------------------------------------------------------------------------
(* Where the averages are: six disjoint sets that make up 1 .. n.           *)
Parts(a, b, c, d, e, f, n) ==
  /\ a \cup b \cup c \cup d \cup e \cup f = 1 .. n
  /\ a \cap (b \cup c \cup d \cup e \cup f) = {}
  /\ b \cap (c \cup d \cup e \cup f) = {}
  /\ c \cap (d \cup e \cup f) = {}
  /\ d \cap (e \cup f) = {}
  /\ e \cap f = {}

(* A report that leaves the queue changes its place, as does the average in *)
(* hand; an average that is new has a place of its own.                    *)
LEMMA PartsMove ==
  ASSUME NEW a, NEW b, NEW c, NEW d, NEW e, NEW f, NEW n \in Nat, Parts(a, b, c, d, e, f, n)
  PROVE  /\ \A h \in d : /\ Parts(a \cup {h}, b, c, d \ {h}, e, f, n)
                         /\ Parts(a, b \cup {h}, c, d \ {h}, e, f, n)
                         /\ Parts(a, b, c \cup {h}, d \ {h}, e, f, n)
         /\ f = {n} => /\ Parts(a, b, c, d \cup {n}, e, {}, n)
                       /\ Parts(a, b, c, d, e \cup {n}, {}, n)
<1> DEFINE S == 1 .. n
<1>1. a \cup b \cup c \cup d \cup e \cup f = S
  BY DEF Parts
<1> HIDE DEF S
<1>2. /\ a \cap (b \cup c \cup d \cup e \cup f) = {}
      /\ b \cap (c \cup d \cup e \cup f) = {}
      /\ c \cap (d \cup e \cup f) = {}
      /\ d \cap (e \cup f) = {}
      /\ e \cap f = {}
  BY DEF Parts
<1>3. ASSUME NEW x, NEW y, NEW z, NEW u, NEW v, NEW w,
             x \cup y \cup z \cup u \cup v \cup w = S,
             x \cap (y \cup z \cup u \cup v \cup w) = {}, y \cap (z \cup u \cup v \cup w) = {},
             z \cap (u \cup v \cup w) = {}, u \cap (v \cup w) = {}, v \cap w = {}
      PROVE  Parts(x, y, z, u, v, w, n)
  BY <1>3 DEF Parts, S
<1>4. ASSUME NEW h \in d
      PROVE  /\ Parts(a \cup {h}, b, c, d \ {h}, e, f, n)
             /\ Parts(a, b \cup {h}, c, d \ {h}, e, f, n)
             /\ Parts(a, b, c \cup {h}, d \ {h}, e, f, n)
  <2>1. h \in S /\ h \notin a /\ h \notin b /\ h \notin c /\ h \notin e /\ h \notin f
    BY <1>1, <1>2
  <2>2. Parts(a \cup {h}, b, c, d \ {h}, e, f, n)
    BY <1>1, <1>2, <1>3, <2>1
  <2>3. Parts(a, b \cup {h}, c, d \ {h}, e, f, n)
    BY <1>1, <1>2, <1>3, <2>1
  <2>4. Parts(a, b, c \cup {h}, d \ {h}, e, f, n)
    BY <1>1, <1>2, <1>3, <2>1
  <2>5. QED
    BY <2>2, <2>3, <2>4
<1>5. ASSUME f = {n}
      PROVE  Parts(a, b, c, d \cup {n}, e, {}, n) /\ Parts(a, b, c, d, e \cup {n}, {}, n)
  <2>1. Parts(a, b, c, d \cup {n}, e, {}, n)
    BY <1>1, <1>2, <1>3, <1>5
  <2>2. Parts(a, b, c, d, e \cup {n}, {}, n)
    BY <1>1, <1>2, <1>3, <1>5
  <2>3. QED
    BY <2>1, <2>2
<1>6. QED
  BY <1>4, <1>5

(* The newest report has no place yet.                                      *)
LEMMA PartsNew ==
  ASSUME NEW a, NEW b, NEW c, NEW d, NEW e, NEW n \in Nat, Parts(a, b, c, d, e, {}, n)
  PROVE  Parts(a, b, c, d, e, {n + 1}, n + 1)
<1>1. 1 .. n + 1 = (1 .. n) \cup {n + 1} /\ n + 1 \notin 1 .. n
  OBVIOUS
<1> DEFINE S == 1 .. n
           T == 1 .. n + 1
           m == n + 1
<1>2. /\ T = S \cup {m} /\ m \notin S
      /\ a \cup b \cup c \cup d \cup e \cup {} = S
      /\ a \cap (b \cup c \cup d \cup e \cup {}) = {}
      /\ b \cap (c \cup d \cup e \cup {}) = {}
      /\ c \cap (d \cup e \cup {}) = {}
      /\ d \cap (e \cup {}) = {}
      /\ Parts(a, b, c, d, e, {m}, m) <=>
           /\ a \cup b \cup c \cup d \cup e \cup {m} = T
           /\ a \cap (b \cup c \cup d \cup e \cup {m}) = {}
           /\ b \cap (c \cup d \cup e \cup {m}) = {}
           /\ c \cap (d \cup e \cup {m}) = {}
           /\ d \cap (e \cup {m}) = {}
           /\ e \cap {m} = {}
  BY <1>1 DEF Parts
<1>3. QED
  <2> HIDE DEF S, T, m
  <2>1. Parts(a, b, c, d, e, {m}, m)
    BY <1>2
  <2>2. QED
    BY <2>1 DEF m

(* The same of the state: the queue is in order and behind everything that  *)
(* was sent.                                                               *)
Held == IF dpc = "report" THEN {closed} ELSE {}

Sorted(q) == \A i, j \in DOMAIN q : i < j => q[i].id < q[j].id
Above(q, S) == \A i \in DOMAIN q : \A k \in S : k < q[i].id
Ids(q) == {q[i].id : i \in DOMAIN q}

Taken == loraSent \cup mqttSent \cup mqttLost

Reports ==
  /\ Parts(loraSent, mqttSent, mqttLost, Ids(reportq), dropped, Held, closed)
  /\ Sorted(reportq) /\ Above(reportq, Taken)

(* The oldest report leaves the queue for one of the sets of what was taken.*)
LEMMA TakeReport ==
  ASSUME Types, reportq # << >>, Sorted(reportq), Above(reportq, Taken),
         reportq' = Tail(reportq),
         NEW h, h = Head(reportq).id, Taken' = Taken \cup {h}
  PROVE  /\ h \in Ids(reportq) /\ Ids(reportq') = Ids(reportq) \ {h}
         /\ Sorted(reportq') /\ Above(reportq', Taken')
<1>1. reportq \in Seq(Averages)
  BY DEF Types
<1>2. /\ 1 \in DOMAIN reportq /\ h = reportq[1].id /\ DOMAIN reportq = 1 .. Len(reportq)
      /\ DOMAIN reportq' = 1 .. Len(reportq) - 1 /\ Len(reportq) \in Nat
      /\ \A i \in DOMAIN reportq' : i + 1 \in DOMAIN reportq /\ reportq'[i] = reportq[i + 1]
  BY <1>1, TakeFacts
<1>3. \A i \in DOMAIN reportq : i = 1 \/ (i - 1 \in DOMAIN reportq' /\ reportq[i] = reportq'[i - 1])
  BY <1>2
<1>4. \A i \in DOMAIN reportq : reportq[i].id \in Nat
  <2> SUFFICES ASSUME NEW i \in DOMAIN reportq PROVE reportq[i].id \in Nat
    OBVIOUS
  <2>1. reportq[i] \in Averages
    BY <1>1
  <2>2. reportq[i].id \in 1 .. MaxPeriods
    BY <2>1, AverageFields
  <2>3. QED
    BY <2>2, Sizes
<1>5. \A i \in DOMAIN reportq' : h < reportq'[i].id
  BY <1>2 DEF Sorted
<1>6. Ids(reportq') = Ids(reportq) \ {h}
  <2>1. ASSUME NEW k \in Ids(reportq') PROVE k \in Ids(reportq) /\ k # h
    BY <1>2, <1>4, <1>5, <2>1 DEF Ids
  <2>2. ASSUME NEW k \in Ids(reportq), k # h PROVE k \in Ids(reportq')
    <3>1. PICK i \in DOMAIN reportq : k = reportq[i].id
      BY DEF Ids
    <3>2. i - 1 \in DOMAIN reportq' /\ reportq'[i - 1].id = k
      BY <1>2, <1>3, <2>2, <3>1
    <3>3. QED
      BY <3>2 DEF Ids
  <2>3. QED
    BY <2>1, <2>2
<1>7. Sorted(reportq')
  BY <1>2 DEF Sorted
<1>8. Above(reportq', Taken')
  BY <1>2, <1>5 DEF Above
<1>9. QED
  BY <1>2, <1>6, <1>7, <1>8 DEF Ids

(* The average in hand is newer than everything in the queue.               *)
LEMMA AddReport ==
  ASSUME Types, Reports, dpc = "report", reportq' = Append(reportq, avg),
         UNCHANGED <<loraSent, mqttSent, mqttLost>>
  PROVE  /\ Ids(reportq') = Ids(reportq) \cup {closed}
         /\ Sorted(reportq') /\ Above(reportq', Taken')
<1>1. reportq \in Seq(Averages) /\ avg \in Averages /\ avg.id = closed /\ closed \in Nat
  BY Sizes DEF Types
<1>2. /\ DOMAIN reportq' = 1 .. Len(reportq) + 1 /\ DOMAIN reportq = 1 .. Len(reportq)
      /\ Len(reportq) \in Nat
      /\ \A i \in DOMAIN reportq : i \in DOMAIN reportq' /\ reportq'[i] = reportq[i]
      /\ Len(reportq) + 1 \in DOMAIN reportq' /\ reportq'[Len(reportq) + 1] = avg
      /\ \A i \in DOMAIN reportq' : i \in DOMAIN reportq \/ i = Len(reportq) + 1
  BY <1>1, AppendFacts
<1>3. /\ Ids(reportq) \subseteq 1 .. closed /\ closed \notin Ids(reportq)
      /\ Taken \subseteq 1 .. closed /\ closed \notin Taken
  <2>1. /\ loraSent \cup mqttSent \cup mqttLost \cup Ids(reportq) \cup dropped \cup {closed} = 1 .. closed
        /\ loraSent \cap {closed} = {} /\ mqttSent \cap {closed} = {} /\ mqttLost \cap {closed} = {}
        /\ Ids(reportq) \cap {closed} = {}
    BY DEF Reports, Parts, Held
  <2> DEFINE S == 1 .. closed
  <2>2. loraSent \cup mqttSent \cup mqttLost \cup Ids(reportq) \cup dropped \cup {closed} = S
    BY <2>1
  <2> HIDE DEF S
  <2>3. Ids(reportq) \subseteq S /\ Taken \subseteq S /\ closed \notin Ids(reportq) /\ closed \notin Taken
    BY <2>1, <2>2 DEF Taken
  <2>4. QED
    BY <2>3 DEF S
<1>4. \A k \in Ids(reportq) \cup Taken : k \in Nat /\ k < closed
  <2> SUFFICES ASSUME NEW k \in Ids(reportq) \cup Taken PROVE k \in Nat /\ k < closed
    OBVIOUS
  <2>1. k \in 1 .. closed /\ k # closed
    BY <1>3
  <2>2. QED
    BY <1>1, <2>1
<1>5. \A i \in DOMAIN reportq : reportq[i].id < closed
  BY <1>4 DEF Ids
<1>6. Sorted(reportq')
  <2> SUFFICES ASSUME NEW i \in DOMAIN reportq', NEW j \in DOMAIN reportq', i < j
               PROVE  reportq'[i].id < reportq'[j].id
    BY DEF Sorted
  <2>1. i \in DOMAIN reportq
    BY <1>2
  <2>2. CASE j \in DOMAIN reportq
    BY <1>2, <2>1, <2>2 DEF Reports, Sorted
  <2>3. CASE j = Len(reportq) + 1
    BY <1>1, <1>2, <1>5, <2>1, <2>3
  <2>4. QED
    BY <1>2, <2>2, <2>3
<1>7. Above(reportq', Taken')
  <2>1. Taken' = Taken
    BY DEF Taken
  <2>2. QED
    BY <1>1, <1>2, <1>4, <2>1 DEF Above, Reports
<1>8. Ids(reportq') = Ids(reportq) \cup {closed}
  BY <1>1, <1>2 DEF Ids
<1>9. QED
  BY <1>6, <1>7, <1>8

(* No report exists at first.                                               *)
LEMMA ReportsInit == Init => Reports
<1> SUFFICES ASSUME Init PROVE Reports
  OBVIOUS
<1>1. Ids(reportq) = {} /\ DOMAIN reportq = {}
  BY DEF Init, Ids
<1>2. Held = {} /\ closed = 0 /\ 1 .. 0 = {}
  BY DEF Init, Held
<1>3. Parts({}, {}, {}, {}, {}, {}, 0)
  BY <1>2 DEF Parts
<1>4. Parts(loraSent, mqttSent, mqttLost, Ids(reportq), dropped, Held, closed)
  BY <1>1, <1>2, <1>3 DEF Init
<1>5. QED
  BY <1>1, <1>4 DEF Reports, Sorted, Above

(* Every step moves a report to one other place or to none.                 *)
LEMMA ReportsNext == ASSUME Types, Reports, [Next]_vars PROVE Reports'
<1>1. closed \in Nat
  BY Sizes DEF Types
<1>2. Parts(loraSent, mqttSent, mqttLost, Ids(reportq), dropped, Held, closed)
  BY DEF Reports
<1>3. CASE LoraReport
  <2> DEFINE h == Head(reportq).id
  <2>1. /\ reportq # << >> /\ reportq' = Tail(reportq) /\ loraSent' = loraSent \cup {h}
        /\ UNCHANGED <<mqttSent, mqttLost, dropped, dpc, closed>>
    BY <1>3 DEF LoraReport
  <2>2. Taken' = Taken \cup {h} /\ Held' = Held
    BY <2>1 DEF Taken, Held
  <2>3. /\ h \in Ids(reportq) /\ Ids(reportq') = Ids(reportq) \ {h}
        /\ Sorted(reportq') /\ Above(reportq', Taken')
    BY <2>1, <2>2, TakeReport DEF Reports
  <2> HIDE DEF h
  <2>4. Parts(loraSent \cup {h}, mqttSent, mqttLost, Ids(reportq) \ {h}, dropped, Held, closed)
    BY <1>1, <1>2, <2>3, PartsMove
  <2>5. QED
    BY <2>1, <2>2, <2>3, <2>4 DEF Reports
<1>4. CASE MqttReport
  <2> DEFINE h == Head(reportq).id
  <2>1. /\ reportq # << >> /\ reportq' = Tail(reportq)
        /\ \/ mqttSent' = mqttSent \cup {h} /\ mqttLost' = mqttLost
           \/ mqttLost' = mqttLost \cup {h} /\ mqttSent' = mqttSent
        /\ UNCHANGED <<loraSent, dropped, dpc, closed>>
    BY <1>4 DEF MqttReport
  <2>2. Taken' = Taken \cup {h} /\ Held' = Held
    BY <2>1 DEF Taken, Held
  <2>3. /\ h \in Ids(reportq) /\ Ids(reportq') = Ids(reportq) \ {h}
        /\ Sorted(reportq') /\ Above(reportq', Taken')
    BY <2>1, <2>2, TakeReport DEF Reports
  <2> HIDE DEF h
  <2>4. /\ Parts(loraSent, mqttSent \cup {h}, mqttLost, Ids(reportq) \ {h}, dropped, Held, closed)
        /\ Parts(loraSent, mqttSent, mqttLost \cup {h}, Ids(reportq) \ {h}, dropped, Held, closed)
    BY <1>1, <1>2, <2>3, PartsMove
  <2>5. QED
    BY <2>1, <2>2, <2>3, <2>4 DEF Reports
<1>5. CASE SendReport
  <2>1. /\ dpc = "report" /\ Held = {closed} /\ Held' = {} /\ Taken' = Taken
        /\ UNCHANGED <<loraSent, mqttSent, mqttLost, closed>>
    BY <1>5 DEF SendReport, Held, Taken, outVars
  <2>2. /\ Parts(loraSent, mqttSent, mqttLost, Ids(reportq) \cup {closed}, dropped, {}, closed)
        /\ Parts(loraSent, mqttSent, mqttLost, Ids(reportq), dropped \cup {closed}, {}, closed)
    BY <1>1, <1>2, <2>1, PartsMove
  <2>3. CASE reportq' = Append(reportq, avg) /\ dropped' = dropped
    BY <2>1, <2>2, <2>3, AddReport DEF Reports
  <2>4. CASE dropped' = dropped \cup {avg.id} /\ reportq' = reportq
    <3>1. avg.id = closed
      BY <2>1 DEF Types
    <3>2. QED
      BY <2>1, <2>2, <2>4, <3>1 DEF Reports
  <2>5. QED
    BY <1>5, <2>3, <2>4 DEF SendReport
<1>6. CASE ClosePeriod
  <2>1. /\ Held = {} /\ Held' = {closed + 1} /\ closed' = closed + 1 /\ Taken' = Taken
        /\ UNCHANGED <<loraSent, mqttSent, mqttLost, reportq, dropped>>
    BY <1>6 DEF ClosePeriod, Held, Taken, outVars
  <2>2. Parts(loraSent, mqttSent, mqttLost, Ids(reportq), dropped, {closed + 1}, closed + 1)
    BY <1>1, <1>2, <2>1, PartsNew
  <2>3. QED
    BY <2>1, <2>2 DEF Reports
<1>7. CASE Tick \/ SensorSample \/ Receive \/ ReceiveTimeout \/ NotYet \/ SkipPeriod
           \/ OverwriteLv \/ PumpRxQueue \/ UNCHANGED vars
  <2>1. UNCHANGED <<loraSent, mqttSent, mqttLost, reportq, dropped, closed>>
    BY <1>7 DEF Tick, SensorSample, Receive, ReceiveTimeout, NotYet, SkipPeriod,
                OverwriteLv, PumpRxQueue, vars, outVars
  <2>2. dpc' = "report" <=> dpc = "report"
    BY <1>7 DEF Tick, SensorSample, Receive, ReceiveTimeout, NotYet, SkipPeriod,
                OverwriteLv, PumpRxQueue, vars
  <2>3. Held' = Held /\ Taken' = Taken
    BY <2>1, <2>2 DEF Held, Taken
  <2>4. QED
    BY <2>1, <2>3 DEF Reports
<1>8. QED
  BY <1>3, <1>4, <1>5, <1>6, <1>7 DEF Next, data_process_task

(* Every average computed is in exactly one place, and the queue hands them *)
(* out in order.                                                           *)
THEOREM ReportsAccounted == Spec => []ReportsAccountedFor
<1>1. Types /\ Reports /\ [Next]_vars => Reports'
  BY ReportsNext
<1>2. Reports => ReportsAccountedFor
  <2> SUFFICES ASSUME Reports PROVE ReportsAccountedFor
    OBVIOUS
  <2> DEFINE places == <<loraSent, mqttSent, mqttLost, Queued, dropped, Held>>
  <2>1. Queued = Ids(reportq)
    BY DEF Queued, Ids
  <2>2. Parts(loraSent, mqttSent, mqttLost, Queued, dropped, Held, closed)
    BY <2>1 DEF Reports
  <2>3. DOMAIN places = 1 .. 6
    OBVIOUS
  <2>4. UNION Range(places) = 1 .. closed
    <3>1. UNION Range(places)
            = loraSent \cup mqttSent \cup mqttLost \cup Queued \cup dropped \cup Held
      BY <2>3 DEF Range
    <3>2. QED
      BY <2>2, <3>1 DEF Parts
  <2>5. \A i, j \in 1 .. 6 : i # j => places[i] \cap places[j] = {}
    BY <2>2 DEF Parts
  <2>6. QED
    BY <2>3, <2>4, <2>5 DEF Reports, Sorted, Above, Taken, Held, ReportsAccountedFor
<1>3. QED
  BY <1>1, <1>2, ReportsInit, TypesInvariant, PTL DEF Spec

-----------------------------------------------------------------------------
(* What is reported is grounded in what was measured: a bound on the valid  *)
(* readings of a period bounds its sums and averages.                      *)
Reading(s, c) == Scale[c] * s.val[c]
Valid(s, c) == SensorOf[c] \notin s.err

AtMost(from, c, m) == \A s \in from : Valid(s, c) => Reading(s, c) <= m
AtLeast(from, c, m) == \A s \in from : Valid(s, c) /\ Reading(s, c) >= m

SumGrounded(b) ==
  /\ b.cnt > 0 => b.from # {}
  /\ \A c \in Channels, m \in Nat :
       /\ AtMost(b.from, c, m) => b.sum[c] <= b.cnt * m
       /\ AtLeast(b.from, c, m) => b.sum[c] >= b.cnt * m

ValGrounded(a) ==
  /\ a.from # {}
  /\ \A c \in Channels, m \in Nat :
       /\ AtMost(a.from, c, m) => a.val[c] <= m
       /\ AtLeast(a.from, c, m) => a.val[c] >= m

Grounded ==
  /\ SumGrounded(acc)
  /\ dpc \in {"report", "overwrite"} => ValGrounded(avg)
  /\ \A i \in DOMAIN reportq : ValGrounded(reportq[i])
  /\ \A i \in DOMAIN lv : ValGrounded(lv[i])

(* Readings are halfwords.                                                  *)
LEMMA ReadingFacts ==
  ASSUME NEW s \in Samples, NEW c \in Channels
  PROVE  Reading(s, c) \in Nat /\ Reading(s, c) <= 65535
<1>1. Scale[c] \in Nat /\ s.val[c] \in Nat /\ Scale[c] * s.val[c] <= 65535
  BY PipelineAssumption DEF Scale, Channels
<1>2. QED
  BY <1>1 DEF Reading

(* A sample adds to the sums what its sensors read, within the bounds of    *)
(* a sum.                                                                   *)
LEMMA SumStep ==
  ASSUME NEW s \in Samples, acc \in Accs, SumGrounded(acc)
  PROVE  SumGrounded(Accumulate(s))
<1> DEFINE b == Accumulate(s)
<1>1. /\ b \in Accs /\ acc.cnt \in Nat /\ b.cnt = acc.cnt + 1 /\ b.from = acc.from \cup {s}
      /\ \A c \in Channels :
           /\ acc.sum[c] \in Nat
           /\ b.sum[c] = IF Valid(s, c) THEN acc.sum[c] + Reading(s, c) ELSE acc.sum[c]
  <2>1. acc.cnt \in Nat /\ \A c \in Channels : acc.sum[c] \in Nat
    BY DEF Accs
  <2>2. QED
    BY <2>1, AccumulateFacts DEF Valid, Reading
<1> HIDE DEF b
<1>2. ASSUME NEW c \in Channels, NEW m \in Nat, AtMost(b.from, c, m)
      PROVE  b.sum[c] <= b.cnt * m
  <2>1. AtMost(acc.from, c, m) /\ (Valid(s, c) => Reading(s, c) <= m)
    BY <1>1, <1>2 DEF AtMost
  <2>2. acc.sum[c] <= acc.cnt * m
    BY <2>1 DEF SumGrounded
  <2>3. Reading(s, c) \in Nat
    BY ReadingFacts
  <2>4. acc.cnt * m \in Nat /\ (acc.cnt + 1) * m = acc.cnt * m + m
    BY <1>1
  <2>5. CASE Valid(s, c)
    <3>1. b.sum[c] = acc.sum[c] + Reading(s, c) /\ b.cnt * m = acc.cnt * m + m
      BY <1>1, <2>4, <2>5
    <3>2. QED
      BY <1>1, <2>1, <2>2, <2>3, <2>4, <2>5, <3>1
  <2>6. CASE ~Valid(s, c)
    <3>1. b.sum[c] = acc.sum[c] /\ b.cnt * m = acc.cnt * m + m
      BY <1>1, <2>4, <2>6
    <3>2. QED
      BY <1>1, <2>2, <2>4, <3>1
  <2>7. QED
    BY <2>5, <2>6
<1>3. ASSUME NEW c \in Channels, NEW m \in Nat, AtLeast(b.from, c, m)
      PROVE  b.sum[c] >= b.cnt * m
  <2>1. AtLeast(acc.from, c, m) /\ Valid(s, c) /\ Reading(s, c) >= m
    BY <1>1, <1>3 DEF AtLeast
  <2>2. acc.sum[c] >= acc.cnt * m
    BY <2>1 DEF SumGrounded
  <2>3. Reading(s, c) \in Nat
    BY ReadingFacts
  <2>4. acc.cnt * m \in Nat /\ (acc.cnt + 1) * m = acc.cnt * m + m
    BY <1>1
  <2>5. b.sum[c] = acc.sum[c] + Reading(s, c) /\ b.cnt * m = acc.cnt * m + m
    BY <1>1, <2>1, <2>4
  <2>6. QED
    BY <1>1, <2>1, <2>2, <2>3, <2>4, <2>5
<1>4. b.from # {}
  BY <1>1
<1>5. SumGrounded(b)
  BY <1>2, <1>3, <1>4 DEF SumGrounded
<1>6. QED
  BY <1>5 DEF b

(* A quotient lies between the bounds of its sum.                           *)
LEMMA QuotientFacts ==
  ASSUME NEW n \in Nat \ {0}, NEW t \in Nat, NEW m \in Nat
  PROVE  /\ t \div n \in Nat
         /\ t <= n * m => t \div n <= m
         /\ t >= n * m => t \div n >= m
<1> DEFINE q == t \div n
<1>1. q \in Nat /\ n * q <= t /\ t < n * q + n
  OBVIOUS
<1> HIDE DEF q
<1>2. ASSUME t <= n * m PROVE q <= m
  <2> SUFFICES ASSUME q > m PROVE FALSE
    BY <1>1
  <2>1. PICK k \in Nat : q = m + 1 + k
    BY <1>1
  <2>2. n * q = n * m + n + n * k /\ n * k \in Nat /\ n * m \in Nat
    BY <2>1
  <2>3. QED
    BY <1>1, <1>2, <2>2
<1>3. ASSUME t >= n * m PROVE q >= m
  <2> SUFFICES ASSUME q < m PROVE FALSE
    BY <1>1
  <2>1. PICK k \in Nat : m = q + 1 + k
    BY <1>1
  <2>2. n * m = n * q + n + n * k /\ n * k \in Nat /\ n * q \in Nat
    BY <1>1, <2>1
  <2>3. QED
    BY <1>1, <1>3, <2>2
<1>4. QED
  BY <1>1, <1>2, <1>3 DEF q

(* The average of grounded sums is grounded.                                *)
LEMMA AverageGrounded ==
  ASSUME acc \in Accs, acc.cnt > 0, SumGrounded(acc)
  PROVE  ValGrounded(Average)
<1>1. /\ acc.cnt \in Nat \ {0} /\ acc.from \subseteq Samples /\ acc.from # {}
      /\ \A c \in Channels : acc.sum[c] \in Nat
  BY DEF Accs, SumGrounded
<1>2. /\ Average.from = acc.from
      /\ \A c \in Channels : Average.val[c] = Low16(acc.sum[c] \div acc.cnt)
  BY DEF Average, Low16
<1>3. ASSUME NEW c \in Channels
      PROVE  /\ Average.val[c] = acc.sum[c] \div acc.cnt
             /\ acc.sum[c] \div acc.cnt \in Nat
  <2> DEFINE n == acc.cnt
             t == acc.sum[c]
             q == t \div n
  <2>1. AtMost(acc.from, c, 65535)
    BY <1>1, ReadingFacts DEF AtMost
  <2>2. t <= n * 65535
    BY <2>1 DEF SumGrounded
  <2>3. n \in Nat \ {0} /\ t \in Nat /\ 65535 \in Nat
    BY <1>1
  <2>4. q \in Nat /\ q <= 65535
    <3> HIDE DEF n, t
    <3>1. QED
      BY <2>2, <2>3, QuotientFacts
  <2>5. Average.val[c] = Low16(q)
    BY <1>2
  <2> HIDE DEF q
  <2>6. Average.val[c] = q /\ q \in Nat
    BY <2>4, <2>5, HalfwordFacts
  <2>7. QED
    BY <2>6 DEF q
<1>4. ASSUME NEW c \in Channels, NEW m \in Nat, AtMost(acc.from, c, m)
      PROVE  Average.val[c] <= m
  <2>1. acc.sum[c] <= acc.cnt * m
    BY <1>4 DEF SumGrounded
  <2>2. acc.sum[c] \div acc.cnt <= m
    BY <1>1, <2>1, QuotientFacts
  <2>3. QED
    BY <1>3, <2>2
<1>5. ASSUME NEW c \in Channels, NEW m \in Nat, AtLeast(acc.from, c, m)
      PROVE  Average.val[c] >= m
  <2>1. acc.sum[c] >= acc.cnt * m
    BY <1>5 DEF SumGrounded
  <2>2. acc.sum[c] \div acc.cnt >= m
    BY <1>1, <2>1, QuotientFacts
  <2>3. QED
    BY <1>3, <2>2
<1>6. QED
  BY <1>1, <1>2, <1>4, <1>5 DEF ValGrounded

(* Empty sums are grounded.                                                 *)
LEMMA ClearedGrounded ==
  ASSUME acc \in Accs
  PROVE  SumGrounded(Zero) /\ SumGrounded(Cleared)
<1> SUFFICES ASSUME NEW b \in {Zero, Cleared} PROVE SumGrounded(b)
  OBVIOUS
<1>1. b.cnt = 0 /\ \A c \in Channels : b.sum[c] = 0
  BY DEF Zero, Cleared
<1>2. \A m \in Nat : 0 * m = 0
  OBVIOUS
<1>3. QED
  BY <1>1, <1>2 DEF SumGrounded

(* All averages are grounded at first: there are none.                      *)
LEMMA GroundedInit == Init => Grounded
<1> SUFFICES ASSUME Init PROVE Grounded
  OBVIOUS
<1>1. acc \in Accs /\ acc = Zero
  BY TypesInit DEF Init, Types
<1>2. SumGrounded(acc)
  BY <1>1, ClearedGrounded
<1>3. DOMAIN reportq = {} /\ DOMAIN lv = {}
  BY DEF Init
<1>4. QED
  BY <1>2, <1>3 DEF Init, Grounded

(* Every step keeps sums and averages grounded.                             *)
LEMMA GroundedNext == ASSUME Types, Grounded, [Next]_vars PROVE Grounded'
<1>1. acc \in Accs /\ reportq \in Seq(Averages) /\ lv \in Seq(Averages) /\ envq \in Seq(Samples)
  BY DEF Types
<1>2. CASE Receive
  <2>1. Head(envq) \in Samples
    BY <1>1, <1>2, TakeFacts DEF Receive
  <2>2. SumGrounded(acc')
    BY <1>1, <1>2, <2>1, SumStep DEF Receive, Grounded
  <2>3. dpc' = "check" /\ UNCHANGED <<reportq, lv>>
    BY <1>2 DEF Receive
  <2>4. QED
    BY <2>2, <2>3 DEF Grounded, SumGrounded
<1>3. CASE SkipPeriod
  <2>1. SumGrounded(acc') /\ dpc' = "receive" /\ UNCHANGED <<reportq, lv>>
    BY <1>1, <1>3, ClearedGrounded DEF SkipPeriod
  <2>2. QED
    BY <2>1 DEF Grounded, SumGrounded
<1>4. CASE ClosePeriod
  <2>1. ValGrounded(avg') /\ UNCHANGED <<acc, reportq, lv>>
    BY <1>1, <1>4, AverageGrounded DEF ClosePeriod, Grounded
  <2>2. QED
    BY <2>1 DEF Grounded, SumGrounded, ValGrounded
<1>5. CASE SendReport
  <2>1. ValGrounded(avg) /\ avg \in Averages /\ UNCHANGED <<acc, avg, lv>>
    BY <1>5 DEF SendReport, Grounded, Types
  <2>2. CASE reportq' = Append(reportq, avg)
    <3>1. \A i \in DOMAIN reportq' : reportq'[i] = avg \/ (i \in DOMAIN reportq /\ reportq'[i] = reportq[i])
      BY <1>1, <2>1, <2>2, AppendFacts
    <3>2. QED
      BY <2>1, <3>1 DEF Grounded, SumGrounded, ValGrounded
  <2>3. CASE reportq' = reportq
    BY <2>1, <2>3 DEF Grounded, SumGrounded, ValGrounded
  <2>4. QED
    BY <1>5, <2>2, <2>3 DEF SendReport
<1>6. CASE OverwriteLv
  <2>1. /\ ValGrounded(avg) /\ avg \in Averages /\ lv' = <<avg>> /\ dpc' = "receive"
        /\ reportq' = reportq /\ SumGrounded(acc')
    BY <1>1, <1>6, ClearedGrounded DEF OverwriteLv, Grounded, Types
  <2>2. \A i \in DOMAIN lv' : lv'[i] = avg
    BY <2>1, OneFacts
  <2>3. QED
    BY <2>1, <2>2 DEF Grounded, SumGrounded, ValGrounded
<1>7. CASE LoraReport \/ MqttReport
  <2>1. reportq # << >> /\ reportq' = Tail(reportq) /\ UNCHANGED <<acc, avg, dpc, lv>>
    BY <1>7 DEF LoraReport, MqttReport
  <2>2. \A i \in DOMAIN reportq' : i + 1 \in DOMAIN reportq /\ reportq'[i] = reportq[i + 1]
    BY <1>1, <2>1, TakeFacts
  <2>3. QED
    BY <2>1, <2>2 DEF Grounded, SumGrounded, ValGrounded
<1>8. CASE PumpRxQueue
  <2>1. DOMAIN lv' = {} /\ UNCHANGED <<acc, avg, dpc, reportq>>
    BY <1>8 DEF PumpRxQueue
  <2>2. QED
    BY <2>1 DEF Grounded, SumGrounded, ValGrounded
<1>9. CASE Tick \/ SensorSample \/ ReceiveTimeout \/ NotYet \/ UNCHANGED vars
  <2>1. /\ UNCHANGED <<acc, avg, reportq, lv>>
        /\ dpc' \in {"report", "overwrite"} => dpc \in {"report", "overwrite"}
    BY <1>9 DEF Tick, SensorSample, ReceiveTimeout, NotYet, vars
  <2>2. QED
    BY <2>1 DEF Grounded, SumGrounded, ValGrounded
<1>10. QED
  BY <1>2, <1>3, <1>4, <1>5, <1>6, <1>7, <1>8, <1>9 DEF Next, data_process_task

-----------------------------------------------------------------------------
(* The least of a set of numbers, and the greatest of a bounded one.        *)
LEMMA MinFacts ==
  ASSUME NEW S \in SUBSET Nat, S # {}
  PROVE  Min(S) \in S /\ \A y \in S : Min(S) <= y
  BY LeastExists DEF Min

Below(S, n) == \A x \in S : x <= n

(* The largest element of a bounded set of numbers.                         *)
LEMMA MaxFacts ==
  ASSUME NEW S \in SUBSET Nat, S # {}, NEW n \in Nat, Below(S, n)
  PROVE  Max(S) \in S /\ \A y \in S : y <= Max(S)
<1> DEFINE T == {n - x : x \in S}
<1>1. T \in SUBSET Nat /\ T # {}
  <2>1. \A x \in S : n - x \in Nat
    BY DEF Below
  <2>2. QED
    BY <2>1
<1>2. PICK t \in T : \A u \in T : t <= u
  BY <1>1, LeastExists
<1>3. PICK x \in S : t = n - x
  BY <1>2
<1>4. ASSUME NEW y \in S PROVE x >= y
  <2>1. n - y \in T
    OBVIOUS
  <2>2. n - x <= n - y
    BY <1>2, <1>3, <2>1
  <2>3. QED
    BY <2>2
<1>5. Max(S) \in S /\ \A y \in S : Max(S) >= y
  BY <1>4 DEF Max
<1>6. QED
  BY <1>5

(* A grounded average lies between the least and the greatest valid reading. *)
LEMMA GroundedBetween ==
  ASSUME NEW a \in Averages, ValGrounded(a), NEW c \in Channels
  PROVE  /\ a.val[c] <= Max(ValidReadings(a, c) \cup {0})
         /\ NeverFailed(a, c) => a.val[c] >= Min(ValidReadings(a, c))
<1> DEFINE valid == ValidReadings(a, c)
           top == valid \cup {0}
<1>1. a.from \subseteq Samples /\ a.from # {}
  BY AverageFields DEF ValGrounded
<1>2. valid = {Reading(s, c) : s \in {x \in a.from : Valid(x, c)}}
  BY DEF ValidReadings, Reading, Valid
<1>3. \A r \in valid : r \in Nat /\ r <= 65535
  BY <1>1, <1>2, ReadingFacts
<1>4. \A s \in a.from : Valid(s, c) => Reading(s, c) \in valid
  BY <1>2
<1>5. a.val[c] <= Max(top)
  <2>1. top \in SUBSET Nat /\ top # {}
    BY <1>3
  <2>2. PICK n \in Nat : Below(top, n)
    BY <1>3 DEF Below
  <2> HIDE DEF top
  <2>3. Max(top) \in top /\ \A r \in top : r <= Max(top)
    BY <2>1, <2>2, MaxFacts
  <2>4. AtMost(a.from, c, Max(top))
    BY <1>4, <2>3 DEF AtMost, top
  <2>5. Max(top) \in Nat
    BY <2>1, <2>3
  <2>6. QED
    BY <2>4, <2>5 DEF ValGrounded
<1>6. ASSUME NeverFailed(a, c) PROVE a.val[c] >= Min(valid)
  <2>1. \A s \in a.from : Valid(s, c)
    BY <1>6 DEF NeverFailed, Valid
  <2>2. valid \in SUBSET Nat /\ valid # {}
    BY <1>1, <1>3, <1>4, <2>1
  <2> HIDE DEF valid
  <2>3. Min(valid) \in Nat /\ \A r \in valid : Min(valid) <= r
    BY <2>2, MinFacts
  <2>4. \A s \in a.from : Reading(s, c) \in Nat /\ Reading(s, c) >= Min(valid)
    BY <1>1, <1>4, <2>1, <2>3, ReadingFacts
  <2>5. AtLeast(a.from, c, Min(valid))
    BY <2>1, <2>4 DEF AtLeast
  <2>6. QED
    BY <2>3, <2>5 DEF ValGrounded
<1>7. QED
  BY <1>5, <1>6

(* No average that waits for a consumer exceeds the largest valid reading of *)
(* its period, and none falls below the smallest unless its sensor failed. *)
THEOREM AveragesGrounded == Spec => []GroundedAverages
<1>1. Types /\ Grounded /\ [Next]_vars => Grounded'
  BY GroundedNext
<1>2. Types /\ Grounded => GroundedAverages
  <2> SUFFICES ASSUME Types, Grounded,
                      NEW a \in Range(reportq) \cup Range(lv), NEW c \in Channels
               PROVE  /\ a.val[c] <= Max(ValidReadings(a, c) \cup {0})
                      /\ NeverFailed(a, c) => a.val[c] >= Min(ValidReadings(a, c))
    BY DEF GroundedAverages
  <2>1. a \in Averages /\ ValGrounded(a)
    BY DEF Range, Types, Grounded
  <2>2. QED
    BY <2>1, GroundedBetween
<1>3. QED
  BY <1>1, <1>2, GroundedInit, TypesInvariant, PTL DEF Spec
=============================================================================
