# A TLA+ model of the grain warehouse monitor

The program is the firmware of an STM32F407 board: FreeRTOS tasks read
temperature, humidity, rain, CO2 and CO sensors, drive a fan, a heater and a
humidifier, show averages on an LVGL screen and report them over LoRa and, through
an ESP8266 module, over MQTT.  This directory holds TLA+ modules translated from
its C code, TLC configurations and TLAPS proofs.  `PROJECT.json` lists components,
runs, mutants, the source lines behind every definition, hazards, findings and
theorems.

## Inventory

Task priorities (a larger number preempts a smaller one): lora_task 7, applay_task 6,
mqtt_task and data_process_task 5, my_gui_task 4, sensor_data_get_task 3, LED and
system monitor 2; the watchdog task has 8.  Everything is created by start_task in one
critical section.

| component | state | operations | talks to | what makes it correct |
| --- | --- | --- | --- | --- |
| actuator driver (`applay.c`, `gtim.c`) | PWM compare value, lights, heater and humidifier pins, `mode_control` | `fan_apply`, `heat_apply`, `humid_apply`, `motor_set_speed` | called by applay_task | the output is what the command asked for; manual sources take the mode |
| fan arbitration (`task_sensor.c`, `task_applay.c`) | `ActuatorCmdQueue` (10), `last_auto_cmd`, static timer variables | decision, send on change, manual timeout, dispatch | GUI, LoRa and MQTT queue commands too | the last accepted command wins; manual mode lasts and ends; an alarm is served; automatic commands leave manual mode alone |
| ESP8266 receive ring (`esp8266.c`) | `buf`, `head`, `tail` | `ring_push` in the interrupt; `ring_used`, `ring_consume`, `ring_copy_out` in mqtt_task | AT waits and parsers read it | a bounded FIFO without a lock |
| AT channel and +IPD parser (`esp8266.c`) | the ring, `s_wifi_connected`, `s_link_state` | `at_wait_for`, `parse_ipd_frames`, `esp8266_loop`, connect, send, close | module, MQTT client (callback) | answers belong to their command; no frame is lost or torn, and nothing else is taken for one |
| MQTT client (`mqtt.c`) | `s_state`, packet ids, keep-alive time | connect, subscribe, publish, disconnect, `handle_rx`, `mqtt_loop` | ESP driver, mqtt_task | state follows the broker; packets are well formed |
| MQTT task (`task_mqtt.c`) | phase and its start tick | the five phases, the 30 s limit, command callback | `ReportQueue`, `ActuatorCmdQueue` | RUN is reached, on a session that was asked for its commands, and is left when the link is lost |
| reporting pipeline (`task_data_process.c`) | accumulators, `EnvSampleQueue` (8), `ReportQueue` (2), `LV_RXDataQueue` (1) | receive, period end, average, deliver | sensor task, lora_task, mqtt_task, GUI | averages come from their own period; none vanishes or is doubled; the GUI gets the newest |
| LoRa task and UART (`task_lora.c`, `atk_mw1278d_uart.c`) | frame buffer with length and finish bits, `lora_ready` | two interrupts, receive, parse, send, exit without a radio | `ReportQueue`, `ActuatorCmdQueue` | every complete frame is seen once; the interrupt comes to an end |
| GUI fan panel (`my_gui.c`) | switch, slider, `alert_auto_on` | callbacks, alert link | `ActuatorCmdQueue`, display variables | alerts start and stop only what they should; the panel agrees with the fan |
| GUI pages and history (`my_gui.c`) | HIDDEN flags, `chart_fullscreen`, minute and hour rings | page callbacks, pump, push, averages, refresh | `LV_RXDataQueue`, the panel | one page is shown, whole and current; averages are of the newest minutes and of adjoining hours |
| system monitor, watchdog, LED | statistics, none, a light | periodic | display | not control |

Hard behaviours: five tasks write the fan through one queue and one mode flag that
is tested and used at different times; sends time out or drop; static variables
carry over from one manual episode to the next; the tick counter wraps; AT waits
are busy waits that stall every lower priority; an interrupt shares the ring with
a task; two tasks compete for each report; network, module and broker fail at any
point of a connect sequence and leave flags, connections and answers behind.
`PROJECT.json` lists each hazard at its line.

## Modules

| module | models |
| --- | --- |
| `Applay` | the command message and the actuator driver, as operators |
| `SensorRead` | which sensors failed and which fan level is asked for, as operators |
| `FanArbitration` | sensor task, remote tasks, GUI callbacks, `ActuatorCmdQueue`, applay_task, `mode_control` |
| `MCFanArbitration` | readings and commands for TLC |
| `FanArbitrationProofs` | its theorems |
| `EspRing` | the receive ring, interrupt against reader |
| `BoundedFifo` | the abstract queue a reader of the ring relies on |
| `EspRingProofs` | its theorems |
| `EnvPipeline` | samples, averages and their three consumers |
| `MCEnvPipeline` | samples for TLC |
| `EnvPipelineProofs` | its theorems |
| `MqttSession` | phases, client state, link flags, against network and broker |
| `MqttSessionProofs` | its theorems |
| `MqttCodec` | the packets: length field, builders, `handle_rx`'s cut and `handle_publish`, as operators on bytes |
| `AtChannel` | the receive ring between module, interrupt and the three readers of mqtt_task, with `MqttCodec`'s packets in it |
| `MessageFeed` | what the callback of the client may rely on until the channel breaks: the messages of the frames that arrive, one after the other |
| `AtChannelProofs` | theorems of `AtChannel` and `MqttCodec` |
| `MCAtChannel` | texts, messages and requests for TLC, two checks of `MqttCodec` by evaluation, and one of the module's real texts |
| `GuiFanPanel` | switch, slider, alert link and display variables, against applay_task |
| `MCGuiFanPanel` | commands of the other sources for TLC |
| `GuiHistory` | minute and hour rings and the averages read from them |
| `GuiPages` | the pages and their HIDDEN flags |
| `GuiScreen` | the whole of my_gui_task: panel, pages and histories, against applay_task |
| `MCGuiScreen` | commands of the other sources for TLC |
| `GuiScreenProofs` | theorems of `GuiScreen` and the three modules in it |
| `LoraUart` | the USART3 frame buffer: two interrupts against lora_task |
| `LoraUartProofs` | its theorems |
| `SequenceFacts` | lemmas about sequences that the proofs share |

`FanArbitration` uses `Applay` and `SensorRead` and so composes the driver with the
tasks around it; `GuiFanPanel` uses the same driver and sees it from the panel.
`EspRing` implements `BoundedFifo` (`ImplementsFifo`), and `MqttSession` and
`AtChannel` stand on that abstraction: the ring of the one is a sequence of events,
that of the other a sequence of bytes.  `GuiScreen` instantiates `GuiFanPanel`
beside `GuiPages`, which extends `GuiHistory`: an average goes through all three in
one step.  `AtChannel` implements `MessageFeed` (`ImplementsFeed`).

### FanArbitration

The sensor task can be preempted between any two accesses to shared state, so its
loop is cut there: `SensorDecide`, `SensorCheck` (the test of `mode_control`),
`SensorSend`, `SensorExpire` (timer test), `SensorRelease` (the two stores),
`SensorSleep`.  applay_task is preempted only by lora_task, which touches nothing it
writes, so receive and dispatch are one step.  A remote command is a step that
makes it pending and then a send or a timeout, as `xQueueSend` with 100 ms does.
`GuiCommand` is any of the GUI's sends (switch, slider, alert link), which all send
`FAN` with a percentage and timeout 0.  When the queue is full the GUI's command is
lost and no variable of this module changes.  The display copies `fan_running` and
`fan_speed` are computed by `fan_apply` and not kept here: only the panel uses them,
and `GuiFanPanel` has them.

Readings enter through `AutoCmd(r)` for r in a constant set; the runs use one reading
of each of two decisions (`CalmOrGas`), and `MCFanArbitration` has TLC evaluate at
both sides of every comparison that a failed sensor never raises the fan.  The tick is
counted in sensor periods modulo `TickMod`; `ArbitrationAssumption` asks that timeout
plus one stall fit into the counter, which 2^32 ms against 30 minutes does.
`MaxStall` bounds how long higher priorities may keep the sensor task away.  `lastFan`
and `age` are history variables.

### EspRing

`ring_push` is atomic (the interrupt runs to completion on one core).  The reader
is the union of its callers: `Measure` takes `ring_used()`, then any `ring_consume`
and `ring_copy_out` within that window, each cut at its accesses to `head`, `tail`
and `buf`.  `seen` is history: the text of the window.

### EnvPipeline

Time is a tick per sensor loop.  `Tick` can also happen while a task is between two
steps, so a sample can be late and a period long.  data_process_task is cut at its
queue operations.  `Average` has the code's integer divisions and its cut to 16
bits.  lora_task and mqtt_task each take the head of `ReportQueue`; a failed publish
loses it, as the code does.  `lora_ready` is what `ATK_MW1278D_Init` returned at boot,
either value: without a radio lora_task deletes itself (`LoraRuns`), and then only
mqtt_task is left to take reports.  Ids, `from` and the sets of sent and dropped
ids are history.

### MqttSession

One action per phase, with `mqtt_connect_broker` cut into connect, send and wait,
because the network acts in between.  `ESP8266_USE_STORED_AP` is 0, so joining is the
AT+CWJAP branch: it empties the ring, and what the module says meanwhile is one of
`JoinLines`.  An exchange that waits in `at_wait_for` may destroy the oldest events of
the ring (`Suffixes`), since the function consumes from the front; commands that empty
the ring first use `Cleared`.  `esp8266_tcp_connect` is cut after its command
(`CipStart`), because lines and frames come in while it waits.  It waits for the word
CONNECT, which ALREADY CONNECTED, WIFI CONNECTED and WIFI DISCONNECT also contain, so
`TcpConnected` has three disjuncts: a new connection, one that is still there, and a
line about the access point.

A CONNACK does not say which CONNECT it answers.  The model lets the broker answer
late: an attempt whose send timed out leaves its TCP connection open, the broker's
answer comes while the next attempt waits for ALREADY CONNECTED, and ends that
attempt's wait.  The broker meanwhile hangs up on the second CONNECT, or is still
busy with one: SUB and RUN are then reached with session `"none"` or `"connecting"`.
`subscription` follows a SUBSCRIBE at the broker: `"asked"` when it is taken, then
`"granted"` or, with the code 0x80, `"refused"`.  The client ignores a SUBACK
(`mqtt.c:337-339`), so RUN with a refused subscription is a reachable state, and the
property `RunHasSubscribed` claims no more than what the code can guarantee: that on
a live session the device has asked.  PINGREQ, PINGRESP and PUBACK change no state the
code tests and are left out.
External actions (loss and return of WiFi,
loss of TCP, the broker's answers) are free until `Settle`; after it nothing fails.
The reconnect branch of `PhaseRun` is written down and never taken in the model:
in RUN the client state leaves CONNECTED only through a rejecting CONNACK, and the
broker sends one per CONNECT.  That is the content of the finding below.

### GuiFanPanel

Every handler (switch, slider, alert link) runs in my_gui_task, so handlers do not
interleave with each other; applay_task preempts them.  A handler is therefore two
steps: widgets and display variables, then the send.  The alert link fills its
message from `fan_speed` at the send (`FanSpeed`), the others from a local value.
The other sources are a constant set of commands.  An average above the limits or
not is a choice of the environment.  `alerting`, `userOn`, `userActed` and `synced`
are history; `synced` is false until `fan_apply` takes the first FAN command (the motor starts
at full duty, which no display variable shows) and after a dropped GUI command, for
which the code has no repeat.  A command for another target, or one that `fan_apply`
refuses, does not make it true.

### GuiHistory, GuiPages, GuiScreen

A minute average is its serial number and an hour average the sequence of minutes
summed for it, so an average tells which minutes it is of.  All channels are pushed
together and one stands for all.  The widgets are grouped as their flags are: the page,
its frames, its controls, its chart.  A touch reaches only what is visible; which
widgets LVGL lets through a hidden parent is LVGL's documented rule.  In `GuiScreen`,
`apply_avg_to_gui` is one step of history, alert link and refresh: it runs in
my_gui_task, the only task that touches widgets, and what applay_task can disturb is
the command sent after it, a step of its own (`PanelSends`).

### MqttCodec and AtChannel

`MqttCodec` is the packets byte by byte, with `LenBase` for 128.  `AtChannel` puts them
into a ring of bytes, and its readers find what they look for by comparing bytes
(`Spells`), as the code does: a payload may spell an answer, a line end or a header.
What the parser makes of a header is `parse_ipd_header`: digits up to a comma or colon,
`int8_t` and `uint16_t` results.  `NoFrame` is a header whose colon or end has not come,
`SkipByte` one that cannot be read, for which the first byte of the ring goes, and
`SkipFrame` a frame that is too long for `ipd_buf` or of another link than 0.  A byte
carries the number of its frame and its place as history; no reader looks at these.

The texts of the module are constants, and an instance may shorten them.  What a reader
can confuse depends on which bytes of one text are in another, and `TextAssumption`
says of the texts what is true of the real ones, which `MCAtChannel` has TLC evaluate
(`RealTexts`): the mark `+IPD,` does not overlap itself, no answer has a `+` in it, and
so on.  The instance keeps two bytes for a text a reader looks for where one of them
must be found without the other (`+,` and `SK`), and one where the module only says it.

mqtt_task is a program counter over its readers: the
rounds of `parse_ipd_frames` (`parse`), of `handle_rx` (`rx`), of the line loop (`line`)
and the two waits of `esp8266_tcp_send` (`prompt`, `sendok`), which a PUBACK enters from
inside the callback and returns from to the rest of the same frame (`back`).  Interrupts
come between any two.  `LineSize - 1` bytes is the longest line taken at once.  The
module answers a command only in command mode, takes what comes in data mode as data,
also a command line, and says nothing while it sends; its link may close at any time.
`sent`, `delivered`, `messages`, `uplink`, `cut`, `answers` and `matched` are history.

A wait that has its answer is one step, so is a round of a loop.  The module finishes
one output before it begins the next.  It never says busy or ERROR, for which the waits
have no branch: they time out, which they may do here at any point.  Packets are not cut
over frames, topics are shorter than `TopicSize`, and the ring never fills (`EspRing`
has a full ring), so what the module sends is well formed; what a reader finds need not
be.  `s_link_state` is left out: no task reads it.

**`Sound`.**  A wait or the line loop may cut a frame whose payload spells the mark
`+IPD,`.  From then on the parser takes what is left of it for a frame, with any length
the payload spells, and can swallow the frames behind it.  `FramesIntact`,
`FramesKept`, `PacketsHandled` and `ImplementsFeed` are claims about the time before:
`Sound` says that no such frame has been cut.  Frames that do not spell the mark may be
cut anywhere, and frames that spell it may be sent and handled, in any order.  What
happens behind `Sound` is the run `at_false_frame`.  `AcksAreOwed` and `TypeOK` need no
such proviso.

`MessageFeed` is the abstract view of all this.  Its variables are the frames sent, the
last frame taken, what is left of it and the messages handed over; its actions are
`Send`, `Take` of a later frame once nothing is left of the last one, and `HandOver`
of the next message; `Break` ends its promises, and stands for the end of `Sound`.
Under the mapping of `Feed`, `ForwardFrame` is `Send`, `TakeFrame`
is `Take`, `RxPacket` is `HandOver`, and everything else stutters: the waits, the line
loop, the interrupt, and the exchanges of a PUBACK in the middle of a frame.

### LoraUart

A byte first comes into the data register (`Arrive`), and as long as one waits there no
step of lora_task is taken: the interrupt is next.  A byte that comes before the handler
has run is lost and sets the overrun flag; the handler then drops the waiting one, too
(`DropOverrun`).  Otherwise it reads with `HAL_UART_Receive`.  While lora_task is in the
few instructions in which `HAL_UART_Transmit` holds the HAL lock (`pc = "locked"`), that
call returns HAL_BUSY without reading; the handler does not look at the result, stores
its uninitialised `tmp` (`ReceiveBusy`: the byte received last, which is what its place
on the stack holds, or another), and is entered again at once, because the byte still
waits.  `ATK_MW1278D_TIM_IRQHandler` comes between frames only, because a byte within a
frame sets the timer back.  `lost` is history: a byte was dropped or made up.
lora_task is cut at its accesses: poll, `get_frame` (which reads
the length again and writes a zero behind the frame), copy, and the two
read-modify-write sequences of `rx_restart`.  No bound is put on how many bytes fall
between two of these: the watchdog task prints, and can hold lora_task up for that
long.  The frames have one type and different values, the case in which bytes of two
frames are most easily taken for one.  A noise byte is never taken for a byte of a
frame.  The states begin behind the restart at the head of lora_task.  A frame that
meets a shorter rest in the buffer is lost, and may leave a rest itself: the model has
that, and `CleanFramesExecuted` speaks of frames that find the receiver restarted.  It
leaves behaviours with `lost` out: nothing can be said of a frame whose bytes the
hardware or the handler has lost.  `CommandsInOrder` needs no such proviso.

The handler that is entered again for ever is a disagreement with `task_lora.c:12`, which
allows sending at any time.  `LoraSend.cfg` states that the handler comes to an end
(`InterruptReturns`); TLC finds it violated within 1,693 states, by a single byte that
comes between taking and releasing the lock.  Only a further byte frees the system, by
the overrun flag.  It is not among the runs of `PROJECT.json`:
`tlc -config LoraSend.cfg LoraUart.tla` shows it.

## Runs

| run | shows | bounds |
| --- | --- | --- |
| `fan_commands` | `FanObeysLastCommand`: no accepted command is lost, doubled or overtaken; `ManualModeBounded`, `ManualModeLasts`, `ManualModeEnds` | queue of 2, so that full, empty and one behind another all occur; one remote task, GUI, sensor; a counter that wraps within the run, several manual episodes |
| `alarm_served` (violation) | an alarm raised in manual mode is never served afterwards | one remote task |
| `esp_ring` | `WindowStable`, `RequestsAreMet`, refinement of `BoundedFifo` | 4 slots, 2 byte values: every wrap position and a full ring |
| `env_reports` | `GroundedAverages`, `ReportsAccountedFor`, `GuiHasNewest`, `PeriodsClose`, `ReportsDelivered` | queues of 1, period of one tick, 2 averages, one good and one failed sample: averages of one and of several samples (a tick can come late), a full queue, an overwritten mailbox and a second period occur |
| `mqtt_session` | `RunHasSubscribed`, `PhasesReachRun` | phase limit of 3 retries, 3 pending events (15,178 states): a late CONNACK with a line behind it, a refused subscription and a second CONNECT on one connection occur |
| `mqtt_reconnect` (violation) | a link lost in RUN is not made again | limit 1, two events |
| `gui_screen` | `DisplayAgrees`, `AlertLinkCurrent`, `HomeIsWhole`, `DetailIsCurrent`, `MinuteAveragesAreNewest`, `HourAveragesAdjoin` | queue of 2, one other source, one slider position; rings of 2 and 2, 7 averages: the minute ring wraps three times, the hour ring once; 2 channels |
| `gui_user_fan` (violation) | the end of an alert switches off the user's fan | queue of 2, four commands of other sources, slider at both ends and between |
| `at_channel` | `FramesIntact`, `PacketsHandled`, `AcksAreOwed`, `FramesKept`, refinement of `MessageFeed` | 2 frames out of three: a message to acknowledge and one not, a line feed in a payload, and a frame longer than the buffer whose payload spells three headers (unreadable, of link 1, of four bytes) behind a line feed; 1 request, one kind of which does not fit its buffer; PUBACKs, timeouts and a closing link (473,934 states) |
| `at_false_frame` (violation) | the line loop eats the front of a frame up to a line feed, and the rest of its payload is taken for a frame | one frame |
| `at_answer` (violation) | one answer ends two waits | one frame, one request |
| `lora_uart` | `CommandsInOrder`, `CleanFramesExecuted` | 6 bytes of buffer, 2 frames, 1 noise byte (993,088 states): joined frames, a frame behind a rest, overflow, overrun and a locked HAL occur |

Deadlock is checked except in the MqttSession runs, where mqtt_task may delete
itself when the module does not answer at boot, and in `lora_uart`, where the line
may fall silent.  Every property has a mutant in
`PROJECT.json`: a plausible slip in the code that the run catches.

Bounds that cut behaviours: `MaxPeriods` (number of averages), `RingCap` (pending
events), `MaxFrames` and `MaxNoise` (what arrives over LoRa), `MaxFrames` and
`MaxSends` of AtChannel (frames of the broker, requests), `MaxSamples` (minute
averages), `age` in MqttSession stops at `Stuck + 1` and `elapsed` at `Period`, beyond
which the code only compares.

## Fairness

applay_task and sensor_data_get_task are weakly fair, as are data_process_task,
lora_task, mqtt_task and the GUI pump: every task of a higher priority ends its loop
in a delay or a blocking receive, and an AT wait has a time limit, so a ready task
eventually runs.  Time passes (`Tick`).  mqtt_task's use of `ReportQueue` is not fair
in EnvPipeline: it may never reach RUN.  lora_task is fair only where it runs: with no
radio it has deleted itself, `LoraReport` is never enabled, and reports may stay in
`ReportQueue` for ever.  `ReportsDelivered` therefore promises the GUI its averages in
every case and the report queue its reader only with a radio.  In MqttSession the access point comes back
and the broker answers; no connection attempt is assumed to succeed before `Settle`.
AtChannel and the GUI modules state no fairness: their properties are of safety, and
`FramesKept` says of a frame that it is not lost, not that it arrives.
In LoraUart a frame that has begun is completed, the timer runs out, and lora_task,
which only the short watchdog task preempts, runs; the interrupt for a byte is taken.

## Proofs

Every safety property that a passing run checks, action properties and both
refinements included, is also a theorem: it holds for every value of the constants
that satisfies the named assumptions, not only for the instance of the run.  Each
proof has an inductive invariant that says more than the property.

Fan arbitration (`FanArbitrationProofs`):

* `TypeCorrect`, `FanObeys`: `FanObeysLastCommand` is inductive given `TypeOK`; the
  lemmas `EnqueueObey` and `ApplyObey` are its two ways to change.
* `ManualBounded`, `ManualLasts`: neither bound is inductive, because both speak of
  `age` and the code keeps only `enter_tick` and `prev_mode`.  `ManualTimer` relates
  them: while `prev_mode` is 1, elapsed ticks are at most `age` and at least `age`
  minus one stall; elapsed ticks stay below the timeout whenever the task sleeps; and
  a manual mode not yet noticed is at most one stall old.  `TimerInvariant` proves it
  across counter wrap.

Receive ring (`EspRingProofs`):

* `RingInvariant`, with `RingTypes`, `StableWindow` and `MetRequests`: type, window and
  request invariants are inductive together.  `PushEffect` (a push leaves every queued
  byte and appends one) and `AdvanceEffect` (moving tail shifts the queue) carry it.
* `RingImplementsFifo`: initial states map to initial states, `ring_push` to `Put`,
  `ring_consume` to `Discard`, `CopyAdvance` to `Take`, `CopyStart` to `Begin`, the
  rest to stutters.

Reporting pipeline (`EnvPipelineProofs`):

* `PipelineTypes`, `GuiNewest`: `PipelineTypes` is `TypeOK` and no more (queues within
  their lengths, samples and averages in them well formed, timers within the period;
  nothing about the sums).  `Types` adds to it what data_process_task holds between its
  two sends, namely the average of the period just closed.
* `ReportsAccounted`: `Reports` says that the sets of what was sent, lost, dropped,
  queued and held are disjoint and make up all averages, and that the queue is sorted
  and behind everything taken.  Without the order, taking the head could put an older
  average behind a newer one.
* `AveragesGrounded`: an average lies within the readings only because the sum it is
  made of does.  `Grounded` carries a bound on the sum: if `m` bounds all valid readings
  of the period, the sum is at most `m` times the count, and likewise from below for a
  sensor that never failed.  It holds for every `m`, so no maximum has to be computed
  along the way.

MQTT session (`MqttSessionProofs`):

* `SessionInvariant`, `TypeCorrect`, `SubscribedInRun`: a session only begins with a
  CONNECT, which only phase CONNECT sends, and RUN is entered from SUB alone, in the step
  that takes the SUBSCRIBE to the broker.  So a session that RUN sees was there when the
  SUBSCRIBE went up, whichever CONNACK ended the wait; no step of the network makes a
  session with no CONNECT, and every one that ends it ends its subscription.  That a
  wait ends on its own CONNACK, or that the broker grants what was asked, is not true of
  the code and not claimed.

GUI (`GuiScreenProofs`; `ScreenInvariant` joins four parts):

* `DisplayTellsTheTruth`, `AlertLinkFollows` from `PanelInv`: the display agrees with
  the motor already when no command that `fan_apply` takes is queued.  An empty queue
  is not enough to be inductive: the last queued command may be one it refuses.
* `HomePageWhole`, `DetailPageCurrent` from `PagesInv`.
* `MinuteAverages` from `MinuteRing` (slot by slot, the ring holds the newest minutes)
  and `HourAveragesTheorem` from `HourRing` (each slot one whole hour, and the minute
  counter tells how much of the hour under way has passed), across any number of
  wraps and for every ring size.

LoRa (`LoraUartProofs`):

* `UartInvariant`, `UartTypes`, `CommandOrder`: `FreshBytes` says at each step of
  lora_task which bytes of the buffer no command has used; after the copy and before
  the length is cleared, bytes that were executed still lie in it, and what keeps them
  from becoming a command again is where the two read-modify-writes stand.  `TmpIsNewer`
  adds that when `tmp`, which the handler may store again, is the byte with a command's
  value, the last byte of that frame has not come in.
  `BytesSent` says that no byte is there before it was sent.

AT channel and packets (`AtChannelProofs`):

* `StreamInvariant`, `FramesAreIntact`, `FramesAreKept`: ring and wire are one stream
  of bytes.  `StreamOK` holds whatever is cut: the bytes of a text follow each other,
  behind the first byte of a frame the whole frame stands, and frames come in their order.
  `Whole` adds that the bytes of a frame not cut stand behind its first byte.  While
  `Sound` holds, a frame that was cut does not spell the mark; so with `MarkInText` and
  `TextAssumption` a mark is spelled only where a frame begins or behind such a place
  (`MarkIsHeader`), also where two texts meet.  The first mark in the ring is therefore
  the start of a whole frame; `parse_ipd_header` reads back what the module wrote
  (`HeaderRead`), and the parser takes or skips that frame to its end.  Frames left are
  newer than any delivered.
* `ChannelTypes`: what is handled fits `ipd_buf`, false frames included, and packet ids
  never become 0.  No proviso.
* `LengthsReadBackAll`, `PublishReadBack`, `RequestsAreWhole`: the length field is read
  back for every length below `LenBase`^4; a PUBLISH of the broker is cut off whole and
  taken apart into the message it was; each request is one whole packet.
* `HandledInvariant`, `PacketsAreHandled`: while `Sound` holds and a frame is in
  handling, the messages given to the callback and what is left of the frame are together the messages of all
  frames delivered.  It rests on `PublishReadBack` and on lemmas about `FlattenSeq`.
* `NoAckUnowed`: an acknowledgement that waits for its prompt counts too (`Due`): it is
  already owed to a message given to the callback, and can go up only once.  It needs no
  proviso: a message of a false frame is owed its acknowledgement like any other.
* `ChannelImplementsFeed`: the refinement of `MessageFeed`, from `StreamInv` (a frame
  taken is a later one) and `HandledInv` (nothing is left of the one before); a step that
  ends `Sound`, and every step after it, is a `Break`.

Assumptions on constants.  `CodecAssumption` has `OutCap` at most 65535 (the lengths
in `mqtt.c` are `uint16_t`; the buffer has 512 bytes) and below `LenBase`^4 (the
length field has at most four digits).  `ChannelAssumption` says what a broker can
send: messages that fit the packet format, with topics the client has room for; the
code subscribes to one topic of a few characters.  Payloads are any bytes.
`TextAssumption` is what the readers need of the module's texts, `RealTexts` that the
real ones have it.  `PipelineAssumption` says that the
fields of a sample, scaled, fit 16 bits, as those of `env_sample_t` do.

Recursion.  `LenDigits`, `Decimal`, `Number`'s value and `FlattenSeq` are recursive functions.  What holds of them
for every argument is proved with a least counterexample (`LeastExists`) where one
would use induction.

Only model-checked: liveness (`ManualModeEnds`, `PeriodsClose`, `ReportsDelivered`,
`PhasesReachRun`, `CleanFramesExecuted`), because fairness and ENABLED are beyond the
prover.  `MCAtChannel` has TLC evaluate two facts of `MqttCodec` over bounded inputs:
lengths are read back as they were written, also that a fifth digit is refused, and
every builder, those of CONNECT, PUBACK, PINGREQ and DISCONNECT included, makes one
whole packet.

## Findings

* An alarm decided in manual mode is recorded as sent and never is
  (`task_sensor.c:172`).
* RUN tests only the client state, which a lost link does not change
  (`task_mqtt.c:238`).
* An alert takes over a fan the user has on and switches it off at its end
  (`my_gui.c:352`).
* The line loop eats the front of a frame that is not complete yet, up to a line feed in
  its payload (`esp8266.c:419`); the message is lost, and when the rest of the payload
  spells a header, the parser takes it for a frame of its own (`esp8266.c:256`).
* `at_wait_for` consumes from the front instead of up to the answer's line, so the
  answer can end a second wait (`esp8266.c:146`).

More disagreements were met and are in the models, without a run of their own: the
USART3 handler may be entered again for ever when a byte comes in while a report is sent
(`atk_mw1278d_uart.c:205`, see LoraUart above); the mode
is tested when an automatic command is queued (`task_sensor.c:161`, "only in automatic
mode") and not when it is executed, so one can undo a manual command queued in front of
it; LoRa, documented to send every minute's average (`task_lora.c:10`), and MQTT share
one report queue (`task_mqtt.c:248`), so each average takes one way only;
`sample_count` is documented as the number of valid samples (`FreeRTOS_tasks.h:58`)
and counts failed ones too (`task_data_process.c:68`), which is why
`GroundedAverages` gives a lower bound only for sensors that never failed; and the
alert link, documented to send 80 percent (`my_gui.c:368`), reads `fan_speed` back at
line 372, after applay_task may have changed it.

## Not modelled

Display drawing, kernel statistics, LED; the values of the system page (CPU load with
its ring, memory, task list), which nothing else reads (its `delta_idle * 100`
overflows when the page stays closed for long, `my_gui.c:1287`); the keep-alive timer;
the diagnostic ping and address queries of the ESP8266 driver; the watchdog, whose
start is commented out in `main.c`; sensor drivers and the radio's AT configuration
(timing and register I/O; the CO2 driver keeps its last valid value when the sensor
falls silent, and the models take what a driver returns); the FreeRTOS kernel, LVGL
and HAL (vendored, used through their documented behaviour).  `FanMutex` and
`LoraMutex` are left out: each has one user at run time.

## Plan

1. Packets cut over two frames: `FirstPacket` has the test, but the broker's frames
   of AtChannel end with a packet.
2. The claim that `MqttSession`'s events are an abstraction of `AtChannel`.
3. Theorems about the builders that only TLC evaluates (CONNECT, PUBACK).
4. The safety half of the liveness properties: what is enabled when a task waits, as
   invariants (mqtt_task always has a step; a period that is over can be closed).
