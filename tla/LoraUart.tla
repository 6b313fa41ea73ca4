------------------------------ MODULE LoraUart ------------------------------
(***************************************************************************)
(* Receiving over LoRa: the USART3 interrupt collects bytes in a frame     *)
(* buffer, the TIM7 interrupt marks the frame finished after 10 ms of      *)
(* silence, and lora_task polls, copies four bytes, restarts the buffer    *)
(* and parses.  Both interrupts are above the priority that                *)
(* taskENTER_CRITICAL masks, so they fall anywhere in the task.            *)
(*                                                                         *)
(* A byte first waits in the data register, and until the handler has read *)
(* it no task goes on.  A byte behind it is lost in the hardware, and the  *)
(* overrun flag makes the handler drop the waiting one too.  The handler   *)
(* reads with HAL_UART_Receive, which does nothing while lora_task holds   *)
(* the HAL lock in HAL_UART_Transmit; the handler does not look at the     *)
(* result, stores whatever its variable tmp holds, and is entered again,   *)
(* since the byte still waits.                                             *)
(*                                                                         *)
(* len and finsh are bit fields of one halfword: each assignment of        *)
(* rx_restart loads the halfword, changes its bits and stores it back.  A  *)
(* compiler that merges the two assignments gives a subset of what the     *)
(* model allows.  The USART3 handler is one step: it sets the timer back   *)
(* to 0 before its own read-modify-write, so TIM7 does not fall into that  *)
(* (the overflow branch does not set it back; a timeout in exactly these   *)
(* few cycles is left out).                                                *)
(*                                                                         *)
(* A byte is [frame, pos]: position pos of a frame, or noise (frame 0).    *)
(* The frames are of one type with different values, so head and type      *)
(* (positions 1 and 2) are equal in all of them, value and checksum        *)
(* (3 and 4) in none.                                                      *)
(***************************************************************************)
EXTENDS Naturals, Sequences

CONSTANTS
  BufSize,     \* ATK_MW1278D_UART_RX_BUF_SIZE (128)
  MaxFrames,   \* bound: frames sent in a behaviour
  MaxNoise     \* bound: noise bytes in a behaviour

LORA_FRAME_LEN == 4

ASSUME UartAssumption ==
  /\ {BufSize, MaxFrames} \subseteq Nat \ {0} /\ MaxNoise \in Nat
  /\ BufSize > LORA_FRAME_LEN

Noise == [frame |-> 0, pos |-> 0]
Byte  == [frame : 1 .. MaxFrames, pos : 1 .. LORA_FRAME_LEN] \cup {Noise}

VARIABLES
  buf, len, finsh,  \* g_uart_rx_frame
  timer,            \* TIM7 is running
  dr,               \* the byte that waits in the data register, if any
  ore,              \* the overrun flag
  tmp,              \* the handler's variable on the stack
  pc,               \* where lora_task is
  reg,              \* the halfword it has loaded
  local_buf,        \* its copy of the first four bytes
  frame, pos,       \* the line: last byte sent
  noise,            \* noise bytes sent
  commands,         \* history: what passed the parser
  clean,            \* history: frames that found the buffer restarted
  lost              \* history: a byte was lost or made up

frameVars == <<buf, len, finsh, timer>>
usart     == <<dr, ore, tmp>>
taskVars  == <<pc, reg, local_buf>>
line      == <<frame, pos, noise, clean>>
vars == <<frameVars, usart, taskVars, line, commands, lost>>

Init ==
  /\ buf = [i \in 0 .. BufSize - 1 |-> Noise] /\ len = 0 /\ finsh = 0
  /\ timer = FALSE
  /\ dr = << >> /\ ore = FALSE /\ tmp = Noise
  /\ pc = "send" /\ reg = [len |-> 0, finsh |-> 0] /\ local_buf = << >>
  /\ frame = 0 /\ pos = LORA_FRAME_LEN /\ noise = 0
  /\ commands = << >> /\ clean = {} /\ lost = FALSE

-----------------------------------------------------------------------------
(* Mutant: no room is kept for the terminating zero.                       *)
Store_NoReserve(b) ==
  IF len < BufSize
    THEN /\ timer' = (timer \/ len = 0)
         /\ buf' = [buf EXCEPT ![len] = b] /\ len' = len + 1
         /\ UNCHANGED finsh
    ELSE /\ buf' = [buf EXCEPT ![0] = b] /\ len' = 1
         /\ UNCHANGED <<finsh, timer>>

(* Mutant: the length is counted before the test for the first byte.       *)
Store_LateTimer(b) ==
  IF len < BufSize - 1
    THEN /\ buf' = [buf EXCEPT ![len] = b] /\ len' = len + 1
         /\ timer' = (timer \/ len' = 0)
         /\ UNCHANGED finsh
    ELSE /\ buf' = [buf EXCEPT ![0] = b] /\ len' = 1
         /\ UNCHANGED <<finsh, timer>>

(* The timer's counter restarts with every byte that fits; a full buffer    *)
(* starts again at its beginning.                                          *)
Store(b) ==
  IF len < BufSize - 1
    THEN /\ timer' = (timer \/ len = 0)
         /\ buf' = [buf EXCEPT ![len] = b] /\ len' = len + 1
         /\ UNCHANGED finsh
    ELSE /\ buf' = [buf EXCEPT ![0] = b] /\ len' = 1
         /\ UNCHANGED <<finsh, timer>>

(* Clearing the overrun flag reads the data register: nothing is left to    *)
(* store.                                                                  *)
DropOverrun ==
  /\ ore /\ ore' = FALSE /\ dr' = << >> /\ lost' = TRUE
  /\ UNCHANGED <<frameVars, tmp>>

ReceiveByte ==
  /\ ~ore /\ pc # "locked"
  /\ tmp' = dr[1] /\ dr' = << >>
  /\ Store(tmp')
  /\ lost' = (lost \/ len = BufSize - 1)
  /\ UNCHANGED ore

(* tmp is not initialised: its place on the stack has the byte received     *)
(* last, or what another handler left there.                               *)
ReceiveBusy ==
  /\ ~ore /\ pc = "locked"
  /\ tmp' \in {tmp, Noise}
  /\ Store(tmp')
  /\ lost' = TRUE
  /\ UNCHANGED <<dr, ore>>

ATK_MW1278D_UART_IRQHandler ==
  /\ dr # << >>
  /\ DropOverrun \/ ReceiveByte \/ ReceiveBusy
  /\ UNCHANGED <<taskVars, line, commands>>

(* The TIM7 interrupt: 10 ms after the last byte, so never inside a frame.  *)
ATK_MW1278D_TIM_IRQHandler ==
  /\ timer /\ pos = LORA_FRAME_LEN /\ dr = << >>
  /\ finsh' = 1 /\ timer' = FALSE
  /\ UNCHANGED <<buf, len, usart, taskVars, line, commands, lost>>

-----------------------------------------------------------------------------
(* External: a byte comes into the data register, or is lost.              *)
Arrive(b) ==
  /\ IF dr = << >> THEN dr' = <<b>> /\ UNCHANGED ore
                   ELSE ore' = TRUE /\ UNCHANGED dr
  /\ UNCHANGED <<frameVars, tmp, taskVars, commands, lost>>

Restarted == /\ len = 0 /\ finsh = 0 /\ ~timer /\ dr = << >>
             /\ pc \in {"send", "locked", "poll"}

(* External: a frame begins, goes on without a gap, or a stray byte comes   *)
(* between frames.                                                         *)
FrameStarts ==
  /\ pos = LORA_FRAME_LEN /\ frame < MaxFrames
  /\ frame' = frame + 1 /\ pos' = 1
  /\ clean' = IF Restarted THEN clean \cup {frame'} ELSE clean
  /\ Arrive([frame |-> frame', pos |-> 1])
  /\ UNCHANGED noise

FrameGoesOn ==
  /\ pos < LORA_FRAME_LEN
  /\ pos' = pos + 1
  /\ Arrive([frame |-> frame, pos |-> pos'])
  /\ UNCHANGED <<frame, noise, clean>>

StrayByte ==
  /\ pos = LORA_FRAME_LEN /\ noise < MaxNoise
  /\ noise' = noise + 1
  /\ Arrive(Noise)
  /\ UNCHANGED <<frame, pos, clean>>

-----------------------------------------------------------------------------
(* lora_task at the top of its loop: it sends a report, if there is one.    *)
(* HAL_UART_Transmit takes the HAL lock and, a few instructions later,     *)
(* before it waits for the hardware, releases it.                          *)
SendReport ==
  /\ pc = "send"
  /\ pc' \in {"locked", "poll"}
  /\ UNCHANGED <<frameVars, usart, reg, local_buf, line, commands, lost>>

Unlock ==
  /\ pc = "locked"
  /\ pc' = "poll"
  /\ UNCHANGED <<frameVars, usart, reg, local_buf, line, commands, lost>>

(* A finished frame of at least four bytes, or the end of the loop.        *)
Poll ==
  /\ pc = "poll"
  /\ pc' = IF finsh = 1 /\ len >= LORA_FRAME_LEN THEN "get" ELSE "send"
  /\ UNCHANGED <<frameVars, usart, reg, local_buf, line, commands, lost>>

(* atk_mw1278d_uart_rx_get_frame reads len again; it then ends the frame    *)
(* with a zero byte, and the task copies the first four bytes.             *)
GetFrame ==
  /\ pc = "get"
  /\ reg' = [len |-> len, finsh |-> finsh]
  /\ pc' = "copy"
  /\ UNCHANGED <<frameVars, usart, local_buf, line, commands, lost>>

(* Mutant: the receiver is not restarted after the copy.                   *)
Copy_NoRestart ==
  /\ pc = "copy"
  /\ buf' = [buf EXCEPT ![reg.len] = Noise]
  /\ local_buf' = [i \in 1 .. LORA_FRAME_LEN |-> buf'[i - 1]]
  /\ pc' = "parse"
  /\ UNCHANGED <<len, finsh, timer, usart, reg, line, commands, lost>>

Copy ==
  /\ pc = "copy"
  /\ buf' = [buf EXCEPT ![reg.len] = Noise]
  /\ local_buf' = [i \in 1 .. LORA_FRAME_LEN |-> buf'[i - 1]]
  /\ pc' = "load_len"
  /\ UNCHANGED <<len, finsh, timer, usart, reg, line, commands, lost>>

(* atk_mw1278d_uart_rx_restart: sta.len = 0, then sta.finsh = 0.           *)
LoadSta ==
  /\ pc \in {"load_len", "load_finsh"}
  /\ reg' = [len |-> len, finsh |-> finsh]
  /\ pc' = IF pc = "load_len" THEN "store_len" ELSE "store_finsh"
  /\ UNCHANGED <<frameVars, usart, local_buf, line, commands, lost>>

StoreLen ==
  /\ pc = "store_len"
  /\ len' = 0 /\ finsh' = reg.finsh
  /\ pc' = "load_finsh"
  /\ UNCHANGED <<buf, timer, usart, reg, local_buf, line, commands, lost>>

StoreFinsh ==
  /\ pc = "store_finsh"
  /\ len' = reg.len /\ finsh' = 0
  /\ pc' = "parse"
  /\ UNCHANGED <<buf, timer, usart, reg, local_buf, line, commands, lost>>

(* Head byte, a type the parser knows, and the checksum.  It cannot see     *)
(* that head and type are those of another frame.                          *)
Accepted(bytes) ==
  /\ \A i \in 1 .. LORA_FRAME_LEN : bytes[i].pos = i
  /\ bytes[3].frame = bytes[4].frame

(* lora_parse_frame; FanArbitration has what a command does.  The copy and  *)
(* the register are dead behind it.                                        *)
lora_parse_frame ==
  /\ pc = "parse"
  /\ commands' = IF Accepted(local_buf) THEN Append(commands, local_buf[3].frame) ELSE commands
  /\ pc' = "send" /\ reg' = [len |-> 0, finsh |-> 0] /\ local_buf' = << >>
  /\ UNCHANGED <<frameVars, usart, line, lost>>

(* No step while a byte waits: the interrupt comes first.                  *)
lora_task ==
  /\ dr = << >>
  /\ \/ SendReport \/ Unlock \/ Poll \/ GetFrame \/ Copy
     \/ LoadSta \/ StoreLen \/ StoreFinsh \/ lora_parse_frame

Next == \/ FrameStarts \/ FrameGoesOn \/ StrayByte
        \/ ATK_MW1278D_UART_IRQHandler \/ ATK_MW1278D_TIM_IRQHandler \/ lora_task

Spec == Init /\ [][Next]_vars

(* A frame that has begun is completed, interrupts are taken, the timer     *)
(* runs out, and lora_task has the highest priority of the tasks that do   *)
(* work.                                                                   *)
FairSpec ==
  /\ Spec
  /\ WF_vars(FrameGoesOn) /\ WF_vars(ATK_MW1278D_UART_IRQHandler)
  /\ WF_vars(ATK_MW1278D_TIM_IRQHandler) /\ WF_vars(lora_task)
-----------------------------------------------------------------------------
TypeOK ==
  /\ buf \in [0 .. BufSize - 1 -> Byte] /\ len \in 0 .. BufSize - 1 /\ finsh \in {0, 1}
  /\ timer \in BOOLEAN /\ ore \in BOOLEAN /\ lost \in BOOLEAN
  /\ dr \in {<< >>} \cup {<<b>> : b \in Byte} /\ tmp \in Byte
  /\ pc \in {"send", "locked", "poll", "get", "copy", "load_len", "store_len",
             "load_finsh", "store_finsh", "parse"}
  /\ reg \in [len : 0 .. BufSize - 1, finsh : {0, 1}]
  /\ frame \in 0 .. MaxFrames /\ pos \in 1 .. LORA_FRAME_LEN /\ noise \in 0 .. MaxNoise
  /\ clean \subseteq 1 .. MaxFrames

(* What is executed was sent: frames are executed in order and at most      *)
(* once, although bytes get lost in rx_restart, by overflow and overrun,   *)
(* the handler makes some up behind a failed HAL_UART_Receive, stale ones   *)
(* stay in the buffer, and the task may poll in the middle of a frame.     *)
CommandsInOrder ==
  \A c, d \in DOMAIN commands : c < d => commands[c] < commands[d]

(* A frame that finds the receiver restarted is executed, whatever follows  *)
(* it, unless the bytes behind it overflow the buffer, one of them is lost *)
(* to an overrun, or one comes in the instant of the HAL lock.             *)
CleanFramesExecuted ==
  \A f \in 1 .. MaxFrames :
    f \in clean ~> lost \/ \E c \in DOMAIN commands : commands[c] = f

(* task_lora.c says that a packet may be sent at any time: then receiving   *)
(* must go on, and the interrupt for a byte that came in comes to an end.  *)
InterruptReturns == dr # << >> ~> dr = << >>
=============================================================================
