--------------------------- MODULE LoraUartProofs ---------------------------
(***************************************************************************)
(* Theorems about LoraUart, for every buffer length and every number of    *)
(* frames and noise bytes.                                                 *)
(***************************************************************************)
EXTENDS LoraUart, SequenceFacts, TLAPS

Slots  == 0 .. BufSize - 1
Fields == 1 .. LORA_FRAME_LEN
Frames == 1 .. MaxFrames

(* The frame executed last, 0 before the first one.                        *)
Last == IF commands = << >> THEN 0 ELSE commands[Len(commands)]

(* lora_task has copied four bytes and not yet parsed them.                 *)
Copied == pc \in {"load_len", "store_len", "load_finsh", "store_finsh", "parse"}

(* The frame that will have been executed last after the parse to come.     *)
Bound == IF Copied /\ Accepted(local_buf) THEN local_buf[3].frame ELSE Last

(* A byte sent when the line was at byte p of frame f, and one that makes    *)
(* no frame up to k the command: the value is byte 3.                      *)
Sent(b, f, p) == b.frame < f \/ (b.frame = f /\ b.pos <= p)
Newer(b, k) == b.pos = 3 => b.frame > k

(* All of frame k has been sent by then.                                    *)
Complete(k, f, p) == k < f \/ (k = f /\ p = LORA_FRAME_LEN)

Fresh(n, k) == \A i \in Slots : i < n => Newer(buf[i], k)

Types ==
  /\ buf \in [Slots -> Byte] /\ len \in Slots /\ finsh \in {0, 1}
  /\ timer \in BOOLEAN /\ ore \in BOOLEAN /\ lost \in BOOLEAN
  /\ dr = << >> \/ \E b \in Byte : dr = <<b>>
  /\ tmp \in Byte
  /\ pc \in {"send", "locked", "poll", "get", "copy", "load_len", "store_len",
             "load_finsh", "store_finsh", "parse"}
  /\ reg \in [len : Slots, finsh : {0, 1}]
  /\ frame \in 0 .. MaxFrames /\ pos \in Fields /\ noise \in 0 .. MaxNoise
  /\ clean \subseteq Frames
  /\ commands \in Seq(Frames)
  /\ Copied => local_buf \in [Fields -> Byte]

(* The byte that will be read is the last one on the line.                  *)
Waiting ==
  dr # << >> /\ ~ore => dr[1] = Noise \/ (dr[1].frame = frame /\ dr[1].pos = pos)

(* The handler may store its tmp again, and it may be the byte with a       *)
(* command's value: then the frame's last byte has not come in.            *)
TmpIsNewer ==
  tmp.pos = 3 => /\ Last < tmp.frame /\ Bound < tmp.frame
                 /\ \A i \in Slots : buf[i].pos = LORA_FRAME_LEN => buf[i].frame < tmp.frame

BytesSent ==
  /\ Sent(tmp, frame, pos)
  /\ \A i \in Slots : Sent(buf[i], frame, pos)
  /\ Copied => \A i \in Fields : Sent(local_buf[i], frame, pos)
  /\ Complete(Last, frame, pos) /\ Complete(Bound, frame, pos)

FreshBytes ==
  /\ Copied => \A i \in Fields : Newer(local_buf[i], Last)
  /\ pc \in {"send", "locked", "poll"} => Fresh(len, Last)
  /\ pc \in {"get", "copy"} => Fresh(LORA_FRAME_LEN, Last)
  /\ pc \in {"load_finsh", "store_finsh", "parse"} => Fresh(len, Bound)
  /\ pc = "store_finsh" => Fresh(reg.len, Bound)

UartInv == Types /\ Waiting /\ TmpIsNewer /\ BytesSent /\ FreshBytes /\ CommandsInOrder

-----------------------------------------------------------------------------
(* The constants as numbers.                                                *)
LEMMA Sizes ==
  /\ BufSize \in Nat /\ BufSize > LORA_FRAME_LEN
  /\ MaxFrames \in Nat /\ MaxNoise \in Nat /\ LORA_FRAME_LEN = 4
  BY UartAssumption DEF LORA_FRAME_LEN

(* Slots of the buffer and fields of a frame as numbers.                    *)
LEMMA SlotFacts ==
  /\ \A i \in Slots : i \in Nat /\ i < BufSize /\ (i < BufSize - 1 => i + 1 \in Slots)
  /\ 0 \in Slots /\ 1 \in Slots /\ \A i \in Fields : i - 1 \in Slots /\ i - 1 < LORA_FRAME_LEN
  /\ \A i \in Fields : i \in Nat /\ i <= LORA_FRAME_LEN
  /\ 3 \in Fields /\ 4 \in Fields
  BY Sizes DEF Slots, Fields

(* A byte on the line is of a frame sent or noise.                          *)
LEMMA ByteFacts ==
  ASSUME NEW b \in Byte
  PROVE  /\ b.frame \in Nat /\ b.frame <= MaxFrames /\ b.pos \in Nat
         /\ b.pos # 0 => b.frame \in Frames
         /\ Noise \in Byte /\ Noise.frame = 0 /\ Noise.pos = 0
<1>1. CASE b = Noise
  BY <1>1, Sizes DEF Noise, Byte
<1>2. CASE b \in [frame : 1 .. MaxFrames, pos : 1 .. LORA_FRAME_LEN]
  <2> DEFINE F == 1 .. MaxFrames
             P == 1 .. LORA_FRAME_LEN
  <2>1. b \in [frame : F, pos : P]
    BY <1>2
  <2> HIDE DEF F, P
  <2>2. b.frame \in F /\ b.pos \in P
    BY <2>1
  <2>3. QED
    BY <2>2, Sizes DEF F, P, Frames, Noise, Byte
<1>3. QED
  BY <1>1, <1>2 DEF Byte

(* Every byte of every frame is one.                                        *)
LEMMA FrameByte ==
  ASSUME NEW f \in Frames, NEW p \in Fields
  PROVE  [frame |-> f, pos |-> p] \in Byte
  BY DEF Byte, Frames, Fields

(* An accepted copy names a frame whose last byte is in it.                 *)
LEMMA AcceptedFacts ==
  ASSUME NEW bytes \in [Fields -> Byte], Accepted(bytes)
  PROVE  /\ bytes[3].frame \in Frames
         /\ bytes[4].frame = bytes[3].frame /\ bytes[4].pos = LORA_FRAME_LEN
<1>1. bytes[3].pos = 3 /\ bytes[4].pos = 4 /\ bytes[3].frame = bytes[4].frame
  BY Sizes, SlotFacts DEF Accepted, Fields
<1>2. bytes[3] \in Byte
  BY SlotFacts
<1>3. QED
  BY <1>1, <1>2, ByteFacts, Sizes

(* The last frame seen and the bound on the next are numbers.               *)
LEMMA LastFacts ==
  ASSUME Types
  PROVE  Last \in Nat /\ Bound \in Nat
<1>1. Last \in Nat
  <2>1. CASE commands = << >>
    BY <2>1 DEF Last
  <2>2. CASE commands # << >>
    <3>1. Len(commands) \in 1 .. Len(commands)
      BY <2>2 DEF Types
    <3>2. commands[Len(commands)] \in Frames
      BY <3>1 DEF Types
    <3>3. QED
      BY <2>2, <3>2 DEF Last, Frames
  <2>3. QED
    BY <2>1, <2>2
<1>2. CASE Copied /\ Accepted(local_buf)
  <2>1. local_buf[3].frame \in Frames
    BY <1>2, AcceptedFacts DEF Types
  <2>2. QED
    BY <1>1, <1>2, <2>1 DEF Bound, Frames
<1>3. CASE ~(Copied /\ Accepted(local_buf))
  BY <1>1, <1>3 DEF Bound
<1>4. QED
  BY <1>1, <1>2, <1>3

(* The receiver at start.                                                   *)
LEMMA UartInit == Init => UartInv
<1> SUFFICES ASSUME Init PROVE UartInv
  OBVIOUS
<1>1. /\ Noise \in Byte /\ Noise.frame = 0 /\ Noise.pos = 0
  BY DEF Noise, Byte
<1>2. ~Copied /\ Last = 0 /\ Bound = 0
  BY DEF Init, Copied, Last, Bound
<1>3. buf = [i \in Slots |-> Noise]
  BY DEF Init, Slots
<1>4. Types
  <2>1. buf \in [Slots -> Byte] /\ len \in Slots /\ reg \in [len : Slots, finsh : {0, 1}]
    BY <1>1, <1>3, SlotFacts DEF Init
  <2>2. commands \in Seq(Frames)
    BY DEF Init
  <2>3. frame \in 0 .. MaxFrames /\ pos \in Fields /\ noise \in 0 .. MaxNoise
    BY Sizes DEF Init, Fields
  <2>4. QED
    BY <1>2, <2>1, <2>2, <2>3 DEF Init, Types
<1>5. BytesSent
  BY <1>1, <1>2, <1>3, Sizes DEF Init, BytesSent, Sent, Complete
<1>6. FreshBytes
  BY <1>1, <1>2, <1>3 DEF Init, FreshBytes, Fresh, Newer
<1>7. Waiting /\ TmpIsNewer /\ CommandsInOrder
  BY <1>1 DEF Init, Waiting, TmpIsNewer, CommandsInOrder
<1>8. QED
  BY <1>4, <1>5, <1>6, <1>7 DEF UartInv

-----------------------------------------------------------------------------
(* What storing a byte does to the buffer.                                  *)
LEMMA StoreFacts ==
  ASSUME Types, NEW b \in Byte, Store(b)
  PROVE  /\ buf' \in [Slots -> Byte] /\ len' \in Slots
         /\ timer' \in BOOLEAN /\ finsh' = finsh
         /\ \A i \in Slots : buf'[i] = b \/ buf'[i] = buf[i]
         /\ \A i \in Slots : i < len' => buf'[i] = b \/ (i < len /\ buf'[i] = buf[i])
<1>1. buf \in [Slots -> Byte] /\ len \in Slots /\ timer \in BOOLEAN
  BY DEF Types
<1>2. CASE len < BufSize - 1
  <2>1. /\ buf' = [buf EXCEPT ![len] = b] /\ len' = len + 1
        /\ timer' = (timer \/ len = 0) /\ UNCHANGED finsh
    BY <1>2 DEF Store
  <2>2. len' \in Slots /\ timer' \in BOOLEAN /\ buf' \in [Slots -> Byte]
    BY <1>1, <1>2, <2>1, SlotFacts
  <2>3. \A i \in Slots : buf'[i] = IF i = len THEN b ELSE buf[i]
    BY <1>1, <2>1
  <2>4. \A i \in Slots : i < len' => i = len \/ i < len
    BY <1>1, <2>1, SlotFacts
  <2>5. QED
    BY <1>1, <2>1, <2>2, <2>3, <2>4
<1>3. CASE ~(len < BufSize - 1)
  <2>1. buf' = [buf EXCEPT ![0] = b] /\ len' = 1 /\ UNCHANGED <<finsh, timer>>
    BY <1>3 DEF Store
  <2>2. len' \in Slots /\ buf' \in [Slots -> Byte]
    BY <1>1, <2>1, SlotFacts
  <2>3. \A i \in Slots : buf'[i] = IF i = 0 THEN b ELSE buf[i]
    BY <1>1, <2>1
  <2>4. \A i \in Slots : i < len' => i = 0
    BY <2>1, SlotFacts
  <2>5. QED
    BY <1>1, <2>1, <2>2, <2>3, <2>4
<1>4. QED
  BY <1>2, <1>3

(* The handler stores its tmp, which no command up to Bound used, wherever   *)
(* lora_task is.                                                           *)
LEMMA ByteStored ==
  ASSUME UartInv, tmp' \in Byte, Store(tmp'),
         UNCHANGED <<taskVars, line, commands>>,
         Sent(tmp', frame, pos), TmpIsNewer', Newer(tmp', Last), Newer(tmp', Bound),
         dr' = << >> \/ dr' = dr, ore' = ore, lost' \in BOOLEAN
  PROVE  UartInv'
<1>1. Types
  BY DEF UartInv
<1>2. PICK b \in Byte : b = tmp'
  OBVIOUS
<1>3. /\ Last' = Last /\ Bound' = Bound /\ Copied' = Copied
      /\ UNCHANGED <<pc, reg, local_buf, commands, frame, pos, noise, clean>>
  BY DEF Last, Bound, Copied, taskVars, line
<1>4. /\ buf' \in [Slots -> Byte] /\ len' \in Slots
      /\ timer' \in BOOLEAN /\ finsh' = finsh
      /\ \A i \in Slots : buf'[i] = b \/ buf'[i] = buf[i]
      /\ \A i \in Slots : i < len' => buf'[i] = b \/ (i < len /\ buf'[i] = buf[i])
  BY <1>1, <1>2, StoreFacts
<1>5. Types'
  BY <1>1, <1>3, <1>4 DEF Types
<1>6. Waiting'
  BY <1>3 DEF UartInv, Waiting
<1>7. BytesSent'
  <2>1. \A i \in Slots : Sent(buf'[i], frame, pos)
    BY <1>2, <1>4 DEF UartInv, BytesSent
  <2>2. QED
    BY <1>3, <2>1 DEF UartInv, BytesSent
<1>8. FreshBytes'
  <2>1. \A k : Newer(b, k) /\ Fresh(len, k) => Fresh(len, k)'
    BY <1>4 DEF Fresh, Newer
  <2>2. \A k, n : Newer(b, k) /\ Fresh(n, k) => Fresh(n, k)'
    BY <1>4 DEF Fresh, Newer
  <2>3. QED
    BY <1>2, <1>3, <2>1, <2>2 DEF UartInv, FreshBytes
<1>9. CommandsInOrder'
  BY <1>3 DEF UartInv, CommandsInOrder
<1>10. QED
  BY <1>5, <1>6, <1>7, <1>8, <1>9 DEF UartInv

(* A byte behind the last one sent is new to every frame sent completely.   *)
LEMMA LineFacts ==
  ASSUME Types, Complete(Last, frame, pos), Complete(Bound, frame, pos)
  PROVE  /\ frame \in Nat /\ frame <= MaxFrames /\ pos \in Nat
         /\ Last <= frame /\ Bound <= frame
         /\ pos < LORA_FRAME_LEN => Last < frame /\ Bound < frame
<1>1. frame \in Nat /\ frame <= MaxFrames /\ pos \in Nat
  BY Sizes, SlotFacts DEF Types
<1>2. QED
  BY <1>1, LastFacts DEF Complete

(* The handler gets the byte that waits.  With a command's value in it, the  *)
(* line is at byte 3 of the frame.                                         *)
LEMMA ReceiveNext ==
  ASSUME UartInv, dr # << >>, ReceiveByte, UNCHANGED <<taskVars, line, commands>>
  PROVE  UartInv'
<1>1. /\ Types /\ Waiting /\ Complete(Last, frame, pos) /\ Complete(Bound, frame, pos)
  BY DEF UartInv, BytesSent
<1>2. /\ ~ore /\ tmp' = dr[1] /\ dr' = << >> /\ Store(tmp') /\ ore' = ore
      /\ lost' \in BOOLEAN
  BY <1>1 DEF ReceiveByte, Types
<1>3. tmp' \in Byte
  BY <1>1, <1>2 DEF Types
<1>4. /\ frame \in Nat /\ pos \in Nat /\ Last \in Nat /\ Bound \in Nat
      /\ pos < LORA_FRAME_LEN => Last < frame /\ Bound < frame
  BY <1>1, LineFacts, LastFacts
<1>5. \/ tmp'.frame = 0 /\ tmp'.pos = 0
      \/ tmp'.frame = frame /\ tmp'.pos = pos
  BY <1>1, <1>2 DEF Waiting, Noise
<1>6. Sent(tmp', frame, pos)
  BY <1>4, <1>5 DEF Sent
<1>7. Last' = Last /\ Bound' = Bound
  BY DEF Last, Bound, Copied, taskVars
<1>8. tmp'.pos = 3 => tmp'.frame = frame /\ pos = 3 /\ Last < frame /\ Bound < frame
  BY <1>4, <1>5, Sizes
<1>9. Newer(tmp', Last) /\ Newer(tmp', Bound)
  BY <1>4, <1>8 DEF Newer
<1>10. TmpIsNewer'
  <2> SUFFICES ASSUME tmp'.pos = 3
               PROVE  /\ Last' < tmp'.frame /\ Bound' < tmp'.frame
                      /\ \A i \in Slots : buf'[i].pos = LORA_FRAME_LEN => buf'[i].frame < tmp'.frame
    BY DEF TmpIsNewer
  <2>1. \A i \in Slots : buf[i] \in Byte /\ Sent(buf[i], frame, pos)
    BY <1>1 DEF UartInv, BytesSent, Types
  <2>2. \A i \in Slots : buf[i].pos = LORA_FRAME_LEN => buf[i].frame < frame
    BY <1>8, <2>1, Sizes DEF Sent
  <2>3. \A i \in Slots : buf'[i] = tmp' \/ buf'[i] = buf[i]
    BY <1>1, <1>2, <1>3, StoreFacts
  <2>4. QED
    BY <1>7, <1>8, <2>2, <2>3, Sizes
<1>11. QED
  BY <1>2, <1>3, <1>6, <1>9, <1>10, ByteStored

(* The HAL is locked: the handler stores its tmp once more, or noise.        *)
LEMMA BusyNext ==
  ASSUME UartInv, ReceiveBusy, UNCHANGED <<taskVars, line, commands>>
  PROVE  UartInv'
<1>1. /\ Types /\ TmpIsNewer /\ Sent(tmp, frame, pos)
  BY DEF UartInv, BytesSent
<1>2. /\ tmp' = tmp \/ tmp' = Noise
      /\ dr' = dr /\ Store(tmp') /\ ore' = ore /\ lost' \in BOOLEAN
  BY DEF ReceiveBusy
<1>3. Noise \in Byte /\ Noise.frame = 0 /\ Noise.pos = 0
  BY DEF Noise, Byte
<1>4. tmp' \in Byte
  BY <1>1, <1>2, <1>3 DEF Types
<1>5. Sent(tmp', frame, pos)
  <2>1. frame \in Nat /\ pos \in Nat
    BY <1>1, Sizes, SlotFacts DEF Types
  <2>2. QED
    BY <1>1, <1>2, <1>3, <2>1 DEF Sent
<1>6. Last' = Last /\ Bound' = Bound
  BY DEF Last, Bound, Copied, taskVars
<1>7. Newer(tmp', Last) /\ Newer(tmp', Bound)
  <2>1. tmp.frame \in Nat /\ Last \in Nat /\ Bound \in Nat
    BY <1>1, ByteFacts, LastFacts DEF Types
  <2>2. QED
    BY <1>1, <1>2, <1>3, <2>1 DEF Newer, TmpIsNewer
<1>8. TmpIsNewer'
  <2>1. \A i \in Slots : buf'[i] = tmp' \/ buf'[i] = buf[i]
    BY <1>1, <1>2, <1>4, StoreFacts
  <2>2. QED
    BY <1>1, <1>2, <1>3, <1>6, <2>1, Sizes DEF TmpIsNewer
<1>9. QED
  BY <1>2, <1>4, <1>5, <1>7, <1>8, ByteStored

(* The interrupt: an overrun drops the byte that waits, otherwise one is     *)
(* stored.                                                                 *)
LEMMA HandlerNext == ASSUME UartInv, ATK_MW1278D_UART_IRQHandler PROVE UartInv'
<1>1. UNCHANGED <<taskVars, line, commands>> /\ dr # << >>
  BY DEF ATK_MW1278D_UART_IRQHandler
<1>2. CASE DropOverrun
  <2>1. /\ ore' = FALSE /\ dr' = << >> /\ lost' = TRUE
        /\ UNCHANGED <<buf, len, finsh, timer, tmp, pc, reg, local_buf,
                       frame, pos, noise, clean, commands>>
    BY <1>1, <1>2 DEF DropOverrun, frameVars, taskVars, line
  <2>2. Last' = Last /\ Bound' = Bound /\ Copied' = Copied
    BY <2>1 DEF Last, Bound, Copied
  <2>3. Types' /\ Waiting'
    BY <2>1, <2>2 DEF UartInv, Types, Waiting
  <2>4. TmpIsNewer' /\ BytesSent' /\ FreshBytes' /\ CommandsInOrder'
    BY <2>1, <2>2 DEF UartInv, TmpIsNewer, BytesSent, FreshBytes, Fresh, CommandsInOrder
  <2>5. QED
    BY <2>3, <2>4 DEF UartInv
<1>3. QED
  BY <1>1, <1>2, ReceiveNext, BusyNext DEF ATK_MW1278D_UART_IRQHandler

-----------------------------------------------------------------------------
(* A byte comes to the data register: the line has moved on.                *)
LEMMA ByteArrives ==
  ASSUME UartInv, NEW b \in Byte, Arrive(b),
         b = Noise \/ (b.frame = frame' /\ b.pos = pos'),
         frame' \in 0 .. MaxFrames, pos' \in Fields, noise' \in 0 .. MaxNoise,
         clean' \subseteq Frames,
         \A c \in Byte : Sent(c, frame, pos) => Sent(c, frame', pos'),
         \A k \in Nat : Complete(k, frame, pos) => Complete(k, frame', pos')
  PROVE  UartInv'
<1>1. /\ Types /\ UNCHANGED <<buf, len, finsh, timer, tmp, pc, reg, local_buf, commands, lost>>
  BY DEF UartInv, Arrive, frameVars, taskVars
<1>2. Last' = Last /\ Bound' = Bound /\ Copied' = Copied
  BY <1>1 DEF Last, Bound, Copied
<1>3. \/ dr = << >> /\ dr' = <<b>> /\ ore' = ore
      \/ dr' = dr /\ ore' = TRUE
  BY DEF Arrive
<1>4. Types'
  BY <1>1, <1>2, <1>3 DEF Types
<1>5. Waiting'
  BY <1>3 DEF Waiting
<1>6. TmpIsNewer' /\ FreshBytes' /\ CommandsInOrder'
  BY <1>1, <1>2 DEF UartInv, TmpIsNewer, FreshBytes, Fresh, CommandsInOrder
<1>7. BytesSent'
  <2>1. \A i \in Slots : Sent(buf[i], frame', pos')
    BY <1>1 DEF UartInv, BytesSent, Types
  <2>2. Complete(Last, frame', pos') /\ Complete(Bound, frame', pos')
    BY <1>1, LastFacts DEF UartInv, BytesSent
  <2>3. Copied => \A i \in Fields : Sent(local_buf[i], frame', pos')
    BY <1>1 DEF UartInv, BytesSent, Types
  <2>4. Sent(tmp, frame', pos')
    BY <1>1 DEF UartInv, BytesSent, Types
  <2>5. QED
    BY <1>1, <1>2, <2>1, <2>2, <2>3, <2>4 DEF BytesSent
<1>8. QED
  BY <1>4, <1>5, <1>6, <1>7 DEF UartInv

(* The line moves on.                                                       *)
LEMMA LineNext ==
  ASSUME UartInv, FrameStarts \/ FrameGoesOn \/ StrayByte
  PROVE  UartInv'
<1>1. Types
  BY DEF UartInv
<1>2. frame \in Nat /\ frame <= MaxFrames /\ pos \in Nat
  BY <1>1, Sizes, SlotFacts DEF Types
<1>3. \A c \in Byte : c.frame \in Nat /\ c.pos \in Nat
  BY ByteFacts
<1>4. CASE FrameStarts
  <2> DEFINE b == [frame |-> frame + 1, pos |-> 1]
  <2>1. /\ frame < MaxFrames /\ frame' = frame + 1 /\ pos' = 1 /\ noise' = noise
        /\ clean' = clean \/ clean' = clean \cup {frame + 1}
        /\ Arrive(b)
    BY <1>4 DEF FrameStarts
  <2>2. frame + 1 \in Frames /\ 1 \in Fields /\ frame' \in 0 .. MaxFrames
    BY <1>2, <2>1, Sizes DEF Frames, Fields
  <2>3. b \in Byte /\ b.frame = frame + 1 /\ b.pos = 1
    BY <2>2, FrameByte
  <2> HIDE DEF b
  <2>4. b = Noise \/ (b.frame = frame' /\ b.pos = pos')
    BY <2>1, <2>3
  <2>5. /\ \A c \in Byte : Sent(c, frame, pos) => Sent(c, frame', pos')
        /\ \A k \in Nat : Complete(k, frame, pos) => Complete(k, frame', pos')
    BY <1>2, <1>3, <2>1 DEF Sent, Complete
  <2>6. pos' \in Fields /\ noise' \in 0 .. MaxNoise /\ clean' \subseteq Frames
    BY <1>1, <2>1, <2>2 DEF Types
  <2>7. QED
    BY <2>1, <2>2, <2>3, <2>4, <2>5, <2>6, ByteArrives
<1>5. CASE FrameGoesOn
  <2> DEFINE b == [frame |-> frame, pos |-> pos + 1]
  <2>1. /\ pos < LORA_FRAME_LEN /\ pos' = pos + 1 /\ UNCHANGED <<frame, noise, clean>>
        /\ Arrive(b)
    BY <1>5 DEF FrameGoesOn
  <2>2. pos + 1 \in Fields
    BY <1>2, <2>1, Sizes DEF Fields
  <2>3. frame \in Frames
    <3>1. Last \in Nat /\ Last < frame
      BY <1>1, <2>1, LineFacts, LastFacts DEF UartInv, BytesSent
    <3>2. QED
      BY <1>2, <3>1, Sizes DEF Frames
  <2>4. b \in Byte /\ b.frame = frame /\ b.pos = pos + 1
    BY <2>2, <2>3, FrameByte
  <2> HIDE DEF b
  <2>5. b = Noise \/ (b.frame = frame' /\ b.pos = pos')
    BY <2>1, <2>4
  <2>6. /\ \A c \in Byte : Sent(c, frame, pos) => Sent(c, frame', pos')
        /\ \A k \in Nat : Complete(k, frame, pos) => Complete(k, frame', pos')
    BY <1>2, <1>3, <2>1 DEF Sent, Complete
  <2>7. /\ frame' \in 0 .. MaxFrames /\ pos' \in Fields /\ noise' \in 0 .. MaxNoise
        /\ clean' \subseteq Frames
    BY <1>1, <2>1, <2>2 DEF Types
  <2>8. QED
    BY <2>1, <2>4, <2>5, <2>6, <2>7, ByteArrives
<1>6. CASE StrayByte
  <2>1. /\ noise < MaxNoise /\ noise' = noise + 1 /\ UNCHANGED <<frame, pos, clean>>
        /\ Arrive(Noise)
    BY <1>6 DEF StrayByte
  <2>2. Noise \in Byte
    BY DEF Noise, Byte
  <2>3. /\ \A c \in Byte : Sent(c, frame, pos) => Sent(c, frame', pos')
        /\ \A k \in Nat : Complete(k, frame, pos) => Complete(k, frame', pos')
    BY <2>1
  <2>4. /\ frame' \in 0 .. MaxFrames /\ pos' \in Fields /\ noise' \in 0 .. MaxNoise
        /\ clean' \subseteq Frames
    BY <1>1, <2>1, Sizes DEF Types
  <2>5. QED
    BY <2>1, <2>2, <2>3, <2>4, ByteArrives
<1>7. QED
  BY <1>4, <1>5, <1>6

-----------------------------------------------------------------------------
(* lora_task copies four bytes that no command used; if the parser will     *)
(* accept them, all of their frame has been sent.                          *)
LEMMA CopyNext == ASSUME UartInv, Copy PROVE UartInv'
<1>1. /\ Types /\ pc = "copy" /\ pc' = "load_len" /\ buf' = [buf EXCEPT ![reg.len] = Noise]
      /\ local_buf' = [i \in Fields |-> buf'[i - 1]]
      /\ UNCHANGED <<len, finsh, timer, reg, dr, ore, tmp, frame, pos, noise, commands, clean,
                     lost>>
  BY DEF UartInv, Copy, Fields, usart, line
<1>2. Noise \in Byte /\ Noise.frame = 0 /\ Noise.pos = 0
  BY DEF Noise, Byte
<1>3. /\ buf' \in [Slots -> Byte]
      /\ \A i \in Slots : buf'[i] = Noise \/ buf'[i] = buf[i]
  <2>1. reg.len \in Slots /\ buf \in [Slots -> Byte]
    BY <1>1 DEF Types
  <2>2. QED
    BY <1>1, <1>2, <2>1
<1>4. /\ local_buf' \in [Fields -> Byte]
      /\ \A i \in Fields : local_buf'[i] = Noise \/ local_buf'[i] = buf[i - 1]
  BY <1>1, <1>3, SlotFacts
<1>5. ~Copied /\ Copied' /\ Last' = Last /\ Last \in Nat
  BY <1>1, LastFacts DEF Copied, Last
<1>6. Sent(Noise, frame, pos) /\ Newer(Noise, Last)
  <2>1. frame \in Nat /\ pos \in Nat
    BY <1>1, Sizes, SlotFacts DEF Types
  <2>2. QED
    BY <1>2, <2>1 DEF Sent, Newer
<1>7. Types'
  BY <1>1, <1>3, <1>4 DEF Types
<1>8. BytesSent'
  <2>1. \A i \in Slots : Sent(buf'[i], frame, pos)
    BY <1>3, <1>6 DEF UartInv, BytesSent
  <2>2. \A i \in Fields : Sent(local_buf'[i], frame, pos)
    BY <1>4, <1>6, SlotFacts DEF UartInv, BytesSent
  <2>3. Complete(Last, frame, pos)
    BY DEF UartInv, BytesSent
  <2>4. Complete(Bound', frame, pos)
    <3>1. CASE Accepted(local_buf')
      <4>1. /\ Bound' = local_buf'[3].frame
            /\ local_buf'[4].frame = local_buf'[3].frame /\ local_buf'[4].pos = LORA_FRAME_LEN
        BY <1>4, <1>5, <3>1, AcceptedFacts DEF Bound, Accepted
      <4>2. Sent(local_buf'[4], frame, pos) /\ pos \in Nat /\ pos <= LORA_FRAME_LEN
        BY <1>1, <2>2, SlotFacts DEF Types
      <4>3. QED
        BY <4>1, <4>2, Sizes DEF Sent, Complete
    <3>2. CASE ~Accepted(local_buf')
      <4>1. Bound' = Last
        BY <1>5, <3>2 DEF Bound, Accepted
      <4>2. QED
        BY <2>3, <4>1
    <3>3. QED
      BY <3>1, <3>2
  <2>5. Sent(tmp, frame, pos)
    BY DEF UartInv, BytesSent
  <2>6. QED
    BY <1>1, <1>5, <2>1, <2>2, <2>3, <2>4, <2>5 DEF BytesSent
<1>9. FreshBytes'
  <2>1. \A i \in Fields : Newer(buf[i - 1], Last)
    BY <1>1, SlotFacts DEF UartInv, FreshBytes, Fresh
  <2>2. \A i \in Fields : Newer(local_buf'[i], Last)
    BY <1>4, <1>6, <2>1
  <2>3. QED
    BY <1>1, <1>5, <2>2 DEF FreshBytes
<1>10. TmpIsNewer'
  <2> SUFFICES ASSUME tmp.pos = 3
               PROVE  /\ Last < tmp.frame /\ Bound' < tmp.frame
                      /\ \A i \in Slots : buf'[i].pos = LORA_FRAME_LEN => buf'[i].frame < tmp.frame
    BY <1>1, <1>5 DEF TmpIsNewer
  <2>1. /\ Last < tmp.frame
        /\ \A i \in Slots : buf[i].pos = LORA_FRAME_LEN => buf[i].frame < tmp.frame
    BY DEF UartInv, TmpIsNewer
  <2>2. Bound' < tmp.frame
    <3>1. CASE Accepted(local_buf')
      <4>1. /\ Bound' = local_buf'[4].frame /\ local_buf'[4].pos = LORA_FRAME_LEN
        BY <1>4, <1>5, <3>1, AcceptedFacts DEF Bound, Accepted
      <4>2. local_buf'[4] = buf[3] /\ 3 \in Slots
        BY <1>2, <1>4, <4>1, Sizes, SlotFacts
      <4>3. QED
        BY <2>1, <4>1, <4>2
    <3>2. CASE ~Accepted(local_buf')
      BY <1>5, <2>1, <3>2 DEF Bound, Accepted
    <3>3. QED
      BY <3>1, <3>2
  <2>3. QED
    BY <1>2, <1>3, <2>1, <2>2, Sizes
<1>11. Waiting' /\ CommandsInOrder'
  BY <1>1 DEF UartInv, Waiting, CommandsInOrder
<1>12. QED
  BY <1>7, <1>8, <1>9, <1>10, <1>11 DEF UartInv

(* A parsed command is newer than the last one, so the order is kept.       *)
LEMMA ParseNext == ASSUME UartInv, lora_parse_frame PROVE UartInv'
<1>1. /\ Types /\ Copied /\ ~Copied' /\ pc = "parse" /\ pc' = "send"
      /\ UNCHANGED <<buf, len, finsh, timer, dr, ore, tmp, frame, pos, noise, clean, lost>>
      /\ reg' = [len |-> 0, finsh |-> 0] /\ reg' \in [len : Slots, finsh : {0, 1}]
  BY SlotFacts DEF UartInv, lora_parse_frame, Copied, frameVars, usart, line
<1>2. CASE ~Accepted(local_buf)
  <2>1. commands' = commands /\ Last' = Last /\ Bound = Last /\ Bound' = Last
    BY <1>1, <1>2 DEF lora_parse_frame, Last, Bound
  <2>2. /\ Types' /\ Waiting' /\ TmpIsNewer' /\ BytesSent' /\ FreshBytes'
        /\ CommandsInOrder'
    BY <1>1, <2>1 DEF UartInv, Types, Waiting, TmpIsNewer, BytesSent, FreshBytes, Fresh,
                      CommandsInOrder
  <2>3. QED
    BY <2>2 DEF UartInv
<1>3. CASE Accepted(local_buf)
  <2> DEFINE f == local_buf[3].frame
             n == Len(commands)
  <2>1. f \in Frames /\ commands \in Seq(Frames) /\ Bound = f
    BY <1>1, <1>3, AcceptedFacts DEF Types, Bound
  <2>2. f > Last
    <3>1. Newer(local_buf[3], Last) /\ local_buf[3].pos = 3
      BY <1>1, <1>3, Sizes, SlotFacts DEF UartInv, FreshBytes, Accepted, Fields
    <3>2. QED
      BY <2>1, <3>1 DEF Newer, Frames
  <2>3. commands' = Append(commands, f)
    BY <1>3 DEF lora_parse_frame
  <2> HIDE DEF f
  <2>4. /\ n \in Nat /\ commands' \in Seq(Frames) /\ DOMAIN commands' = 1 .. n + 1
        /\ Len(commands') = n + 1 /\ commands'[n + 1] = f
        /\ \A i \in 1 .. n : commands'[i] = commands[i]
    BY <2>1, <2>3, AppendFacts
  <2>5. Last' = f /\ Bound' = f
    <3>1. commands' # << >>
      BY <2>4
    <3>2. QED
      BY <1>1, <2>4, <3>1 DEF Last, Bound
  <2>6. Types'
    BY <1>1, <2>4 DEF Types
  <2>7. BytesSent'
    BY <1>1, <2>1, <2>5 DEF UartInv, BytesSent
  <2>8. FreshBytes'
    BY <1>1, <2>1, <2>5 DEF UartInv, FreshBytes, Fresh
  <2>9. CommandsInOrder'
    <3>1. \A i \in 1 .. n : commands[i] \in Nat /\ commands[i] < f
      <4> SUFFICES ASSUME NEW i \in 1 .. n PROVE commands[i] \in Nat /\ commands[i] < f
        OBVIOUS
      <4>1. Last = commands[n] /\ n \in 1 .. n /\ commands[i] \in Frames /\ commands[n] \in Frames
        BY <2>1 DEF Last
      <4>2. i < n => commands[i] < commands[n]
        BY <2>1, <4>1 DEF UartInv, CommandsInOrder
      <4>3. QED
        BY <2>1, <2>2, <4>1, <4>2 DEF Frames
    <3>2. \A c, d \in 1 .. n : c < d => commands[c] < commands[d]
      BY <2>1 DEF UartInv, CommandsInOrder
    <3> HIDE DEF n
    <3>3. \A c \in 1 .. n + 1 : c \in 1 .. n \/ c = n + 1
      BY <2>4
    <3>4. QED
      BY <2>4, <3>1, <3>2, <3>3 DEF CommandsInOrder
  <2>10. Waiting' /\ TmpIsNewer'
    BY <1>1, <2>1, <2>5 DEF UartInv, Waiting, TmpIsNewer
  <2>11. QED
    BY <2>6, <2>7, <2>8, <2>9, <2>10 DEF UartInv
<1>4. QED
  BY <1>2, <1>3

(* Polling and the read-modify-writes of rx_restart move no byte and parse   *)
(* none; they choose how many bytes of the buffer count.                   *)
LEMMA TaskNext ==
  ASSUME UartInv, SendReport \/ Unlock \/ Poll \/ GetFrame \/ LoadSta \/ StoreLen \/ StoreFinsh
  PROVE  UartInv'
<1>1. /\ Types /\ len \in Slots /\ finsh \in {0, 1}
      /\ UNCHANGED <<buf, timer, dr, ore, tmp, local_buf, frame, pos, noise, commands, clean,
                     lost>>
  BY DEF UartInv, Types, SendReport, Unlock, Poll, GetFrame, LoadSta, StoreLen, StoreFinsh,
         frameVars, usart, line
<1>2. Copied' = Copied /\ Last' = Last /\ Bound' = Bound
  BY <1>1 DEF SendReport, Unlock, Poll, GetFrame, LoadSta, StoreLen, StoreFinsh, Copied, Last, Bound
<1>3. Waiting' /\ TmpIsNewer' /\ BytesSent' /\ CommandsInOrder'
  BY <1>1, <1>2 DEF UartInv, Waiting, TmpIsNewer, BytesSent, CommandsInOrder
<1>4. reg.len \in Slots /\ reg.finsh \in {0, 1}
  BY <1>1 DEF Types
<1>5. Types'
  <2>1. pc' \in {"send", "locked", "poll", "get", "copy", "load_len", "store_len",
                 "load_finsh", "store_finsh", "parse"}
    BY DEF SendReport, Unlock, Poll, GetFrame, LoadSta, StoreLen, StoreFinsh
  <2>2. len' \in Slots /\ finsh' \in {0, 1} /\ reg' \in [len : Slots, finsh : {0, 1}]
    BY <1>1, <1>4, SlotFacts
       DEF Types, SendReport, Unlock, Poll, GetFrame, LoadSta, StoreLen, StoreFinsh, frameVars
  <2>3. QED
    BY <1>1, <1>2, <2>1, <2>2 DEF Types
<1>6. FreshBytes'
  <2>1. \A k : len >= LORA_FRAME_LEN /\ Fresh(len, k) => Fresh(LORA_FRAME_LEN, k)
    BY <1>1, Sizes, SlotFacts DEF Fresh
  <2>2. CASE Poll
    <3>1. /\ pc = "poll" /\ len' = len
          /\ pc' = "send" \/ (pc' = "get" /\ len >= LORA_FRAME_LEN)
      BY <2>2 DEF Poll, frameVars
    <3>2. Fresh(len, Last) /\ (len >= LORA_FRAME_LEN => Fresh(LORA_FRAME_LEN, Last))
      BY <2>1, <3>1 DEF UartInv, FreshBytes
    <3>3. ~Copied'
      BY <3>1 DEF Copied
    <3>4. QED
      BY <1>1, <1>2, <3>1, <3>2, <3>3 DEF FreshBytes, Fresh
  <2>3. CASE GetFrame
    BY <1>1, <1>2, <2>3 DEF GetFrame, UartInv, FreshBytes, Fresh, Copied, frameVars
  <2>4. CASE LoadSta
    <3>1. \/ pc = "load_len" /\ pc' = "store_len"
          \/ pc = "load_finsh" /\ pc' = "store_finsh"
      BY <2>4 DEF LoadSta
    <3>2. len' = len /\ reg'.len = len
      BY <2>4 DEF LoadSta, frameVars
    <3>3. QED
      BY <1>1, <1>2, <3>1, <3>2 DEF UartInv, FreshBytes, Fresh
  <2>5. CASE StoreLen
    <3>1. pc = "store_len" /\ pc' = "load_finsh" /\ len' = 0
      BY <2>5 DEF StoreLen
    <3>2. \A i \in Slots : ~ (i < len')
      BY <3>1, SlotFacts
    <3>3. QED
      BY <1>1, <1>2, <3>1, <3>2 DEF UartInv, FreshBytes, Fresh
  <2>6. CASE StoreFinsh
    <3>1. pc = "store_finsh" /\ pc' = "parse" /\ len' = reg.len
      BY <2>6 DEF StoreFinsh
    <3>2. QED
      BY <1>1, <1>2, <3>1 DEF UartInv, FreshBytes, Fresh
  <2>7. CASE SendReport \/ Unlock
    <3>1. /\ pc \in {"send", "locked"} /\ pc' \in {"locked", "poll"} /\ len' = len
      BY <2>7 DEF SendReport, Unlock, frameVars
    <3>2. QED
      BY <1>1, <1>2, <3>1 DEF UartInv, FreshBytes, Fresh, Copied
  <2>8. QED
    BY <2>2, <2>3, <2>4, <2>5, <2>6, <2>7
<1>7. QED
  BY <1>3, <1>5, <1>6 DEF UartInv

(* Every step of line, timer and lora_task keeps the invariant.             *)
LEMMA UartNext == UartInv /\ [Next]_vars => UartInv'
<1> SUFFICES ASSUME UartInv, [Next]_vars PROVE UartInv'
  OBVIOUS
<1>1. CASE ATK_MW1278D_TIM_IRQHandler \/ UNCHANGED vars
  <2>1. /\ UNCHANGED <<buf, len, dr, ore, tmp, pc, reg, local_buf, frame, pos, noise, clean,
                       commands, lost>>
        /\ timer' \in {timer, FALSE} /\ finsh' \in {finsh, 1}
    BY <1>1 DEF ATK_MW1278D_TIM_IRQHandler, vars, frameVars, usart, taskVars, line
  <2>2. Copied' = Copied /\ Last' = Last /\ Bound' = Bound
    BY <2>1 DEF Copied, Last, Bound
  <2>3. Types'
    BY <2>1, <2>2 DEF UartInv, Types
  <2>4. Waiting' /\ TmpIsNewer' /\ BytesSent' /\ FreshBytes' /\ CommandsInOrder'
    BY <2>1, <2>2 DEF UartInv, Waiting, TmpIsNewer, BytesSent, FreshBytes, Fresh, CommandsInOrder
  <2>5. QED
    BY <2>3, <2>4 DEF UartInv
<1>2. QED
  BY <1>1, LineNext, HandlerNext, CopyNext, ParseNext, TaskNext DEF Next, lora_task

(* The inductive invariant: which bytes of the buffer and of the copy may    *)
(* still become a command, at every point of the receive path.             *)
THEOREM UartInvariant == Spec => []UartInv
  BY UartInit, UartNext, PTL DEF Spec

(* Every variable of the receive path keeps its type; the interrupt never    *)
(* writes behind the buffer.                                               *)
THEOREM UartTypes == Spec => []TypeOK
<1>1. UartInv => TypeOK
  BY DEF UartInv, Types, TypeOK, Slots, Fields, Frames
<1>2. QED
  BY <1>1, UartInvariant, PTL

(* Frames are executed in the order they were sent in, each at most once,    *)
(* wherever the two interrupts fall.                                       *)
THEOREM CommandOrder == Spec => []CommandsInOrder
<1>1. UartInv => CommandsInOrder
  BY DEF UartInv
<1>2. QED
  BY <1>1, UartInvariant, PTL
=============================================================================
