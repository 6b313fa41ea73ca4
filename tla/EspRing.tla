------------------------------ MODULE EspRing ------------------------------
(***************************************************************************)
(* The receive ring buffer of the ESP8266 driver: the UART4 interrupt      *)
(* pushes bytes, mqtt_task looks at them, discards them and copies them    *)
(* out, without a lock.  The interrupt runs to completion on the single    *)
(* core and can fall between any two accesses the task makes to head, tail *)
(* and buf, so the task's operations are cut there (variable pc).          *)
(*                                                                         *)
(* The reader is every caller in esp8266.c at once: it measures the ring   *)
(* (ring_used), looks at the bytes of that window and then issues any      *)
(* number of ring_consume and ring_copy_out calls that stay within it, as  *)
(* at_wait_for, parse_ipd_frames and esp8266_loop do.                      *)
(***************************************************************************)
EXTENDS Integers, Sequences

CONSTANTS Size,   \* ESP_RXBUF_SIZE, a power of two so that & MASK is % Size
          Byte    \* the byte values that occur

ASSUME RingAssumption == Size \in Nat /\ Size >= 2 /\ 0 \in Byte

VARIABLES
  buf, head, tail,  \* s_rx
  pc,               \* where the reader is
  used,             \* what is left of its ring_used() measurement
  req,              \* the count it asked ring_consume or ring_copy_out for
  n,                \* that count after the clamp to ring_used()
  byte,             \* the byte ring_copy_out has loaded
  dst,              \* what ring_copy_out has stored so far
  seen              \* history: the bytes in the window when it was measured

vars == <<buf, head, tail, pc, used, req, n, byte, dst, seen>>
readerVars == <<pc, used, req, n, byte, dst, seen>>

(* Mutant: an index is not wrapped.                                        *)
Mask_NoWrap(x) == x

Mask(x) == x % Size

ring_used == Mask(head - tail)

(* Mutant: no slot is kept free to tell a full ring from an empty one.     *)
ring_free_NoGap == Size - ring_used

ring_free == Size - 1 - ring_used

(* The i-th byte behind tail, i >= 1, and the bytes the ring holds.        *)
At(i) == buf[Mask(tail + i - 1)]
Contents == [i \in 1 .. ring_used |-> At(i)]

Smaller(a, b) == IF a > b THEN b ELSE a

Init ==
  /\ buf = [i \in 0 .. Size - 1 |-> 0]
  /\ head = 0 /\ tail = 0
  /\ pc = "idle" /\ used = 0 /\ req = 0 /\ n = 0
  /\ byte = 0 /\ dst = << >>
  /\ seen = << >>

-----------------------------------------------------------------------------
(* Mutant: a full ring is not noticed.                                     *)
ring_push_NoGuard(b) ==
  /\ buf' = [buf EXCEPT ![head] = b] /\ head' = Mask(head + 1)
  /\ UNCHANGED <<tail, readerVars>>

(* ESP_UART_IRQHandler: one byte into the ring; a full ring drops it.      *)
ring_push(b) ==
  /\ IF ring_free = 0
       THEN UNCHANGED <<buf, head>>
       ELSE buf' = [buf EXCEPT ![head] = b] /\ head' = Mask(head + 1)
  /\ UNCHANGED <<tail, readerVars>>

-----------------------------------------------------------------------------
(* The reader measures the ring, then looks at the window it measured.     *)
Measure ==
  /\ pc = "idle"
  /\ pc' = "window"
  /\ used' = ring_used
  /\ seen' = Contents
  /\ UNCHANGED <<buf, head, tail, req, n, byte, dst>>

(* Nothing (more) to do with this window.                                  *)
LeaveWindow ==
  /\ pc = "window"
  /\ pc' = "idle"
  /\ UNCHANGED <<buf, head, tail, used, req, n, byte, dst, seen>>

(* Mutant: the window is not shortened by what was consumed.               *)
Shorten_Not(k) == UNCHANGED <<used, seen>>

(* The caller goes on with the rest of its window.                         *)
Shorten(k) ==
  /\ used' = used - k
  /\ seen' = SubSeq(seen, k + 1, used)

(* ring_consume: the clamp re-reads head; the interrupt may come between   *)
(* it and the store to tail.                                               *)
ConsumeStart ==
  /\ pc = "window"
  /\ \E k \in 0 .. used : req' = k /\ n' = Smaller(k, ring_used)
  /\ pc' = "consume"
  /\ UNCHANGED <<buf, head, tail, used, byte, dst, seen>>

ring_consume ==
  /\ pc = "consume"
  /\ tail' = Mask(tail + n)
  /\ Shorten(n)
  /\ pc' = "window"
  /\ UNCHANGED <<buf, head, req, n, byte, dst>>

(* ring_copy_out: clamp, then load a byte and advance tail until done.     *)
CopyStart ==
  /\ pc = "window"
  /\ \E k \in 0 .. used : req' = k /\ n' = Smaller(k, ring_used)
  /\ dst' = << >>
  /\ pc' = "copy"
  /\ UNCHANGED <<buf, head, tail, used, byte, seen>>

CopyLoad ==
  /\ pc = "copy" /\ Len(dst) < n
  /\ byte' = buf[tail]
  /\ pc' = "advance"
  /\ UNCHANGED <<buf, head, tail, used, req, n, dst, seen>>

CopyAdvance ==
  /\ pc = "advance"
  /\ dst' = Append(dst, byte)
  /\ tail' = Mask(tail + 1)
  /\ Shorten(1)
  /\ pc' = "copy"
  /\ UNCHANGED <<buf, head, req, n, byte>>

CopyDone ==
  /\ pc = "copy" /\ Len(dst) = n
  /\ pc' = "window"
  /\ UNCHANGED <<buf, head, tail, used, req, n, byte, dst, seen>>

Reader == \/ Measure \/ LeaveWindow \/ ConsumeStart \/ ring_consume
          \/ CopyStart \/ CopyLoad \/ CopyAdvance \/ CopyDone

Next == (\E b \in Byte : ring_push(b)) \/ Reader

Spec == Init /\ [][Next]_vars
-----------------------------------------------------------------------------
TypeOK ==
  /\ buf \in [0 .. Size - 1 -> Byte]
  /\ head \in 0 .. Size - 1 /\ tail \in 0 .. Size - 1
  /\ pc \in {"idle", "window", "consume", "copy", "advance"}
  /\ used \in 0 .. Size - 1 /\ req \in 0 .. Size - 1 /\ n \in 0 .. Size - 1
  /\ byte \in Byte /\ dst \in Seq(Byte) /\ seen \in Seq(Byte)

(* The bytes of a measured window stay what they were while the reader      *)
(* works on it, however many bytes the interrupt pushes meanwhile: the     *)
(* search loops of at_wait_for, parse_ipd_frames and esp8266_loop see one  *)
(* consistent text, and their offsets stay right after each consume.       *)
WindowStable ==
  /\ pc # "idle" => /\ used <= ring_used
                    /\ Len(seen) = used
                    /\ \A i \in 1 .. used : seen[i] = At(i)
  /\ pc = "advance" => byte = At(1)

(* Inside a window the clamps never bite: ring_consume and ring_copy_out    *)
(* move exactly the bytes asked for, so `got != dlen' in parse_ipd_frames  *)
(* never happens and no frame is torn.                                     *)
RequestsAreMet ==
  /\ pc \in {"consume", "copy", "advance"} => n = req
  /\ pc = "consume" => n <= used
  /\ pc \in {"copy", "advance"} => n <= used + Len(dst)
  /\ pc = "advance" => Len(dst) < n

(* The ring implements the bounded queue of BoundedFifo with one slot       *)
(* fewer than its size: no byte the interrupt accepted is lost, repeated   *)
(* or reordered on its way to the reader.                                  *)
Fifo == INSTANCE BoundedFifo WITH fifo <- Contents, out <- dst, Cap <- Size - 1
ImplementsFifo == Fifo!Spec
=============================================================================
