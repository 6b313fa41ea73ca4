---------------------------- MODULE BoundedFifo ----------------------------
(***************************************************************************)
(* What a reader of the ESP8266 receive buffer relies on: a queue of at    *)
(* most Cap bytes in arrival order.  A byte that finds the queue full is   *)
(* lost, bytes already queued never are; the reader discards a prefix or   *)
(* takes bytes one at a time from the front.                               *)
(***************************************************************************)
EXTENDS Naturals, Sequences

CONSTANTS Byte, Cap

VARIABLES fifo,   \* the queued bytes
          out     \* what the current read has taken so far

Init == fifo = << >> /\ out = << >>

Put(b) ==
  /\ fifo' = IF Len(fifo) < Cap THEN Append(fifo, b) ELSE fifo
  /\ UNCHANGED out

Discard(k) ==
  /\ k <= Len(fifo)
  /\ fifo' = SubSeq(fifo, k + 1, Len(fifo))
  /\ UNCHANGED out

Begin == out' = << >> /\ UNCHANGED fifo

Take ==
  /\ fifo # << >>
  /\ out' = Append(out, Head(fifo))
  /\ fifo' = Tail(fifo)

Next == \/ \E b \in Byte : Put(b)
        \/ \E k \in 0 .. Cap : Discard(k)
        \/ Begin
        \/ Take

Spec == Init /\ [][Next]_<<fifo, out>>
=============================================================================
