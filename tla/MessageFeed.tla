---------------------------- MODULE MessageFeed ----------------------------
(***************************************************************************)
(* What the callback of the MQTT client may rely on, over a channel that   *)
(* loses frames: the messages of the frames that arrive, one after the     *)
(* other, each frame to its end before the next, no frame twice and none   *)
(* after a later one.  Once the channel breaks, nothing is promised any    *)
(* more.                                                                   *)
(***************************************************************************)
EXTENDS Naturals, Sequences

CONSTANT Frames

VARIABLES frames,  \* what the broker has sent
          taken,   \* the last frame taken, 0 before the first
          rest,    \* what is left of it
          got,     \* the messages given to the callback
          broken   \* the channel has broken

Init == frames = << >> /\ taken = 0 /\ rest = << >> /\ got = << >> /\ ~broken

Send(f) ==
  /\ frames' = Append(frames, f)
  /\ UNCHANGED <<taken, rest, got>>

Take(n) ==
  /\ rest = << >> /\ taken < n
  /\ taken' = n /\ rest' = frames[n]
  /\ UNCHANGED <<frames, got>>

HandOver ==
  /\ rest # << >>
  /\ got' = Append(got, Head(rest)) /\ rest' = Tail(rest)
  /\ UNCHANGED <<frames, taken>>

Deliver == \/ \E f \in Frames : Send(f)
           \/ \E n \in DOMAIN frames : Take(n)
           \/ HandOver

Break == broken'

Next == (~broken /\ ~broken' /\ Deliver) \/ Break

Spec == Init /\ [][Next]_<<frames, taken, rest, got, broken>>
=============================================================================
