--------------------------- MODULE EspRingProofs ---------------------------
(***************************************************************************)
(* Theorems about EspRing for every ring size and byte set.                *)
(***************************************************************************)
EXTENDS EspRing, SequenceTheorems, TLAPS

(* Mask on the arguments the ring uses, without the modulus.               *)
LEMMA MaskFacts ==
  /\ \A x \in 0 .. Size - 1 : Mask(x) = x
  /\ \A x \in Size .. 2 * Size - 1 : Mask(x) = x - Size
  /\ \A x \in -(Size - 1) .. -1 : Mask(x) = x + Size
  BY RingAssumption DEF Mask

(* The fill level in linear arithmetic.                                    *)
LEMMA UsedFacts ==
  ASSUME TypeOK
  PROVE  /\ ring_used = IF head >= tail THEN head - tail ELSE head - tail + Size
         /\ ring_used \in 0 .. Size - 1
  BY MaskFacts, RingAssumption DEF TypeOK, ring_used

(* The slot of the i-th byte behind tail.                                  *)
LEMMA AtFacts ==
  ASSUME TypeOK, NEW i \in 1 .. Size
  PROVE  At(i) = buf[IF tail + i - 1 < Size THEN tail + i - 1 ELSE tail + i - 1 - Size]
  BY MaskFacts, RingAssumption DEF TypeOK, At

-----------------------------------------------------------------------------
(* A push into a ring with room adds its byte behind the others.           *)
LEMMA PushEffect ==
  ASSUME TypeOK, NEW b \in Byte, ring_free # 0,
         buf' = [buf EXCEPT ![head] = b], head' = Mask(head + 1), tail' = tail
  PROVE  /\ buf' \in [0 .. Size - 1 -> Byte] /\ head' \in 0 .. Size - 1
         /\ ring_used' = ring_used + 1
         /\ \A i \in 1 .. ring_used : At(i)' = At(i)
         /\ \A i \in Nat : i = ring_used + 1 => At(i)' = b
<1>1. head' = IF head + 1 < Size THEN head + 1 ELSE 0
  BY MaskFacts, RingAssumption DEF TypeOK
<1>2. buf' \in [0 .. Size - 1 -> Byte] /\ head' \in 0 .. Size - 1
  BY <1>1, RingAssumption DEF TypeOK
<1>3. ring_used < Size - 1
  BY UsedFacts, RingAssumption DEF ring_free
<1>4. ring_used' = ring_used + 1
  <2>1. ring_used' = IF head' >= tail THEN head' - tail ELSE head' - tail + Size
    BY <1>2, MaskFacts, RingAssumption DEF TypeOK, ring_used
  <2>2. QED
    BY <1>1, <1>3, <2>1, UsedFacts, RingAssumption DEF TypeOK
<1>5. ASSUME NEW i \in 1 .. Size
      PROVE  At(i)' = buf'[IF tail + i - 1 < Size THEN tail + i - 1 ELSE tail + i - 1 - Size]
  BY MaskFacts, RingAssumption DEF TypeOK, At
<1>6. ASSUME NEW i \in 1 .. ring_used PROVE At(i)' = At(i)
  <2>1. i \in 1 .. Size
    BY <1>3, UsedFacts, RingAssumption
  <2>2. head # IF tail + i - 1 < Size THEN tail + i - 1 ELSE tail + i - 1 - Size
    BY UsedFacts, RingAssumption DEF TypeOK
  <2>3. QED
    BY <1>5, <2>1, <2>2, AtFacts, RingAssumption DEF TypeOK
<1>7. ASSUME NEW i \in Nat, i = ring_used + 1 PROVE At(i)' = b
  <2>1. i \in 1 .. Size
    BY <1>3, <1>7, UsedFacts, RingAssumption
  <2>2. head = IF tail + i - 1 < Size THEN tail + i - 1 ELSE tail + i - 1 - Size
    <3>1. CASE head >= tail
      BY <1>7, <3>1, UsedFacts, RingAssumption DEF TypeOK
    <3>2. CASE head < tail
      BY <1>7, <3>2, UsedFacts, RingAssumption DEF TypeOK
    <3>3. QED
      BY <3>1, <3>2 DEF TypeOK
  <2>3. QED
    BY <1>5, <2>1, <2>2 DEF TypeOK
<1>8. QED
  BY <1>2, <1>4, <1>6, <1>7

(* Moving tail by k <= ring_used drops the k oldest bytes.                 *)
LEMMA AdvanceEffect ==
  ASSUME TypeOK, NEW k \in 0 .. ring_used,
         tail' = Mask(tail + k), UNCHANGED <<buf, head>>
  PROVE  /\ tail' \in 0 .. Size - 1
         /\ ring_used' = ring_used - k
         /\ \A i \in 1 .. ring_used - k : At(i)' = At(i + k)
<1>0. ring_used \in 0 .. Size - 1 /\ k \in 0 .. Size - 1
  BY UsedFacts, RingAssumption
<1>1. tail' = IF tail + k < Size THEN tail + k ELSE tail + k - Size
  BY <1>0, MaskFacts, RingAssumption DEF TypeOK
<1>2. tail' \in 0 .. Size - 1
  BY <1>0, <1>1, RingAssumption DEF TypeOK
<1>3. ring_used' = ring_used - k
  <2>1. ring_used' = IF head >= tail' THEN head - tail' ELSE head - tail' + Size
    BY <1>2, MaskFacts, RingAssumption DEF TypeOK, ring_used
  <2>2. QED
    BY <1>0, <1>1, <2>1, UsedFacts, RingAssumption DEF TypeOK
<1>4. ASSUME NEW i \in 1 .. ring_used - k PROVE At(i)' = At(i + k)
  <2>1. i \in 1 .. Size /\ i + k \in 1 .. Size
    BY <1>0, RingAssumption
  <2>2. At(i)' = buf[IF tail' + i - 1 < Size THEN tail' + i - 1 ELSE tail' + i - 1 - Size]
    BY <1>2, <2>1, MaskFacts, RingAssumption DEF TypeOK, At
  <2>3. At(i + k) = buf[IF tail + i + k - 1 < Size THEN tail + i + k - 1
                                                   ELSE tail + i + k - 1 - Size]
    BY <2>1, AtFacts, RingAssumption DEF TypeOK
  <2>4. QED
    BY <1>0, <1>1, <2>1, <2>2, <2>3, UsedFacts, RingAssumption DEF TypeOK
<1>5. QED
  BY <1>2, <1>3, <1>4

(* What is left of a window once its first k bytes are gone.               *)
LEMMA ShortenEffect ==
  ASSUME TypeOK, WindowStable, pc # "idle", NEW k \in 0 .. used, Shorten(k),
         tail' = Mask(tail + k), UNCHANGED <<buf, head>>
  PROVE  /\ tail' \in 0 .. Size - 1 /\ used' \in 0 .. Size - 1 /\ seen' \in Seq(Byte)
         /\ used' = used - k /\ used' <= ring_used' /\ Len(seen') = used'
         /\ \A i \in 1 .. used' : seen'[i] = At(i)'
<1>1. /\ used <= ring_used /\ Len(seen) = used
      /\ \A i \in 1 .. used : seen[i] = At(i)
  BY DEF WindowStable
<1>2. used \in Nat /\ ring_used \in Nat /\ k \in 0 .. ring_used
  BY <1>1, UsedFacts, RingAssumption DEF TypeOK
<1>3. /\ tail' \in 0 .. Size - 1
      /\ ring_used' = ring_used - k
      /\ \A i \in 1 .. ring_used - k : At(i)' = At(i + k)
  BY <1>2, AdvanceEffect
<1>4. used' = used - k /\ used' \in 0 .. Size - 1 /\ used' <= ring_used'
  BY <1>1, <1>2, <1>3, RingAssumption DEF Shorten, TypeOK
<1>5. /\ seen' \in Seq(Byte)
      /\ Len(seen') = used - k
      /\ \A i \in 1 .. used - k : seen'[i] = seen[i + k]
  <2>1. \A i \in k + 1 .. used : seen[i] \in Byte
    BY <1>1, <1>2 DEF TypeOK
  <2>2. /\ SubSeq(seen, k + 1, used) \in Seq(Byte)
        /\ Len(SubSeq(seen, k + 1, used)) = IF k + 1 <= used THEN used - (k + 1) + 1 ELSE 0
        /\ \A i \in 1 .. used - (k + 1) + 1 :
              SubSeq(seen, k + 1, used)[i] = seen[k + 1 + i - 1]
    BY <1>2, <2>1, SubSeqProperties, k + 1 \in Int, used \in Int
  <2>3. seen' = SubSeq(seen, k + 1, used)
    BY DEF Shorten
  <2>4. \A i \in 1 .. used - k : SubSeq(seen, k + 1, used)[i] = seen[i + k]
    <3>1. ASSUME NEW i \in 1 .. used - k
          PROVE  SubSeq(seen, k + 1, used)[i] = seen[i + k]
      <4>1. i \in 1 .. used - (k + 1) + 1 /\ k + 1 + i - 1 = i + k
        BY <1>2
      <4>2. QED
        BY <2>2, <4>1
    <3>2. QED
      BY <3>1
  <2>5. Len(SubSeq(seen, k + 1, used)) = used - k
    BY <1>2, <2>2
  <2>6. QED
    BY <2>2, <2>3, <2>4, <2>5
<1>6. ASSUME NEW i \in 1 .. used' PROVE seen'[i] = At(i)'
  <2>1. i \in 1 .. used - k /\ i \in 1 .. ring_used - k /\ i + k \in 1 .. used
    BY <1>1, <1>2, <1>4
  <2>2. QED
    BY <1>1, <1>3, <1>5, <2>1
<1>7. QED
  BY <1>3, <1>4, <1>5, <1>6

-----------------------------------------------------------------------------
(* The ring's inductive invariant: types, stable windows, met requests.    *)
RingInv == TypeOK /\ WindowStable /\ RequestsAreMet

(* The empty ring.                                                          *)
LEMMA RingInvInit == Init => RingInv
<1> SUFFICES ASSUME Init PROVE RingInv
  OBVIOUS
<1>1. TypeOK
  BY RingAssumption DEF Init, TypeOK
<1>2. QED
  BY <1>1 DEF Init, RingInv, WindowStable, RequestsAreMet

(* The interrupt keeps the invariant.                                       *)
LEMMA PushInv == ASSUME RingInv, NEW b \in Byte, ring_push(b) PROVE RingInv'
<1> USE DEF RingInv
<1>1. CASE ring_free = 0
  BY <1>1 DEF ring_push, readerVars, TypeOK, WindowStable, RequestsAreMet, ring_used, At
<1>2. CASE ring_free # 0
  <2>1. /\ buf' \in [0 .. Size - 1 -> Byte] /\ head' \in 0 .. Size - 1
        /\ ring_used' = ring_used + 1
        /\ \A i \in 1 .. ring_used : At(i)' = At(i)
    BY <1>2, PushEffect DEF ring_push
  <2>2. TypeOK'
    BY <1>2, <2>1 DEF ring_push, readerVars, TypeOK
  <2>3. RequestsAreMet'
    BY <1>2 DEF ring_push, readerVars, RequestsAreMet
  <2>4. ring_used \in Nat /\ used \in Nat
    BY UsedFacts, RingAssumption DEF TypeOK
  <2>5. ASSUME pc = "advance" PROVE byte = At(1)'
    <3>1. 1 \in 1 .. ring_used
      BY <2>4, <2>5 DEF WindowStable, RequestsAreMet, TypeOK
    <3>2. QED
      BY <2>1, <2>5, <3>1 DEF WindowStable
  <2>6. WindowStable'
    BY <1>2, <2>1, <2>4, <2>5 DEF ring_push, readerVars, WindowStable
  <2>7. QED
    BY <2>2, <2>3, <2>6
<1>3. QED
  BY <1>1, <1>2

(* The reader keeps the invariant.                                          *)
LEMMA ReaderInv == ASSUME RingInv, Reader PROVE RingInv'
<1> USE DEF RingInv
<1>0. ring_used \in 0 .. Size - 1
  BY UsedFacts
<1>1. CASE Measure
  <2>1. /\ Contents \in Seq(Byte) /\ Len(Contents) = ring_used
        /\ \A i \in 1 .. ring_used : Contents[i] = At(i)
    <3>1. ASSUME NEW i \in 1 .. ring_used PROVE At(i) \in Byte
      BY <1>0, AtFacts, RingAssumption DEF TypeOK
    <3>2. QED
      BY <1>0, <3>1, RingAssumption DEF Contents
  <2>2. TypeOK'
    BY <1>0, <1>1, <2>1 DEF Measure, TypeOK
  <2>3. WindowStable' /\ RequestsAreMet'
    BY <1>0, <1>1, <2>1 DEF Measure, WindowStable, RequestsAreMet, ring_used, At
  <2>4. QED
    BY <2>2, <2>3
<1>2. CASE LeaveWindow
  BY <1>2 DEF LeaveWindow, TypeOK, WindowStable, RequestsAreMet
<1>3. CASE ConsumeStart \/ CopyStart
  <2>1. PICK k \in 0 .. used : req' = k /\ n' = Smaller(k, ring_used)
    BY <1>3 DEF ConsumeStart, CopyStart
  <2>2. n' = k /\ k \in 0 .. Size - 1
    <3>1. used <= ring_used /\ used \in 0 .. Size - 1
      BY <1>3 DEF TypeOK, WindowStable, ConsumeStart, CopyStart
    <3>2. k \in 0 .. Size - 1 /\ ~(k > ring_used)
      BY <1>0, <2>1, <3>1, RingAssumption
    <3>3. QED
      BY <2>1, <3>2 DEF Smaller
  <2>3. TypeOK'
    <3>1. << >> \in Seq(Byte) /\ dst \in Seq(Byte)
      BY DEF TypeOK
    <3>2. QED
      BY <1>3, <2>1, <2>2, <3>1 DEF ConsumeStart, CopyStart, TypeOK
  <2>4. WindowStable'
    BY <1>3 DEF ConsumeStart, CopyStart, WindowStable, ring_used, At
  <2>5. RequestsAreMet'
    BY <1>3, <2>1, <2>2 DEF ConsumeStart, CopyStart, RequestsAreMet, TypeOK
  <2>6. QED
    BY <2>3, <2>4, <2>5
<1>4. CASE ring_consume
  <2>1. n \in 0 .. used /\ pc # "idle"
    BY <1>4 DEF ring_consume, RequestsAreMet, TypeOK
  <2>2. /\ tail' \in 0 .. Size - 1 /\ used' \in 0 .. Size - 1 /\ seen' \in Seq(Byte)
        /\ used' <= ring_used' /\ Len(seen') = used'
        /\ \A i \in 1 .. used' : seen'[i] = At(i)'
    BY <1>4, <2>1, ShortenEffect DEF ring_consume
  <2>3. QED
    BY <1>4, <2>2 DEF ring_consume, TypeOK, WindowStable, RequestsAreMet
<1>5. CASE CopyLoad
  <2>1. byte' = At(1) /\ byte' \in Byte
    BY <1>5, AtFacts, RingAssumption DEF CopyLoad, TypeOK
  <2>2. QED
    BY <1>5, <2>1 DEF CopyLoad, TypeOK, WindowStable, RequestsAreMet, ring_used, At
<1>6. CASE CopyAdvance
  <2>1. 1 \in 0 .. used /\ pc # "idle"
    BY <1>6 DEF CopyAdvance, RequestsAreMet, TypeOK
  <2>2. /\ tail' \in 0 .. Size - 1 /\ used' \in 0 .. Size - 1 /\ seen' \in Seq(Byte)
        /\ used' = used - 1 /\ used' <= ring_used' /\ Len(seen') = used'
        /\ \A i \in 1 .. used' : seen'[i] = At(i)'
    BY <1>6, <2>1, ShortenEffect DEF CopyAdvance
  <2>3. dst' \in Seq(Byte) /\ Len(dst') = Len(dst) + 1
    BY <1>6 DEF CopyAdvance, TypeOK
  <2>4. QED
    BY <1>6, <2>2, <2>3 DEF CopyAdvance, TypeOK, WindowStable, RequestsAreMet
<1>7. CASE CopyDone
  BY <1>7 DEF CopyDone, TypeOK, WindowStable, RequestsAreMet, ring_used, At
<1>8. QED
  BY <1>1, <1>2, <1>3, <1>4, <1>5, <1>6, <1>7 DEF Reader

(* The ring invariant holds in every reachable state.                      *)
THEOREM RingInvariant == Spec => []RingInv
<1>1. RingInv /\ UNCHANGED vars => RingInv'
  BY DEF RingInv, vars, TypeOK, WindowStable, RequestsAreMet, ring_used, At
<1>2. RingInv /\ [Next]_vars => RingInv'
  BY <1>1, PushInv, ReaderInv DEF Next
<1>3. QED
  BY <1>2, RingInvInit, PTL DEF Spec

(* Head, tail, buffer and the reader's variables stay in their ranges.      *)
THEOREM RingTypes == Spec => []TypeOK
BY RingInvariant, PTL DEF RingInv

(* A measured window stays what it was while the interrupt pushes bytes,    *)
(* for every ring size and byte set.                                       *)
THEOREM StableWindow == Spec => []WindowStable
BY RingInvariant, PTL DEF RingInv

(* No request inside a window is cut short by the clamps of ring_consume    *)
(* and ring_copy_out.                                                      *)
THEOREM MetRequests == Spec => []RequestsAreMet
BY RingInvariant, PTL DEF RingInv

-----------------------------------------------------------------------------
(* The ring's contents as a sequence.                                      *)
ContentsFacts ==
  /\ Contents \in Seq(Byte) /\ Len(Contents) = ring_used
  /\ \A i \in 1 .. ring_used : Contents[i] = At(i)
  /\ ring_used \in 0 .. Size - 1

(* The contents of the ring are a sequence of bytes.                        *)
LEMMA ContentsSeq == TypeOK => ContentsFacts
<1> SUFFICES ASSUME TypeOK PROVE ContentsFacts
  OBVIOUS
<1>1. ring_used \in 0 .. Size - 1
  BY UsedFacts
<1>2. ASSUME NEW i \in 1 .. ring_used PROVE At(i) \in Byte
  BY <1>1, AtFacts, RingAssumption DEF TypeOK
<1>3. QED
  BY <1>1, <1>2, RingAssumption DEF Contents, ContentsFacts

(* The same, after a step.                                                  *)
LEMMA ContentsSeqNext == TypeOK' => ContentsFacts'
BY ContentsSeq, PTL

(* An interrupt is a Put of the bounded queue.                             *)
LEMMA PushRefines ==
  ASSUME RingInv, RingInv', NEW b \in Byte, ring_push(b)
  PROVE  Fifo!Put(b)
<1>1. TypeOK /\ ContentsFacts /\ ContentsFacts'
  BY ContentsSeq, ContentsSeqNext DEF RingInv
<1>2. CASE ring_free = 0
  <2>1. Contents' = Contents
    BY <1>2 DEF ring_push, Contents, ring_used, At
  <2>2. ~(Len(Contents) < Size - 1)
    BY <1>1, <1>2, RingAssumption DEF ring_free, ContentsFacts
  <2>3. QED
    BY <2>1, <2>2 DEF Fifo!Put, ring_push, readerVars
<1>3. CASE ring_free # 0
  <2>1. /\ ring_used' = ring_used + 1
        /\ \A i \in 1 .. ring_used : At(i)' = At(i)
        /\ \A i \in Nat : i = ring_used + 1 => At(i)' = b
    BY <1>1, <1>3, PushEffect DEF ring_push
  <2>2. Contents' = Append(Contents, b)
    <3>1. Len(Contents') = Len(Append(Contents, b))
      BY <1>1, <2>1 DEF ContentsFacts
    <3>2. ASSUME NEW i \in 1 .. Len(Contents') PROVE Contents'[i] = Append(Contents, b)[i]
      BY <1>1, <2>1, <3>2 DEF ContentsFacts
    <3>3. Append(Contents, b) \in Seq(Byte) /\ Contents' \in Seq(Byte)
      BY <1>1 DEF ContentsFacts
    <3>4. QED
      BY <3>1, <3>2, <3>3, SeqEqual
  <2>3. Len(Contents) < Size - 1
    BY <1>1, <1>3, RingAssumption DEF ring_free, ContentsFacts
  <2>4. QED
    BY <2>2, <2>3 DEF Fifo!Put, ring_push, readerVars
<1>4. QED
  BY <1>2, <1>3

(* ring_consume is a Discard of the bounded queue.                         *)
LEMMA ConsumeRefines ==
  ASSUME RingInv, RingInv', ring_consume
  PROVE  Fifo!Discard(n)
<1>1. TypeOK /\ ContentsFacts /\ ContentsFacts'
  BY ContentsSeq, ContentsSeqNext DEF RingInv
<1>2. n \in 0 .. ring_used /\ ring_used \in Nat
  BY <1>1 DEF RingInv, ring_consume, RequestsAreMet, WindowStable, TypeOK, ContentsFacts
<1>3. /\ ring_used' = ring_used - n
      /\ \A i \in 1 .. ring_used - n : At(i)' = At(i + n)
  BY <1>1, <1>2, AdvanceEffect DEF ring_consume
<1>4. /\ SubSeq(Contents, n + 1, ring_used) \in Seq(Byte)
      /\ Len(SubSeq(Contents, n + 1, ring_used))
           = IF n + 1 <= ring_used THEN ring_used - (n + 1) + 1 ELSE 0
      /\ \A i \in 1 .. ring_used - (n + 1) + 1 :
            SubSeq(Contents, n + 1, ring_used)[i] = Contents[n + 1 + i - 1]
  <2>1. \A i \in n + 1 .. ring_used : Contents[i] \in Byte
    BY <1>1, <1>2 DEF ContentsFacts
  <2>2. n + 1 \in Int /\ ring_used \in Int
    BY <1>2
  <2>3. QED
    BY <2>1, <2>2, SubSeqProperties
<1>5. Contents' = SubSeq(Contents, n + 1, ring_used)
  <2>1. Len(Contents') = Len(SubSeq(Contents, n + 1, ring_used))
    BY <1>1, <1>2, <1>3, <1>4 DEF ContentsFacts
  <2>2. ASSUME NEW i \in 1 .. Len(Contents')
        PROVE  Contents'[i] = SubSeq(Contents, n + 1, ring_used)[i]
    <3>1. /\ i \in 1 .. ring_used - n /\ i \in 1 .. ring_used - (n + 1) + 1
          /\ n + 1 + i - 1 = i + n /\ i + n \in 1 .. ring_used
      BY <1>1, <1>2, <1>3 DEF ContentsFacts
    <3>2. Contents'[i] = At(i + n) /\ Contents[i + n] = At(i + n)
      BY <1>1, <1>3, <3>1 DEF ContentsFacts
    <3>3. SubSeq(Contents, n + 1, ring_used)[i] = Contents[i + n]
      BY <1>4, <3>1
    <3>4. QED
      BY <3>2, <3>3
  <2>3. QED
    BY <1>1, <1>4, <2>1, <2>2, SeqEqual DEF ContentsFacts
<1>6. QED
  BY <1>1, <1>2, <1>5 DEF Fifo!Discard, ring_consume, ContentsFacts

(* Advancing tail past a loaded byte is a Take of the bounded queue.       *)
LEMMA AdvanceRefines ==
  ASSUME RingInv, RingInv', CopyAdvance
  PROVE  Fifo!Take
<1>1. TypeOK /\ ContentsFacts /\ ContentsFacts'
  BY ContentsSeq, ContentsSeqNext DEF RingInv
<1>2. 1 \in 0 .. ring_used /\ ring_used \in Nat
  BY <1>1 DEF RingInv, CopyAdvance, RequestsAreMet, WindowStable, TypeOK, ContentsFacts
<1>3. /\ ring_used' = ring_used - 1
      /\ \A i \in 1 .. ring_used - 1 : At(i)' = At(i + 1)
  BY <1>1, <1>2, AdvanceEffect DEF CopyAdvance
<1>4. Contents # << >> /\ Head(Contents) = byte
  BY <1>1, <1>2 DEF RingInv, CopyAdvance, WindowStable, ContentsFacts
<1>5. /\ Tail(Contents) \in Seq(Byte) /\ Len(Tail(Contents)) = ring_used - 1
      /\ \A i \in 1 .. ring_used - 1 : Tail(Contents)[i] = Contents[i + 1]
  BY <1>1, <1>4, HeadTailProperties DEF ContentsFacts
<1>6. Contents' = Tail(Contents)
  <2>1. Len(Contents') = Len(Tail(Contents))
    BY <1>1, <1>3, <1>5 DEF ContentsFacts
  <2>2. ASSUME NEW i \in 1 .. Len(Contents') PROVE Contents'[i] = Tail(Contents)[i]
    BY <1>1, <1>2, <1>3, <1>5 DEF ContentsFacts
  <2>3. QED
    BY <1>1, <1>5, <2>1, <2>2, SeqEqual DEF ContentsFacts
<1>7. QED
  BY <1>4, <1>6 DEF Fifo!Take, CopyAdvance

(* The interrupt-driven ring implements the bounded queue: for every ring   *)
(* size, no accepted byte is lost, repeated or reordered.                  *)
THEOREM RingImplementsFifo == Spec => ImplementsFifo
<1>1. Init => Fifo!Init
  <2> SUFFICES ASSUME Init PROVE Fifo!Init
    OBVIOUS
  <2>1. ring_used = 0
    BY MaskFacts, RingAssumption DEF Init, ring_used
  <2>2. TypeOK
    BY RingInvInit DEF RingInv
  <2>3. Contents = << >>
    BY <2>1, <2>2, ContentsSeq, EmptySeq DEF ContentsFacts
  <2>4. QED
    BY <2>3 DEF Init, Fifo!Init
<1>2. RingInv /\ RingInv' /\ [Next]_vars => [Fifo!Next]_<<Contents, dst>>
  <2> SUFFICES ASSUME RingInv, RingInv', [Next]_vars
               PROVE  [Fifo!Next]_<<Contents, dst>>
    OBVIOUS
  <2>1. ASSUME NEW b \in Byte, ring_push(b) PROVE Fifo!Next
    BY <2>1, PushRefines DEF Fifo!Next
  <2>2. CASE ring_consume
    <3>1. n \in 0 .. Size - 1
      BY DEF RingInv, TypeOK
    <3>2. QED
      BY <2>2, <3>1, ConsumeRefines DEF Fifo!Next
  <2>3. CASE CopyAdvance
    BY <2>3, AdvanceRefines DEF Fifo!Next
  <2>4. CASE CopyStart
    <3>1. Contents' = Contents
      BY <2>4 DEF CopyStart, Contents, ring_used, At
    <3>2. QED
      BY <2>4, <3>1 DEF CopyStart, Fifo!Next, Fifo!Begin
  <2>5. CASE Measure \/ LeaveWindow \/ ConsumeStart \/ CopyLoad \/ CopyDone \/ UNCHANGED vars
    BY <2>5 DEF Measure, LeaveWindow, ConsumeStart, CopyLoad, CopyDone, vars,
                Contents, ring_used, At
  <2>6. QED
    BY <2>1, <2>2, <2>3, <2>4, <2>5 DEF Next, Reader
<1>3. QED
  BY <1>1, <1>2, RingInvariant, PTL DEF Spec, ImplementsFifo, Fifo!Spec
=============================================================================
