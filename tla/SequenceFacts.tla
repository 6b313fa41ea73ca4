--------------------------- MODULE SequenceFacts ---------------------------
(***************************************************************************)
(* What the operations on queues and rings of the other modules do to a    *)
(* sequence, element by element, in the form their proofs need.            *)
(***************************************************************************)
EXTENDS Integers, Sequences, SequenceTheorems, WellFoundedInduction, TLAPS

(* A reader drops the k oldest elements.                                   *)
LEMMA DropFacts ==
  ASSUME NEW S, NEW s \in Seq(S), NEW k \in 0 .. Len(s)
  PROVE  /\ SubSeq(s, k + 1, Len(s)) \in Seq(S)
         /\ Len(SubSeq(s, k + 1, Len(s))) = Len(s) - k
         /\ DOMAIN SubSeq(s, k + 1, Len(s)) = 1 .. Len(s) - k
         /\ \A i \in 1 .. Len(s) - k : SubSeq(s, k + 1, Len(s))[i] = s[i + k]
<1> DEFINE t == SubSeq(s, k + 1, Len(s))
<1>1. Len(s) \in Nat /\ k \in Nat /\ k + 1 \in Int /\ Len(s) \in Int /\ k <= Len(s)
  OBVIOUS
<1>2. \A i \in k + 1 .. Len(s) : s[i] \in S
  BY <1>1
<1>3. /\ t \in Seq(S)
      /\ Len(t) = IF k + 1 <= Len(s) THEN Len(s) - (k + 1) + 1 ELSE 0
      /\ \A i \in 1 .. Len(s) - (k + 1) + 1 : t[i] = s[k + 1 + i - 1]
  BY <1>1, <1>2, SubSeqProperties
<1>4. Len(t) = Len(s) - k
  BY <1>1, <1>3
<1>5. \A i \in 1 .. Len(s) - k : i \in 1 .. Len(s) - (k + 1) + 1 /\ k + 1 + i - 1 = i + k
  BY <1>1
<1>6. \A i \in 1 .. Len(s) - k : t[i] = s[i + k]
  BY <1>3, <1>5
<1>7. DOMAIN t = 1 .. Len(t)
  BY <1>3
<1>8. QED
  BY <1>3, <1>4, <1>6, <1>7

(* A producer appends an element.                                          *)
LEMMA AppendFacts ==
  ASSUME NEW S, NEW s \in Seq(S), NEW e \in S
  PROVE  /\ Append(s, e) \in Seq(S)
         /\ Len(Append(s, e)) = Len(s) + 1
         /\ DOMAIN Append(s, e) = 1 .. Len(s) + 1
         /\ \A i \in 1 .. Len(s) : Append(s, e)[i] = s[i]
         /\ Append(s, e)[Len(s) + 1] = e
         /\ \A i \in DOMAIN Append(s, e) : i \in DOMAIN s \/ i = Len(s) + 1
  OBVIOUS

(* A consumer takes the oldest element.                                    *)
LEMMA TakeFacts ==
  ASSUME NEW S, NEW s \in Seq(S), s # << >>
  PROVE  /\ Head(s) \in S /\ Head(s) = s[1] /\ 1 \in DOMAIN s
         /\ Tail(s) \in Seq(S)
         /\ Len(Tail(s)) = Len(s) - 1
         /\ DOMAIN Tail(s) = 1 .. Len(s) - 1
         /\ \A i \in DOMAIN Tail(s) : i + 1 \in DOMAIN s /\ Tail(s)[i] = s[i + 1]
  OBVIOUS

(* Sequences of one and of two elements.                                   *)
LEMMA OneFacts ==
  ASSUME NEW S, NEW e \in S
  PROVE  <<e>> \in Seq(S) /\ Len(<<e>>) = 1 /\ DOMAIN <<e>> = 1 .. 1 /\ <<e>>[1] = e
  OBVIOUS

(* A sequence of two.                                                       *)
LEMMA TwoFacts ==
  ASSUME NEW S, NEW e \in S, NEW f \in S
  PROVE  /\ <<e, f>> \in Seq(S) /\ Len(<<e, f>>) = 2 /\ DOMAIN <<e, f>> = 1 .. 2
         /\ <<e, f>>[1] = e /\ <<e, f>>[2] = f
  OBVIOUS

(* The length of one sequence behind another.                              *)
LEMMA ConcatType ==
  ASSUME NEW S, NEW a \in Seq(S), NEW b \in Seq(S)
  PROVE  /\ a \o b \in Seq(S) /\ Len(a) \in Nat /\ Len(b) \in Nat
         /\ Len(a \o b) = Len(a) + Len(b)
  BY ConcatProperties

(* One sequence behind another.                                            *)
LEMMA ConcatFacts ==
  ASSUME NEW S, NEW a \in Seq(S), NEW b \in Seq(S)
  PROVE  /\ a \o b \in Seq(S) /\ Len(a) \in Nat /\ Len(b) \in Nat
         /\ Len(a \o b) = Len(a) + Len(b)
         /\ \A i \in Nat : 0 < i /\ i <= Len(a) => (a \o b)[i] = a[i]
         /\ \A i \in Nat : 0 < i /\ i <= Len(b) => (a \o b)[Len(a) + i] = b[i]
<1>1. Len(a) \in Nat /\ Len(b) \in Nat /\ a \o b \in Seq(S) /\ Len(a \o b) = Len(a) + Len(b)
  BY ConcatProperties
<1>2. \A i \in 1 .. Len(a) + Len(b) :
        (a \o b)[i] = IF i <= Len(a) THEN a[i] ELSE b[i - Len(a)]
  BY ConcatProperties
<1>3. ASSUME NEW i \in Nat, 0 < i, i <= Len(a) PROVE (a \o b)[i] = a[i]
  <2>1. i \in 1 .. Len(a) + Len(b)
    BY <1>1, <1>3
  <2>2. QED
    BY <1>2, <1>3, <2>1
<1>4. ASSUME NEW i \in Nat, 0 < i, i <= Len(b) PROVE (a \o b)[Len(a) + i] = b[i]
  <2> DEFINE j == Len(a) + i
  <2>1. j \in 1 .. Len(a) + Len(b) /\ ~ (j <= Len(a)) /\ j - Len(a) = i
    BY <1>1, <1>4
  <2> HIDE DEF j
  <2>2. (a \o b)[j] = b[i]
    BY <1>2, <2>1
  <2>3. QED
    BY <2>2 DEF j
<1>5. QED
  BY <1>1, <1>3, <1>4

(* A sequence given as a function.                                         *)
LEMMA FunctionFacts ==
  ASSUME NEW S, NEW n \in Nat, NEW f \in [1 .. n -> S]
  PROVE  f \in Seq(S) /\ Len(f) = n
  OBVIOUS

(* A non-empty set of numbers has a least element: the way to induction     *)
(* where a proof needs it.                                                 *)
LEMMA LeastExists ==
  ASSUME NEW S \in SUBSET Nat, S # {}
  PROVE  \E x \in S : \A y \in S : x <= y
<1>1. PICK x \in S : \A y \in S : ~ (<<y, x>> \in OpToRel(<, Nat))
  BY WFMin, NatLessThanWellFounded
<1>2. ASSUME NEW y \in S PROVE x <= y
  <2>1. x \in Nat /\ y \in Nat /\ ~ (y < x)
    BY <1>1 DEF OpToRel
  <2>2. QED
    BY <2>1
<1>3. QED
  BY <1>2
(* A part of a sequence that holds another, element by element.             *)
LEMMA PartIs ==
  ASSUME NEW S, NEW s \in Seq(S), NEW b \in Seq(S), NEW k \in Nat, k + Len(b) <= Len(s),
         \A i \in Nat : 0 < i /\ i <= Len(b) => s[k + i] = b[i]
  PROVE  SubSeq(s, k + 1, k + Len(b)) = b
<1> DEFINE n == Len(b)
           m == k + n
           t == SubSeq(s, k + 1, m)
<1>1. n \in Nat /\ Len(s) \in Nat /\ m \in Nat /\ m <= Len(s)
  OBVIOUS
<1> HIDE DEF n
<1>2. \A i \in k + 1 .. m : s[i] \in S
  BY <1>1
<1> HIDE DEF m
<1>3. /\ t \in Seq(S) /\ Len(t) = IF k + 1 <= m THEN m - (k + 1) + 1 ELSE 0
      /\ \A i \in 1 .. m - (k + 1) + 1 : t[i] = s[k + 1 + i - 1]
  BY <1>1, <1>2, SubSeqProperties
<1> HIDE DEF t
<1>4. Len(t) = n
  BY <1>1, <1>3 DEF m
<1>5. ASSUME NEW i \in 1 .. n PROVE t[i] = b[i]
  <2>1. i \in 1 .. m - (k + 1) + 1 /\ k + 1 + i - 1 = k + i
    BY <1>1 DEF m
  <2>2. t[i] = s[k + i]
    BY <1>3, <2>1
  <2>3. i \in Nat /\ 0 < i /\ i <= Len(b)
    BY <1>1 DEF n
  <2>4. QED
    BY <2>2, <2>3
<1>6. t = b
  <2>1. DOMAIN t = 1 .. n /\ DOMAIN b = 1 .. n
    BY <1>3, <1>4 DEF n
  <2>2. t = [i \in 1 .. n |-> t[i]] /\ b = [i \in 1 .. n |-> b[i]]
    BY <1>3, <2>1
  <2>3. QED
    BY <1>5, <2>2
<1>7. QED
  BY <1>6 DEF t, m, n

(* What stands in front in a sequence, and what stands behind.              *)
LEMMA CutFacts ==
  ASSUME NEW S, NEW a \in Seq(S), NEW b \in Seq(S)
  PROVE  /\ SubSeq(a \o b, 1, Len(a)) = a
         /\ SubSeq(a \o b, Len(a) + 1, Len(a \o b)) = b
<1> DEFINE s == a \o b
<1>1. /\ s \in Seq(S) /\ Len(a) \in Nat /\ Len(b) \in Nat /\ Len(s) = Len(a) + Len(b)
      /\ \A i \in Nat : 0 < i /\ i <= Len(a) => s[i] = a[i]
      /\ \A i \in Nat : 0 < i /\ i <= Len(b) => s[Len(a) + i] = b[i]
  BY ConcatFacts
<1> HIDE DEF s
<1>2. SubSeq(s, 0 + 1, 0 + Len(a)) = a
  <2>1. 0 \in Nat /\ 0 + Len(a) <= Len(s)
    BY <1>1
  <2>2. \A i \in Nat : 0 < i /\ i <= Len(a) => s[0 + i] = a[i]
    BY <1>1
  <2>3. QED
    BY <1>1, <2>1, <2>2, PartIs
<1>3. SubSeq(s, Len(a) + 1, Len(a) + Len(b)) = b
  <2>1. Len(a) + Len(b) <= Len(s)
    BY <1>1
  <2>2. QED
    BY <1>1, <2>1, PartIs
<1>4. 0 + 1 = 1 /\ 0 + Len(a) = Len(a)
  BY <1>1
<1>5. QED
  BY <1>1, <1>2, <1>3, <1>4 DEF s

(* What stands between two others.                                         *)
LEMMA MiddleFacts ==
  ASSUME NEW S, NEW a \in Seq(S), NEW b \in Seq(S), NEW c \in Seq(S)
  PROVE  SubSeq(a \o (b \o c), Len(a) + 1, Len(a) + Len(b)) = b
<1> DEFINE t == b \o c
           s == a \o t
<1>1. /\ t \in Seq(S) /\ Len(b) \in Nat /\ Len(c) \in Nat /\ Len(t) = Len(b) + Len(c)
      /\ \A i \in Nat : 0 < i /\ i <= Len(b) => t[i] = b[i]
  BY ConcatFacts
<1> HIDE DEF t
<1>2. /\ s \in Seq(S) /\ Len(a) \in Nat /\ Len(s) = Len(a) + Len(t)
      /\ \A i \in Nat : 0 < i /\ i <= Len(t) => s[Len(a) + i] = t[i]
  <2>1. a \in Seq(S) /\ t \in Seq(S)
    BY <1>1
  <2>2. QED
    BY <2>1, ConcatFacts
<1> HIDE DEF s
<1>3. ASSUME NEW i \in Nat, 0 < i, i <= Len(b) PROVE s[Len(a) + i] = b[i]
  <2>1. i <= Len(t)
    BY <1>1, <1>3
  <2>2. QED
    BY <1>1, <1>2, <1>3, <2>1
<1>4. Len(a) + Len(b) <= Len(s)
  BY <1>1, <1>2
<1>5. SubSeq(s, Len(a) + 1, Len(a) + Len(b)) = b
  <2>1. s \in Seq(S) /\ b \in Seq(S) /\ Len(a) \in Nat
    BY <1>2
  <2>2. QED
    BY <1>3, <1>4, <2>1, PartIs
<1>6. QED
  BY <1>5 DEF s, t

(* One element in front.                                                   *)
LEMMA FrontFacts ==
  ASSUME NEW S, NEW e \in S, NEW x \in Seq(S)
  PROVE  /\ <<e>> \o x \in Seq(S) /\ Len(<<e>> \o x) = 1 + Len(x) /\ Len(x) \in Nat
         /\ <<e>> \o x # << >> /\ (<<e>> \o x)[1] = e /\ Tail(<<e>> \o x) = x
<1> DEFINE d == <<e>>
           s == d \o x
<1>1. d \in Seq(S) /\ Len(d) = 1 /\ d[1] = e
  BY OneFacts
<1> HIDE DEF d
<1>2. /\ s \in Seq(S) /\ Len(x) \in Nat /\ Len(s) = 1 + Len(x)
      /\ \A i \in Nat : 0 < i /\ i <= 1 => s[i] = d[i]
      /\ \A i \in Nat : 0 < i /\ i <= Len(x) => s[1 + i] = x[i]
  <2>1. d \in Seq(S) /\ x \in Seq(S)
    BY <1>1
  <2>2. QED
    BY <1>1, <2>1, ConcatFacts
<1>3. s[1] = e
  BY <1>1, <1>2
<1> HIDE DEF s
<1>4. s # << >>
  BY <1>2, EmptySeq
<1> DEFINE t == Tail(s)
<1>5. t \in Seq(S) /\ Len(t) = Len(x) /\ \A i \in DOMAIN t : t[i] = s[i + 1]
  BY <1>2, <1>4, TakeFacts
<1> HIDE DEF t
<1>6. DOMAIN t = 1 .. Len(x) /\ DOMAIN x = 1 .. Len(x)
  BY <1>2, <1>5
<1>7. ASSUME NEW i \in 1 .. Len(x) PROVE t[i] = x[i]
  <2>1. i \in Nat /\ 0 < i /\ i <= Len(x) /\ i + 1 = 1 + i
    BY <1>2
  <2>2. QED
    BY <1>2, <1>5, <1>6, <2>1
<1>8. t = x
  <2>1. t = [i \in 1 .. Len(x) |-> t[i]] /\ x = [i \in 1 .. Len(x) |-> x[i]]
    BY <1>5, <1>6
  <2>2. QED
    BY <1>7, <2>1
<1>9. QED
  BY <1>2, <1>3, <1>4, <1>8 DEF s, d, t
============================================================================
