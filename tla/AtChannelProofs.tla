-------------------------- MODULE AtChannelProofs ---------------------------
(***************************************************************************)
(* Theorems about AtChannel, for every set of frames and requests, every   *)
(* size of the buffers and every number of frames and sends.               *)
(***************************************************************************)
EXTENDS AtChannel, SequenceFacts, FiniteSetTheorems, TLAPS

-----------------------------------------------------------------------------
(* The digits of a length.                                                 *)
DigitsOf(f, n) ==
  IF n < LenBase THEN <<n>> ELSE <<(n % LenBase) + LenBase>> \o f[n \div LenBase]

DigitsUpto(f, n) == \A m \in Nat : m <= n => f[m] = DigitsOf(f, m)

(* LenBase is a small positive number.                                      *)
LEMMA BaseFacts == LenBase \in Nat /\ 2 <= LenBase /\ LenBase <= 128
  BY CodecAssumption

(* Division by LenBase: quotient and rest, and the quotient is smaller.     *)
LEMMA SmallerQuotient ==
  ASSUME NEW n \in Nat
  PROVE  /\ n \div LenBase \in Nat /\ n % LenBase \in Nat /\ n % LenBase < LenBase
         /\ n = LenBase * (n \div LenBase) + (n % LenBase)
         /\ n >= LenBase => n \div LenBase < n
<1> DEFINE q == n \div LenBase
           r == n % LenBase
<1>1. LenBase \in Nat /\ 2 <= LenBase
  BY BaseFacts
<1>2. q \in Nat /\ r \in Nat /\ r < LenBase /\ n = LenBase * q + r
  BY <1>1
<1>3. ASSUME n >= LenBase PROVE q < n
  <2> HIDE DEF q, r
  <2>1. PICK k \in Nat : LenBase = 2 + k
    BY <1>1
  <2>2. (2 + k) * q = 2 * q + k * q /\ k * q \in Nat
    BY <1>2
  <2>3. QED
    BY <1>1, <1>2, <1>3, <2>1, <2>2
<1>4. QED
  BY <1>2, <1>3

(* Two functions that satisfy the recursion up to n agree up to n.          *)
LEMMA DigitsAgree ==
  ASSUME NEW f, NEW g, NEW n \in Nat, DigitsUpto(f, n), DigitsUpto(g, n)
  PROVE  f[n] = g[n]
<1> DEFINE T == {m \in Nat : m <= n /\ f[m] # g[m]}
<1> SUFFICES ASSUME T # {} PROVE FALSE
  OBVIOUS
<1>1. PICK t \in T : \A u \in T : t <= u
  <2>1. T \in SUBSET Nat
    OBVIOUS
  <2> HIDE DEF T
  <2>2. QED
    BY <2>1, LeastExists
<1>2. t \in Nat /\ t <= n /\ f[t] = DigitsOf(f, t) /\ g[t] = DigitsOf(g, t)
  BY DEF DigitsUpto
<1>3. t >= LenBase => f[t \div LenBase] = g[t \div LenBase]
  <2> SUFFICES ASSUME t >= LenBase PROVE f[t \div LenBase] = g[t \div LenBase]
    OBVIOUS
  <2>1. t \div LenBase \in Nat /\ t \div LenBase < t
    BY <1>2, SmallerQuotient
  <2> DEFINE k == t \div LenBase
  <2> HIDE DEF k
  <2>2. k \in Nat /\ k < t
    BY <2>1 DEF k
  <2>3. f[k] = g[k]
    BY <1>1, <1>2, <2>2
  <2>4. QED
    BY <2>3 DEF k
<1>4. DigitsOf(f, t) = DigitsOf(g, t)
  BY <1>2, <1>3, BaseFacts DEF DigitsOf
<1>5. QED
  BY <1>2, <1>4

(* Up to every n the recursion has a solution.                              *)
LEMMA DigitsUptoExist ==
  ASSUME NEW n \in Nat
  PROVE  \E f : DigitsUpto(f, n)
<1> DEFINE T == {m \in Nat : ~ \E f : DigitsUpto(f, m)}
<1> SUFFICES ASSUME T # {} PROVE FALSE
  OBVIOUS
<1>1. PICK t \in T : \A u \in T : t <= u
  <2>1. T \in SUBSET Nat
    OBVIOUS
  <2> HIDE DEF T
  <2>2. QED
    BY <2>1, LeastExists
<1>2. t \in Nat /\ ~ \E f : DigitsUpto(f, t)
  OBVIOUS
<1>3. PICK f : \A m \in Nat : m < t => f[m] = DigitsOf(f, m)
  <2>1. CASE t = 0
    BY <2>1
  <2>2. CASE t # 0
    <3>1. t - 1 \in Nat /\ t - 1 \notin T
      BY <1>1, <1>2, <2>2
    <3>2. PICK f : DigitsUpto(f, t - 1)
      BY <3>1
    <3>3. QED
      BY <1>2, <3>2 DEF DigitsUpto
  <2>3. QED
    BY <2>1, <2>2
<1> HIDE DEF T
<1> DEFINE g == [m \in Nat |-> IF m < t THEN f[m] ELSE DigitsOf(f, t)]
<1>4. ASSUME NEW m \in Nat, m <= t PROVE g[m] = DigitsOf(g, m)
  <2>1. DigitsOf(g, m) = DigitsOf(f, m)
    <3>1. m >= LenBase => m \div LenBase \in Nat /\ m \div LenBase < t
      BY <1>2, <1>4, SmallerQuotient
    <3> DEFINE k == m \div LenBase
    <3> HIDE DEF k
    <3>2. m >= LenBase => g[k] = f[k]
      BY <3>1 DEF k
    <3>3. QED
      BY <3>2, BaseFacts DEF DigitsOf, k
  <2>2. CASE m < t
    BY <1>3, <2>1, <2>2
  <2>3. CASE m = t
    BY <1>2, <2>1, <2>3
  <2>4. QED
    BY <1>2, <1>4, <2>2, <2>3
<1>5. QED
  BY <1>2, <1>4 DEF DigitsUpto

(* The recursive definition is one: LenDigits satisfies its equation.       *)
LEMMA LenDigitsFacts == \A n \in Nat : LenDigits[n] = DigitsOf(LenDigits, n)
<1> DEFINE h == [n \in Nat |-> CHOOSE f : DigitsUpto(f, n)]
           F == [n \in Nat |-> h[n][n]]
<1>1. \A n \in Nat : DigitsUpto(h[n], n)
  BY DigitsUptoExist
<1>2. ASSUME NEW n \in Nat PROVE F[n] = DigitsOf(F, n)
  <2>1. F[n] = DigitsOf(h[n], n)
    BY <1>1 DEF DigitsUpto
  <2>2. ASSUME n >= LenBase PROVE F[n \div LenBase] = h[n][n \div LenBase]
    <3> DEFINE k == n \div LenBase
    <3>1. k \in Nat /\ k < n
      BY <2>2, SmallerQuotient
    <3> HIDE DEF k
    <3>2. DigitsUpto(h[n], k) /\ DigitsUpto(h[k], k)
      BY <1>1, <3>1 DEF DigitsUpto
    <3>3. h[n][k] = h[k][k]
      BY <3>1, <3>2, DigitsAgree
    <3>4. F[k] = h[n][k]
      BY <3>1, <3>3
    <3>5. QED
      BY <3>4 DEF k
  <2>3. QED
    BY <2>1, <2>2, BaseFacts DEF DigitsOf
<1> HIDE DEF h
<1>3. F = [n \in Nat |-> DigitsOf(F, n)]
  BY <1>2
<1> HIDE DEF F
<1>4. F = [n \in Nat |-> IF n < LenBase THEN <<n>>
                         ELSE <<(n % LenBase) + LenBase>> \o F[n \div LenBase]]
  BY <1>3 DEF DigitsOf
<1>5. LenDigits = [n \in Nat |-> IF n < LenBase THEN <<n>>
                         ELSE <<(n % LenBase) + LenBase>> \o LenDigits[n \div LenBase]]
  BY <1>4 DEF LenDigits
<1>6. QED
  BY <1>5 DEF DigitsOf

-----------------------------------------------------------------------------
(* Joined sequences.                                                       *)
Joined(f, s, i) == IF i = 1 THEN s[i] ELSE f[i - 1] \o s[i]

JoinedUpto(f, s, n) == \A i \in 1 .. n : f[i] = Joined(f, s, i)

(* One element more of the joins.                                           *)
LEMMA JoinedNext ==
  ASSUME NEW f, NEW s, NEW n \in Nat, JoinedUpto(f, s, n), NEW i \in Nat, 0 < i, i < n
  PROVE  f[i + 1] = f[i] \o s[i + 1]
<1>1. PICK k : k = i + 1
  OBVIOUS
<1>2. k \in 1 .. n /\ k # 1 /\ k - 1 = i
  BY <1>1
<1>3. f[k] = f[k - 1] \o s[k]
  BY <1>2 DEF JoinedUpto, Joined
<1>4. QED
  BY <1>1, <1>2, <1>3

(* The joining of a common prefix does not depend on what follows it.       *)
LEMMA JoinedAgree ==
  ASSUME NEW f, NEW g, NEW s, NEW t, NEW n \in Nat \ {0},
         JoinedUpto(f, s, n), JoinedUpto(g, t, n), \A i \in 1 .. n : s[i] = t[i]
  PROVE  f[n] = g[n]
<1> DEFINE T == {i \in 1 .. n : f[i] # g[i]}
<1> SUFFICES ASSUME T # {} PROVE FALSE
  OBVIOUS
<1>1. PICK k \in T : \A u \in T : k <= u
  <2>1. T \in SUBSET Nat
    OBVIOUS
  <2> HIDE DEF T
  <2>2. QED
    BY <2>1, LeastExists
<1>2. /\ k \in 1 .. n /\ f[k] = Joined(f, s, k) /\ g[k] = Joined(g, t, k) /\ s[k] = t[k]
  BY DEF JoinedUpto
<1>3. k # 1 => f[k - 1] = g[k - 1]
  <2>1. k # 1 => k - 1 \in 1 .. n /\ ~ (k <= k - 1)
    BY <1>2
  <2>2. QED
    BY <1>1, <2>1
<1>4. QED
  BY <1>2, <1>3 DEF Joined

(* There is a sequence of the joins, by least counterexample.               *)
LEMMA JoinedExists ==
  ASSUME NEW s, NEW n \in Nat
  PROVE  \E f : JoinedUpto(f, s, n)
<1> DEFINE T == {m \in Nat : ~ \E f : JoinedUpto(f, s, m)}
<1> SUFFICES ASSUME T # {} PROVE FALSE
  OBVIOUS
<1>1. PICK k \in T : \A u \in T : k <= u
  <2>1. T \in SUBSET Nat
    OBVIOUS
  <2> HIDE DEF T
  <2>2. QED
    BY <2>1, LeastExists
<1>2. k \in Nat /\ ~ \E f : JoinedUpto(f, s, k)
  OBVIOUS
<1>3. k # 0
  BY <1>2 DEF JoinedUpto
<1>4. PICK f : JoinedUpto(f, s, k - 1)
  <2>1. k - 1 \in Nat /\ k - 1 \notin T
    BY <1>1, <1>2, <1>3
  <2>2. QED
    BY <2>1
<1> HIDE DEF T
<1> DEFINE g == [i \in 1 .. k |-> IF i < k THEN f[i] ELSE Joined(f, s, k)]
<1>5. ASSUME NEW i \in 1 .. k PROVE g[i] = Joined(g, s, i)
  <2>1. i # 1 => i - 1 \in 1 .. k /\ i - 1 < k
    BY <1>2
  <2>2. Joined(g, s, i) = Joined(f, s, i)
    BY <2>1 DEF Joined
  <2>3. CASE i < k
    <3>1. i \in 1 .. k - 1
      BY <1>2, <2>3
    <3>2. QED
      BY <1>4, <2>2, <2>3, <3>1 DEF JoinedUpto
  <2>4. CASE i = k
    BY <2>2, <2>4
  <2>5. QED
    BY <1>2, <2>3, <2>4
<1>6. QED
  BY <1>2, <1>5 DEF JoinedUpto

(* FlattenSeq is the last of the joins.                                     *)
LEMMA FlattenJoins ==
  ASSUME NEW S, NEW s \in Seq(S), s # << >>
  PROVE  \E f : JoinedUpto(f, s, Len(s)) /\ FlattenSeq(s) = f[Len(s)]
<1>1. Len(s) \in Nat \ {0}
  OBVIOUS
<1>2. PICK f : JoinedUpto(f, s, Len(s))
  BY <1>1, JoinedExists
<1> DEFINE g == [i \in 1 .. Len(s) |-> f[i]]
           flatten == CHOOSE h : h = [i \in 1 .. Len(s) |-> IF i = 1 THEN s[i] ELSE h[i - 1] \o s[i]]
<1>3. g = [i \in 1 .. Len(s) |-> IF i = 1 THEN s[i] ELSE g[i - 1] \o s[i]]
  <2>1. \A i \in 1 .. Len(s) : i # 1 => i - 1 \in 1 .. Len(s)
    BY <1>1
  <2>2. \A i \in 1 .. Len(s) : g[i] = IF i = 1 THEN s[i] ELSE g[i - 1] \o s[i]
    BY <1>2, <2>1 DEF JoinedUpto, Joined
  <2>3. QED
    BY <2>2
<1> HIDE DEF g
<1>4. flatten = [i \in 1 .. Len(s) |-> IF i = 1 THEN s[i] ELSE flatten[i - 1] \o s[i]]
  BY <1>3
<1>5. FlattenSeq(s) = flatten[Len(s)]
  BY <1>1 DEF FlattenSeq
<1> HIDE DEF flatten
<1>6. JoinedUpto(flatten, s, Len(s))
  BY <1>4 DEF JoinedUpto, Joined
<1>7. QED
  BY <1>5, <1>6

(* Joining is a sequence of the elements, and joins what is appended last.  *)
LEMMA FlattenAppend ==
  ASSUME NEW S, NEW s \in Seq(Seq(S)), NEW e \in Seq(S)
  PROVE  /\ FlattenSeq(<< >>) = << >>
         /\ FlattenSeq(s) \in Seq(S)
         /\ FlattenSeq(Append(s, e)) = FlattenSeq(s) \o e
<1>1. FlattenSeq(<< >>) = << >>
  BY DEF FlattenSeq
<1>2. FlattenSeq(s) \in Seq(S)
  <2>1. CASE s = << >>
    <3>1. FlattenSeq(s) = << >> /\ << >> \in Seq(S)
      BY <1>1, <2>1, EmptySeq
    <3>2. QED
      BY <3>1
  <2>2. CASE s # << >>
    <3>1. PICK f : JoinedUpto(f, s, Len(s)) /\ FlattenSeq(s) = f[Len(s)]
      BY <2>2, FlattenJoins
    <3> DEFINE T == {i \in 1 .. Len(s) : f[i] \notin Seq(S)}
    <3>2. T = {}
      <4> SUFFICES ASSUME T # {} PROVE FALSE
        OBVIOUS
      <4>1. PICK k \in T : \A u \in T : k <= u
        <5>1. T \in SUBSET Nat
          OBVIOUS
        <5> HIDE DEF T
        <5>2. QED
          BY <5>1, LeastExists
      <4>2. k \in 1 .. Len(s) /\ s[k] \in Seq(S) /\ f[k] = Joined(f, s, k)
        BY <3>1 DEF JoinedUpto
      <4>3. k # 1 => f[k - 1] \in Seq(S)
        <5>1. k # 1 => k - 1 \in 1 .. Len(s) /\ ~ (k <= k - 1)
          BY <4>2
        <5>2. QED
          BY <4>1, <5>1
      <4>4. f[k] \in Seq(S)
        BY <4>2, <4>3, ConcatProperties DEF Joined
      <4>5. QED
        BY <4>4
    <3>3. Len(s) \in 1 .. Len(s)
      <4> DEFINE Q == Seq(S)
      <4>1. s \in Seq(Q)
        OBVIOUS
      <4> HIDE DEF Q
      <4>2. QED
        BY <2>2, <4>1
    <3>4. QED
      BY <3>1, <3>2, <3>3
  <2>3. QED
    BY <2>1, <2>2
<1>3. FlattenSeq(Append(s, e)) = FlattenSeq(s) \o e
  <2> DEFINE t == Append(s, e)
  <2>1. /\ t \in Seq(Seq(S)) /\ t # << >> /\ Len(t) = Len(s) + 1 /\ t[Len(t)] = e
        /\ \A i \in 1 .. Len(s) : t[i] = s[i]
    <3> DEFINE Q == Seq(S)
    <3>1. s \in Seq(Q) /\ e \in Q
      OBVIOUS
    <3> HIDE DEF Q
    <3>2. /\ t \in Seq(Q) /\ Len(t) = Len(s) + 1 /\ t[Len(s) + 1] = e
          /\ \A i \in 1 .. Len(s) : t[i] = s[i]
      BY <3>1, AppendFacts
    <3> HIDE DEF t
    <3>3. t # << >>
      <4>1. Len(s) \in Nat /\ Len(t) = Len(s) + 1
        BY <3>1, <3>2
      <4>2. QED
        BY <4>1, EmptySeq
    <3>4. QED
      BY <3>2, <3>3 DEF Q
  <2> HIDE DEF t
  <2>2. PICK g : JoinedUpto(g, t, Len(t)) /\ FlattenSeq(t) = g[Len(t)]
    BY <2>1, FlattenJoins
  <2>3. CASE s = << >>
    <3>1. Len(t) = 1
      BY <2>1, <2>3
    <3>2. FlattenSeq(t) = e
      BY <2>1, <2>2, <3>1 DEF JoinedUpto, Joined
    <3>3. QED
      BY <1>1, <2>3, <3>2, ConcatEmptySeq DEF t
  <2>4. CASE s # << >>
    <3>1. PICK f : JoinedUpto(f, s, Len(s)) /\ FlattenSeq(s) = f[Len(s)]
      BY <2>4, FlattenJoins
    <3>2. Len(s) \in Nat \ {0}
      BY <2>4
    <3>3. JoinedUpto(g, t, Len(s))
      BY <2>1, <2>2, <3>2 DEF JoinedUpto
    <3>4. g[Len(s)] = f[Len(s)]
      BY <2>1, <3>1, <3>2, <3>3, JoinedAgree
    <3>5. g[Len(t)] = g[Len(s)] \o e
      <4>1. Len(t) \in 1 .. Len(t) /\ Len(t) # 1 /\ Len(t) - 1 = Len(s)
        BY <2>1, <3>2
      <4>2. QED
        BY <2>1, <2>2, <4>1 DEF JoinedUpto, Joined
    <3>6. QED
      BY <2>2, <3>1, <3>4, <3>5 DEF t
  <2>5. QED
    BY <2>3, <2>4
<1>4. QED
  BY <1>1, <1>2, <1>3

Associates(a, b, c) == (a \o b) \o c = a \o (b \o c)

(* Joining is associative.                                                  *)
LEMMA Associate ==
  ASSUME NEW S, NEW a \in Seq(S), NEW b \in Seq(S), NEW c \in Seq(S)
  PROVE  Associates(a, b, c)
  BY ConcatAssociative DEF Associates

(* Joining begins with the first sequence.                                  *)
LEMMA FlattenFirst ==
  ASSUME NEW S, NEW s \in Seq(Seq(S)), s # << >>
  PROVE  FlattenSeq(s) = s[1] \o FlattenSeq(Tail(s))
<1> DEFINE Q == Seq(S)
           t == Tail(s)
           n == Len(s)
<1>1. s \in Seq(Q)
  OBVIOUS
<1> HIDE DEF Q
<1>2. /\ n \in Nat \ {0} /\ s[1] \in Q /\ t \in Seq(Q) /\ Len(t) = n - 1
      /\ \A i \in 1 .. n - 1 : t[i] = s[i + 1] /\ t[i] \in Q
  BY <1>1
<1> HIDE DEF t, n
<1>3. PICK f : JoinedUpto(f, s, n) /\ FlattenSeq(s) = f[n]
  BY <1>1, <1>2, FlattenJoins DEF n
<1>4. CASE n = 1
  <2>1. t = << >>
    BY <1>2, <1>4, EmptySeq
  <2>2. FlattenSeq(t) = << >>
    BY <2>1 DEF FlattenSeq
  <2>3. f[n] = s[1]
    BY <1>3, <1>4 DEF JoinedUpto, Joined
  <2>4. QED
    BY <1>2, <1>3, <2>2, <2>3, ConcatEmptySeq DEF Q, t
<1>5. CASE n # 1
  <2>1. t # << >>
    <3>1. Len(t) \in Nat \ {0}
      BY <1>2, <1>5
    <3>2. QED
      BY <3>1, EmptySeq
  <2>2. PICK g : JoinedUpto(g, t, n - 1) /\ FlattenSeq(t) = g[n - 1]
    BY <1>2, <2>1, FlattenJoins
  <2>3. /\ f[1] = s[1] /\ g[1] = t[1]
        /\ \A i \in Nat : 0 < i /\ i < n => f[i + 1] = f[i] \o t[i] /\ t[i] \in Q
        /\ \A i \in Nat : 0 < i /\ i + 1 < n => g[i + 1] = g[i] \o t[i + 1]
    <3>1. f[1] = s[1] /\ g[1] = t[1]
      <4>1. 1 \in 1 .. n /\ 1 \in 1 .. n - 1
        BY <1>2, <1>5
      <4>2. QED
        BY <1>3, <2>2, <4>1 DEF JoinedUpto, Joined
    <3>2. ASSUME NEW i \in Nat, 0 < i, i < n PROVE f[i + 1] = f[i] \o t[i] /\ t[i] \in Q
      <4>1. f[i + 1] = f[i] \o s[i + 1]
        BY <1>2, <1>3, <3>2, JoinedNext
      <4>2. i \in 1 .. n - 1
        BY <1>2, <3>2
      <4>3. QED
        BY <1>2, <4>1, <4>2
    <3>3. ASSUME NEW i \in Nat, 0 < i, i + 1 < n PROVE g[i + 1] = g[i] \o t[i + 1]
      <4>1. n - 1 \in Nat /\ i < n - 1
        BY <1>2, <3>3
      <4>2. QED
        BY <2>2, <3>3, <4>1, JoinedNext
    <3>4. QED
      BY <3>1, <3>2, <3>3
  <2> DEFINE Done(i) == g[i] \in Q /\ f[i + 1] = s[1] \o g[i]
             T == {i \in Nat : 0 < i /\ i < n /\ ~ Done(i)}
  <2>4. T = {}
    <3> SUFFICES ASSUME T # {} PROVE FALSE
      OBVIOUS
    <3>1. PICK k \in T : \A u \in T : k <= u
      <4>1. T \in SUBSET Nat
        OBVIOUS
      <4> HIDE DEF T
      <4>2. QED
        BY <4>1, LeastExists
    <3>2. k \in Nat /\ 0 < k /\ k < n
      OBVIOUS
    <3>3. f[k + 1] = f[k] \o t[k] /\ t[k] \in Q
      BY <2>3, <3>2
    <3>4. CASE k = 1
      BY <2>3, <3>3, <3>4
    <3>5. CASE k # 1
      <4>1. PICK j \in Nat : k = j + 1 /\ 0 < j /\ j < n
        <5>1. k - 1 \in Nat /\ k = k - 1 + 1 /\ 0 < k - 1 /\ k - 1 < n
          BY <1>2, <3>2, <3>5
        <5>2. QED
          BY <5>1
      <4>2. g[j] \in Q /\ f[k] = s[1] \o g[j]
        <5>1. ~ (k <= j)
          BY <4>1
        <5>2. j \notin T
          <6> HIDE DEF T
          <6>1. QED
            BY <3>1, <5>1
        <5>3. QED
          BY <4>1, <5>2
      <4>3. g[k] = g[j] \o t[k]
        BY <2>3, <3>2, <4>1
      <4>4. g[j] \o t[k] \in Q /\ (s[1] \o g[j]) \o t[k] = s[1] \o (g[j] \o t[k])
        <5>1. s[1] \in Seq(S) /\ g[j] \in Seq(S) /\ t[k] \in Seq(S)
          BY <1>2, <3>3, <4>2 DEF Q
        <5> HIDE DEF T, Done
        <5>2. g[j] \o t[k] \in Seq(S)
          BY <5>1, ConcatProperties
        <5>3. (s[1] \o g[j]) \o t[k] = s[1] \o (g[j] \o t[k])
          <6>1. Associates(s[1], g[j], t[k])
            BY <5>1, Associate
          <6>2. QED
            BY <6>1 DEF Associates
        <5>4. QED
          BY <5>2, <5>3 DEF Q
      <4>5. QED
        BY <3>3, <4>2, <4>3, <4>4
    <3>6. QED
      BY <3>4, <3>5
  <2>5. n - 1 \in Nat /\ 0 < n - 1 /\ n - 1 < n /\ n - 1 + 1 = n
    BY <1>2, <1>5
  <2>6. f[n - 1 + 1] = s[1] \o g[n - 1]
    BY <2>4, <2>5
  <2>7. QED
    BY <1>3, <2>2, <2>5, <2>6 DEF t
<1>6. QED
  BY <1>4, <1>5

-----------------------------------------------------------------------------
(* Length fields.                                                          *)
OctetsSeq == Seq(Octets)

(* Which numbers are bytes.                                                 *)
LEMMA OctetFacts == \A n \in Nat : n <= 255 <=> n \in Octets
  BY DEF Octets

(* Bytes are numbers up to 255.                                             *)
LEMMA OctetIs == \A n \in Octets : n \in Nat /\ n <= 255
  BY DEF Octets

(* A digit of a length is a byte, with and without its continuation bit.    *)
LEMMA DigitFacts ==
  ASSUME NEW d \in Nat, d < LenBase
  PROVE  /\ d \in Octets /\ d + LenBase \in Octets
         /\ d % LenBase = d /\ (d + LenBase) % LenBase = d
         /\ ~ (d + LenBase < LenBase)
<1>1. LenBase \in Nat /\ 2 <= LenBase /\ LenBase <= 128
  BY BaseFacts
<1>2. d <= 255 /\ d + LenBase <= 255 /\ d + LenBase \in Nat /\ ~ (d + LenBase < LenBase)
  BY <1>1
<1>3. d % LenBase = d
  BY <1>1
<1>4. (d + LenBase) % LenBase = d
  BY <1>1
<1>5. QED
  BY <1>2, <1>3, <1>4, OctetFacts

(* mqtt_encode_len makes bytes.                                             *)
LEMMA EncodeType ==
  ASSUME NEW n \in Nat
  PROVE  mqtt_encode_len(n) \in Seq(Octets) /\ mqtt_encode_len(n) # << >>
<1> DEFINE T == {m \in Nat : ~ (LenDigits[m] \in OctetsSeq /\ LenDigits[m] # << >>)}
<1>1. T = {}
  <2> SUFFICES ASSUME T # {} PROVE FALSE
    OBVIOUS
  <2>1. PICK k \in T : \A u \in T : k <= u
    <3>1. T \in SUBSET Nat
      OBVIOUS
    <3> HIDE DEF T
    <3>2. QED
      BY <3>1, LeastExists
  <2>2. k \in Nat /\ LenDigits[k] = DigitsOf(LenDigits, k)
    BY LenDigitsFacts
  <2> DEFINE q == k \div LenBase
             r == k % LenBase
  <2>3. q \in Nat /\ r \in Nat /\ r < LenBase /\ (k >= LenBase => q < k)
    BY <2>2, SmallerQuotient
  <2> HIDE DEF q, r
  <2>4. CASE k < LenBase
    <3>1. LenDigits[k] = <<k>> /\ k \in Octets
      BY <2>2, <2>4, DigitFacts DEF DigitsOf
    <3>2. QED
      BY <3>1, OneFacts, EmptySeq DEF OctetsSeq
  <2>5. CASE k >= LenBase
    <3>1. LenDigits[k] = <<r + LenBase>> \o LenDigits[q]
      BY <2>2, <2>5, BaseFacts DEF DigitsOf, q, r
    <3>2. ~ (k <= q)
      BY <2>2, <2>3, <2>5
    <3>3. q \notin T
      <4> HIDE DEF T
      <4>1. QED
        BY <2>1, <3>2
    <3>4. LenDigits[q] \in Seq(Octets)
      BY <2>3, <3>3 DEF OctetsSeq
    <3>5. <<r + LenBase>> \in Seq(Octets) /\ Len(<<r + LenBase>>) = 1
      BY <2>3, DigitFacts, OneFacts
    <3>6. <<r + LenBase>> \o LenDigits[q] \in Seq(Octets)
      BY <3>4, <3>5, ConcatProperties
    <3>7. Len(LenDigits[k]) = 1 + Len(LenDigits[q]) /\ Len(LenDigits[q]) \in Nat
      BY <3>1, <3>4, <3>5, ConcatProperties
    <3>8. LenDigits[k] \in OctetsSeq /\ LenDigits[k] # << >>
      <4> DEFINE e == LenDigits[k]
      <4>1. e \in Seq(Octets) /\ Len(e) = 1 + Len(LenDigits[q])
        BY <3>1, <3>6, <3>7
      <4> HIDE DEF e
      <4>2. e # << >>
        BY <3>7, <4>1, EmptySeq
      <4>3. QED
        BY <4>1, <4>2 DEF e, OctetsSeq
    <3>9. QED
      BY <3>8
  <2>6. QED
    BY <2>2, <2>4, <2>5, BaseFacts
<1>2. n \notin T
  BY <1>1
<1>3. QED
  BY <1>2 DEF mqtt_encode_len, OctetsSeq

(* The field of n in front of w: one digit, or a digit and the field of the  *)
(* quotient.                                                               *)
LastDigit(n, w) ==
  LET e == mqtt_encode_len(n)
  IN  Len(e) = 1 /\ (e \o w)[1] = n /\ Len(e \o w) = 1 + Len(w)

MoreDigits(n, q, r, w) ==
  LET e == mqtt_encode_len(n)
      s == mqtt_encode_len(q) \o w
  IN  /\ Len(e) = Len(mqtt_encode_len(q)) + 1
      /\ Len(e \o w) = Len(s) + 1 /\ (e \o w)[1] = r + LenBase
      /\ \A i \in 1 .. Len(s) : (e \o w)[i + 1] = s[i]

(* What mqtt_encode_len writes, in front of anything: the last digit, or    *)
(* a digit and the field of the quotient.                                   *)
LEMMA EncodeStep ==
  ASSUME NEW n \in Nat, NEW w \in Seq(Octets)
  PROVE  /\ n < LenBase => LastDigit(n, w)
         /\ n >= LenBase => MoreDigits(n, n \div LenBase, n % LenBase, w)
<1> DEFINE q == n \div LenBase
           r == n % LenBase
           e == mqtt_encode_len(n)
           g == mqtt_encode_len(q)
<1>1. q \in Nat /\ r \in Nat /\ r < LenBase /\ e = DigitsOf(LenDigits, n)
  BY SmallerQuotient, LenDigitsFacts DEF mqtt_encode_len
<1>2. ASSUME n < LenBase PROVE LastDigit(n, w)
  <2>1. e = <<n>> /\ n \in Octets
    BY <1>1, <1>2, DigitFacts DEF DigitsOf
  <2>2. <<n>> \in Seq(Octets) /\ Len(<<n>>) = 1 /\ <<n>>[1] = n
    BY <2>1, OneFacts
  <2>3. Len(<<n>> \o w) = 1 + Len(w) /\ (<<n>> \o w)[1] = n
    BY <2>2, ConcatProperties
  <2>4. QED
    BY <2>1, <2>2, <2>3 DEF LastDigit
<1>3. ASSUME n >= LenBase PROVE MoreDigits(n, q, r, w)
  <2>1. e = <<r + LenBase>> \o g
    BY <1>1, <1>3, BaseFacts DEF DigitsOf, mqtt_encode_len
  <2> DEFINE d == <<r + LenBase>>
             s == g \o w
  <2>2. g \in Seq(Octets)
    BY <1>1, EncodeType
  <2>3. d \in Seq(Octets) /\ Len(d) = 1 /\ d[1] = r + LenBase
    BY <1>1, DigitFacts, OneFacts
  <2> HIDE DEF e, g, d
  <2>4. e \o w = d \o s
    BY <2>1, <2>2, <2>3, Associate DEF Associates, d
  <2>5. s \in Seq(Octets) /\ Len(e) = Len(g) + 1
    BY <2>1, <2>2, <2>3, ConcatProperties DEF d
  <2> HIDE DEF s, q, r
  <2>6. /\ Len(d \o s) = Len(s) + 1 /\ (d \o s)[1] = r + LenBase
        /\ \A i \in 1 .. Len(s) : (d \o s)[i + 1] = s[i]
    <3>1. Len(s) \in Nat /\ Len(d \o s) = 1 + Len(s) /\ (d \o s)[1] = r + LenBase
      BY <2>3, <2>5, ConcatFacts
    <3>2. \A i \in Nat : 0 < i /\ i <= Len(s) => (d \o s)[Len(d) + i] = s[i]
      <4>1. d \in Seq(Octets) /\ s \in Seq(Octets)
        BY <2>3, <2>5
      <4>2. QED
        BY <4>1, ConcatFacts
    <3>3. ASSUME NEW i \in 1 .. Len(s) PROVE (d \o s)[i + 1] = s[i]
      <4>1. i \in Nat /\ 0 < i /\ i <= Len(s) /\ Len(d) + i = i + 1
        BY <2>3, <3>1
      <4>2. QED
        BY <3>2, <4>1
    <3>4. QED
      BY <3>1, <3>2, <3>3
  <2>7. QED
    BY <2>4, <2>5, <2>6 DEF MoreDigits, e, g, s, q, r
<1>4. QED
  BY <1>2, <1>3

-----------------------------------------------------------------------------
(* What goes over the channel: the bytes of the stream, what the broker has *)
(* sent and what the client was given.                                     *)
Symbol == [value : Octets, of : Int, at : Nat]
SentFrame == [messages : Seq(Messages), bytes : Seq(Octets)]
Delivery == [of : Int, bytes : Seq(Octets)]

(* The bytes of a frame sent are bytes.                                     *)
LEMMA FrameTypes ==
  ASSUME NEW b \in Seq(SentFrame), NEW n \in DOMAIN b
  PROVE  /\ b[n].bytes \in Seq(Octets) /\ Len(b[n].bytes) \in Nat
         /\ b[n].messages \in Seq(Messages)
<1>1. b[n] \in SentFrame
  OBVIOUS
<1> DEFINE P == Seq(Octets)
           Q == Seq(Messages)
<1> HIDE DEF P, Q
<1>2. b[n].bytes \in P /\ b[n].messages \in Q
  <2>1. b[n] \in [messages : Q, bytes : P]
    BY <1>1 DEF SentFrame, P, Q
  <2>2. QED
    BY <2>1
<1>3. QED
  BY <1>2 DEF P, Q

-----------------------------------------------------------------------------
(* Packets are sequences of bytes.                                         *)
LEMMA OctetsAreNumbers == \A s \in Seq(Octets) : s \in Seq(Nat)
<1>1. \A x \in Octets : x \in Nat
  BY DEF Octets
<1>2. QED
  BY <1>1

U16 == 0 .. U16Max
Fits(n) == n <= U16Max

(* Which numbers fit a uint16_t.                                            *)
LEMMA U16Is ==
  /\ U16Max \in Nat \ {0}
  /\ \A n \in U16 : n \in Nat
  /\ \A n \in Nat : n \in U16 <=> Fits(n)
<1>1. U16Max \in Nat \ {0}
  BY SMT DEF U16Max
<1>2. QED
  BY <1>1, SMT DEF U16, Fits

(* The buffer of a packet is no longer than a uint16_t can say.             *)
LEMMA OutCapFacts == OutCap \in Nat /\ Fits(OutCap)
  BY CodecAssumption, U16Is DEF Fits

(* write_u16 makes two bytes that read_u16 reads back.                      *)
LEMMA U16Facts ==
  ASSUME NEW v \in Nat
  PROVE  /\ write_u16(v) \in Seq(Nat) /\ Len(write_u16(v)) = 2
         /\ Fits(v) => write_u16(v) \in Seq(Octets)
         /\ 256 * write_u16(v)[1] + write_u16(v)[2] = v
<1> DEFINE q == v \div 256
           r == v % 256
<1>1. q \in Nat /\ r \in Nat /\ r <= 255 /\ 256 * q + r = v /\ (Fits(v) => q <= 255)
  BY SMT DEF Fits, U16Max
<1> HIDE DEF q, r
<1>2. write_u16(v) = <<q, r>>
  BY DEF write_u16, q, r
<1>3. <<q, r>> \in Seq(Nat) /\ Len(<<q, r>>) = 2 /\ <<q, r>>[1] = q /\ <<q, r>>[2] = r
  BY <1>1, TwoFacts
<1>4. ASSUME Fits(v) PROVE <<q, r>> \in Seq(Octets)
  <2>1. q \in Octets /\ r \in Octets
    BY <1>1, <1>4, OctetFacts
  <2>2. QED
    BY <2>1, TwoFacts
<1>5. QED
  BY <1>1, <1>2, <1>3, <1>4

(* A text with its length in front is bytes.                                *)
LEMMA TextFacts ==
  ASSUME NEW t \in Seq(Octets)
  PROVE  /\ Len(t) \in Nat /\ Text(t) \in Seq(Nat) /\ Len(Text(t)) = 2 + Len(t)
         /\ Fits(Len(t)) => Text(t) \in Seq(Octets)
<1> DEFINE w == write_u16(Len(t))
<1>1. Len(t) \in Nat /\ t \in Seq(Nat)
  BY OctetsAreNumbers
<1>2. w \in Seq(Nat) /\ Len(w) = 2 /\ (Fits(Len(t)) => w \in Seq(Octets))
  BY <1>1, U16Facts
<1> HIDE DEF w
<1>3. w \o t \in Seq(Nat) /\ Len(w \o t) = 2 + Len(t)
  BY <1>1, <1>2, ConcatType
<1>4. Fits(Len(t)) => w \o t \in Seq(Octets)
  BY <1>2, ConcatType
<1>5. QED
  BY <1>1, <1>3, <1>4 DEF Text, w

(* A packet that is the error, or a header in front of a body whose length   *)
(* four digits can say.                                                    *)
Made(h, body) == <<h>> \o mqtt_encode_len(Len(body)) \o body
MadeOf(p, h, body) ==
  p = Made(h, body) /\ Len(body) < LenBase * (LenBase * (LenBase * LenBase))
WellMade(p) == p # << >> => \E h \in Octets, body \in Seq(Octets) : MadeOf(p, h, body)

(* Four digits are enough for every length that fits.                       *)
LEMMA LengthFits ==
  ASSUME NEW l \in Nat, ~ (OutCap < 6 + l)
  PROVE  l < LenBase * (LenBase * (LenBase * LenBase))
<1> DEFINE b4 == LenBase * LenBase * LenBase * LenBase
<1>1. OutCap \in Nat /\ OutCap < b4 /\ b4 \in Nat
  BY CodecAssumption, BaseFacts, OutCapFacts
<1>2. b4 = LenBase * (LenBase * (LenBase * LenBase))
  BY BaseFacts
<1> HIDE DEF b4
<1>3. l < b4
  BY <1>1
<1>4. QED
  BY <1>2, <1>3

(* A packet of bytes is bytes, the first of them type and flags.            *)
LEMMA PacketType ==
  ASSUME NEW type \in Nat, NEW flags \in Nat, 16 * type + flags <= 255,
         NEW body \in Seq(Nat), Fits(Len(body)) => body \in Seq(Octets)
  PROVE  /\ Packet(type, flags, body) \in Seq(Octets)
         /\ Packet(type, flags, body) # << >> => Packet(type, flags, body)[1] = 16 * type + flags
         /\ WellMade(Packet(type, flags, body))
<1>1. CASE OutCap < 6 + Len(body)
  <2>1. Packet(type, flags, body) = << >>
    BY <1>1 DEF Packet
  <2>2. QED
    BY <2>1, EmptySeq DEF WellMade
<1>2. CASE ~ (OutCap < 6 + Len(body))
  <2> DEFINE first == 16 * type + flags
             len == mqtt_encode_len(Len(body))
  <2>1. Len(body) \in Nat /\ first \in Octets
    BY OctetFacts
  <2>2. body \in Seq(Octets)
    <3>1. Fits(Len(body))
      BY <1>2, <2>1, OutCapFacts, U16Is DEF Fits
    <3>2. QED
      BY <3>1
  <2>3. len \in Seq(Octets)
    BY <2>1, EncodeType
  <2> HIDE DEF first, len
  <2>4. /\ (<<first>> \o len) \o body \in Seq(Octets)
        /\ ((<<first>> \o len) \o body)[1] = first
    <3> DEFINE x == <<first>> \o len
    <3>1. x \in Seq(Octets) /\ Len(x) = 1 + Len(len) /\ Len(len) \in Nat /\ x[1] = first
      BY <2>1, <2>3, FrontFacts
    <3> HIDE DEF x
    <3>2. 1 \in Nat /\ 0 < 1 /\ 1 <= Len(x)
      BY <3>1
    <3>3. x \o body \in Seq(Octets) /\ (x \o body)[1] = x[1]
      BY <2>2, <3>1, <3>2, ConcatFacts
    <3>4. QED
      BY <3>1, <3>3 DEF x
  <2>5. Packet(type, flags, body) = (<<first>> \o len) \o body
    BY <1>2 DEF Packet, first, len
  <2>6. WellMade(Packet(type, flags, body))
    <3>1. Len(body) < LenBase * (LenBase * (LenBase * LenBase))
      BY <1>2, <2>1, LengthFits
    <3>2. MadeOf(Packet(type, flags, body), first, body)
      BY <2>5, <3>1 DEF MadeOf, Made, len
    <3>3. QED
      BY <2>1, <2>2, <3>2 DEF WellMade
  <2>7. QED
    BY <2>4, <2>5, <2>6 DEF first
<1>3. QED
  BY <1>1, <1>2

(* No request begins like an acknowledgement.                               *)
OtherPacket(p) == p \in Seq(Octets) /\ (p # << >> => p[1] # 16 * PUBACK) /\ WellMade(p)

(* The body of a packet with a text and two other parts.                    *)
LEMMA BodyType ==
  ASSUME NEW t \in Seq(Octets), NEW u \in Seq(Octets), NEW v \in Seq(Octets)
  PROVE  /\ (Text(t) \o u) \o v \in Seq(Nat)
         /\ Len((Text(t) \o u) \o v) = 2 + Len(t) + Len(u) + Len(v)
         /\ Fits(Len((Text(t) \o u) \o v)) => (Text(t) \o u) \o v \in Seq(Octets)
<1> DEFINE w == Text(t)
           x == w \o u
           y == x \o v
<1>1. /\ Len(t) \in Nat /\ w \in Seq(Nat) /\ Len(w) = 2 + Len(t)
      /\ Fits(Len(t)) => w \in Seq(Octets)
  BY TextFacts
<1>2. u \in Seq(Nat) /\ v \in Seq(Nat)
  BY OctetsAreNumbers
<1> HIDE DEF w
<1>3. x \in Seq(Nat) /\ Len(x) = Len(w) + Len(u) /\ Len(u) \in Nat
  BY <1>1, <1>2, ConcatType
<1>4. w \in Seq(Octets) => x \in Seq(Octets)
  BY ConcatType
<1> HIDE DEF x
<1>5. y \in Seq(Nat) /\ Len(y) = Len(x) + Len(v) /\ Len(v) \in Nat
  BY <1>2, <1>3, ConcatType
<1>6. x \in Seq(Octets) => y \in Seq(Octets)
  BY ConcatType
<1> HIDE DEF y
<1>7. Len(y) = 2 + Len(t) + Len(u) + Len(v)
  BY <1>1, <1>3, <1>5
<1>8. Fits(Len(y)) => Fits(Len(t))
  <2>1. Len(t) \in Nat /\ Len(u) \in Nat /\ Len(v) \in Nat
    BY <1>1, <1>3, <1>5
  <2>2. QED
    BY <1>7, <2>1, U16Is DEF Fits
<1>9. QED
  BY <1>1, <1>4, <1>5, <1>6, <1>7, <1>8 DEF w, x, y

(* build_publish makes such bytes.                                          *)
LEMMA PublishType ==
  ASSUME NEW topic \in Seq(Octets), NEW payload \in Seq(Octets), NEW qos \in 0 .. 2,
         NEW pid \in U16
  PROVE  OtherPacket(build_publish(topic, payload, qos, pid))
<1> DEFINE id == IF qos > 0 THEN write_u16(pid) ELSE << >>
           body == (Text(topic) \o id) \o payload
<1>1. id \in Seq(Octets)
  <2>1. pid \in Nat /\ Fits(pid)
    BY U16Is
  <2>2. write_u16(pid) \in Seq(Octets) /\ << >> \in Seq(Octets)
    BY <2>1, U16Facts, EmptySeq
  <2>3. QED
    BY <2>2
<1> HIDE DEF id
<1>2. body \in Seq(Nat) /\ (Fits(Len(body)) => body \in Seq(Octets))
  BY <1>1, BodyType
<1> HIDE DEF body
<1>3. /\ PUBLISH \in Nat /\ 2 * qos \in Nat /\ 16 * PUBLISH + 2 * qos <= 255
      /\ 16 * PUBLISH + 2 * qos # 16 * PUBACK
  BY DEF PUBLISH, PUBACK
<1>4. OtherPacket(Packet(PUBLISH, 2 * qos, body))
  BY <1>2, <1>3, PacketType DEF OtherPacket
<1>5. QED
  BY <1>4 DEF build_publish, body, id

(* build_subscribe and build_unsubscribe make such bytes.                   *)
LEMMA SubscribeType ==
  ASSUME NEW topic \in Seq(Octets), NEW qos \in 0 .. 2, NEW pid \in U16
  PROVE  /\ OtherPacket(build_subscribe(topic, qos, pid))
         /\ OtherPacket(build_unsubscribe(topic, pid))
<1> DEFINE id == write_u16(pid)
           t == Text(topic)
           x == id \o t
           y == x \o <<qos>>
<1>1. id \in Seq(Octets) /\ Len(id) = 2
  <2>1. pid \in Nat /\ Fits(pid)
    BY U16Is
  <2>2. QED
    BY <2>1, U16Facts
<1>2. /\ Len(topic) \in Nat /\ t \in Seq(Nat) /\ Len(t) = 2 + Len(topic)
      /\ Fits(Len(topic)) => t \in Seq(Octets)
  BY TextFacts
<1>3. <<qos>> \in Seq(Octets) /\ Len(<<qos>>) = 1
  <2>1. qos \in Octets
    BY OctetFacts
  <2>2. QED
    BY <2>1, OneFacts
<1>4. id \in Seq(Nat) /\ <<qos>> \in Seq(Nat)
  BY <1>1, <1>3, OctetsAreNumbers
<1> HIDE DEF id, t
<1>5. x \in Seq(Nat) /\ Len(x) = Len(id) + Len(t)
  BY <1>2, <1>4, ConcatType
<1>6. t \in Seq(Octets) => x \in Seq(Octets)
  BY <1>1, ConcatType
<1> HIDE DEF x
<1>7. y \in Seq(Nat) /\ Len(y) = Len(x) + Len(<<qos>>)
  BY <1>4, <1>5, ConcatType
<1>8. x \in Seq(Octets) => y \in Seq(Octets)
  BY <1>3, ConcatType
<1> HIDE DEF y
<1>9. /\ Fits(Len(x)) => x \in Seq(Octets)
      /\ Fits(Len(y)) => y \in Seq(Octets)
  <2>1. Len(x) = 4 + Len(topic) /\ Len(y) = 5 + Len(topic)
    BY <1>1, <1>2, <1>3, <1>5, <1>7
  <2>2. (Fits(Len(x)) => Fits(Len(topic))) /\ (Fits(Len(y)) => Fits(Len(topic)))
    <3>1. Len(topic) \in Nat
      BY <1>2
    <3>2. QED
      BY <2>1, <3>1, U16Is DEF Fits
  <2>3. QED
    BY <1>2, <1>6, <1>8, <2>2
<1>10. /\ SUBSCRIBE \in Nat /\ UNSUBSCRIBE \in Nat /\ 2 \in Nat
       /\ 16 * SUBSCRIBE + 2 <= 255 /\ 16 * UNSUBSCRIBE + 2 <= 255
       /\ 16 * SUBSCRIBE + 2 # 16 * PUBACK /\ 16 * UNSUBSCRIBE + 2 # 16 * PUBACK
  BY DEF SUBSCRIBE, UNSUBSCRIBE, PUBACK
<1>11. OtherPacket(Packet(SUBSCRIBE, 2, y))
  BY <1>7, <1>9, <1>10, PacketType DEF OtherPacket
<1>12. OtherPacket(Packet(UNSUBSCRIBE, 2, x))
  BY <1>5, <1>9, <1>10, PacketType DEF OtherPacket
<1>13. QED
  BY <1>11, <1>12 DEF build_subscribe, build_unsubscribe, y, x, id, t

(* build_puback makes four bytes, the first of them its type.               *)
LEMMA PubackFacts ==
  ASSUME NEW pid \in U16
  PROVE  /\ build_puback(pid) \in Seq(Octets) /\ Len(build_puback(pid)) = 4
         /\ build_puback(pid)[1] = 16 * PUBACK
<1> DEFINE h == <<16 * PUBACK, 2>>
           id == write_u16(pid)
<1>1. id \in Seq(Octets) /\ Len(id) = 2
  <2>1. pid \in Nat /\ Fits(pid)
    BY U16Is
  <2>2. QED
    BY <2>1, U16Facts
<1>2. h \in Seq(Octets) /\ Len(h) = 2 /\ h[1] = 16 * PUBACK
  <2>1. 16 * PUBACK \in Octets /\ 2 \in Octets
    BY OctetFacts DEF PUBACK
  <2>2. QED
    BY <2>1, TwoFacts
<1> HIDE DEF id, h
<1>3. h \o id \in Seq(Octets) /\ Len(h \o id) = Len(h) + Len(id)
  BY <1>1, <1>2, ConcatType
<1>4. (h \o id)[1] = h[1]
  <2>1. h \in Seq(Octets) /\ id \in Seq(Octets) /\ 1 \in Nat /\ 0 < 1 /\ 1 <= Len(h)
    BY <1>1, <1>2
  <2>2. QED
    BY <2>1, ConcatType
<1>5. QED
  BY <1>1, <1>2, <1>3, <1>4 DEF build_puback, h, id

(* What mqtt_task sends.                                                   *)
LEMMA BuildType ==
  ASSUME NEW r \in Requests, NEW pid \in U16
  PROVE  OtherPacket(Build(r, pid))
<1>1. /\ r.kind \in {"publish", "subscribe", "unsubscribe", "pingreq"}
      /\ r.topic \in Seq(Octets) /\ r.payload \in Seq(Octets) /\ r.qos \in 0 .. 2
  BY ChannelAssumption, SMT
<1>2. OtherPacket(build_pingreq)
  <2>1. 16 * PINGREQ \in Octets /\ 0 \in Octets /\ 16 * PINGREQ # 16 * PUBACK
    BY OctetFacts DEF PINGREQ, PUBACK
  <2>2. <<16 * PINGREQ, 0>> \in Seq(Octets) /\ <<16 * PINGREQ, 0>>[1] = 16 * PINGREQ
    BY <2>1, TwoFacts
  <2>3. WellMade(build_pingreq)
    <3> DEFINE h == 16 * PINGREQ
               none == << >>
    <3>1. none \in Seq(Octets) /\ Len(none) = 0
      BY EmptySeq
    <3>2. mqtt_encode_len(0) = <<0>>
      <4>1. LenDigits[0] = DigitsOf(LenDigits, 0)
        BY LenDigitsFacts
      <4>2. 0 < LenBase
        BY BaseFacts
      <4>3. QED
        BY <4>1, <4>2 DEF mqtt_encode_len, DigitsOf
    <3>3. h \in Octets /\ 0 \in Octets
      BY <2>1
    <3> HIDE DEF h, none
    <3>4. (<<h>> \o <<0>>) \o none = <<h, 0>>
      <4> DEFINE x == <<h>>
      <4>1. x \in Seq(Octets) /\ Append(x, 0) = <<h, 0>>
        <5>1. x \in Seq(Octets)
          BY <3>3, OneFacts
        <5> DEFINE u == Append(x, 0)
                   v == <<h, 0>>
        <5>2. Len(x) = 1 /\ x[1] = h
          BY <3>3, OneFacts
        <5>3. v \in Seq(Octets) /\ Len(v) = 2 /\ v[1] = h /\ v[2] = 0
          BY <3>3, TwoFacts
        <5> HIDE DEF x, v
        <5>4. u \in Seq(Octets) /\ Len(u) = 2 /\ u[1] = h /\ u[2] = 0
          <6>1. /\ u \in Seq(Octets) /\ Len(u) = Len(x) + 1 /\ u[Len(x) + 1] = 0
                /\ \A i \in 1 .. Len(x) : u[i] = x[i]
            BY <3>3, <5>1, AppendFacts
          <6> HIDE DEF u
          <6>2. QED
            BY <5>2, <6>1
        <5> HIDE DEF u
        <5>5. \A i \in 1 .. Len(u) : u[i] = v[i]
          BY <5>3, <5>4
        <5>6. u = v
          BY <5>3, <5>4, <5>5, SeqEqual
        <5>7. QED
          BY <5>1, <5>6 DEF u, v
      <4> HIDE DEF x
      <4>2. x \o <<0>> = Append(x, 0)
        BY <3>3, <4>1
      <4>3. <<h, 0>> \in Seq(Octets)
        BY <3>3, TwoFacts
      <4>4. QED
        BY <4>1, <4>2, <4>3, ConcatEmptySeq DEF none, x
    <3>5. Len(none) < LenBase * (LenBase * (LenBase * LenBase))
      <4>1. \A x \in Nat : 1 <= x => LenBase * x \in Nat /\ 1 <= LenBase * x
        BY BaseFacts
      <4>2. QED
        BY <3>1, <4>1, BaseFacts
    <3>6. build_pingreq = Made(h, none)
      BY <3>1, <3>2, <3>4 DEF build_pingreq, Made, h
    <3>7. QED
      BY <3>1, <3>3, <3>5, <3>6 DEF WellMade, MadeOf
  <2>4. QED
    BY <2>1, <2>2, <2>3 DEF build_pingreq, OtherPacket
<1>3. OtherPacket(build_publish(r.topic, r.payload, r.qos, pid))
  BY <1>1, PublishType
<1>4. /\ OtherPacket(build_subscribe(r.topic, r.qos, pid))
      /\ OtherPacket(build_unsubscribe(r.topic, pid))
  BY <1>1, SubscribeType
<1>5. QED
  BY <1>1, <1>2, <1>3, <1>4 DEF Build

(* What the broker sends.                                                  *)
LEMMA MessageFacts ==
  ASSUME NEW m \in Messages
  PROVE  /\ m.topic \in Seq(Octets) /\ m.payload \in Seq(Octets)
         /\ m.qos \in 0 .. 2 /\ m.pid \in U16
         /\ Len(m.topic) < TopicSize /\ (m.qos = 0 => m.pid = 0)
         /\ Packed(m) \in Seq(Octets) /\ Packed(m) # << >>
         /\ m \in [topic : Seq(Octets), payload : Seq(Octets), qos : 0 .. 2, pid : U16]
<1> DEFINE P == Seq(Octets)
<1>1. /\ m \in [topic : P, payload : P, qos : 0 .. 2, pid : U16]
      /\ Len(m.topic) < TopicSize /\ (m.qos = 0 => m.pid = 0) /\ Packed(m) # << >>
  <2>1. /\ m \in MessageRecords
        /\ Len(m.topic) < TopicSize /\ (m.qos = 0 => m.pid = 0) /\ Packed(m) # << >>
    BY DEF Messages
  <2>2. MessageRecords = [topic : P, payload : P, qos : 0 .. 2, pid : U16]
    BY SMT DEF MessageRecords, U16
  <2>3. QED
    BY <2>1, <2>2
<1> HIDE DEF P
<1>2. m.topic \in P /\ m.payload \in P /\ m.qos \in 0 .. 2 /\ m.pid \in U16
  BY <1>1
<1>3. Packed(m) \in Seq(Octets)
  BY <1>2, PublishType DEF Packed, P, OtherPacket
<1>4. QED
  BY <1>1, <1>2, <1>3 DEF P

(* The bytes of a frame of messages, packet by packet and joined.           *)
LEMMA BytesType ==
  ASSUME NEW f \in Seq(Messages)
  PROVE  /\ [i \in DOMAIN f |-> Packed(f[i])] \in Seq(Seq(Octets))
         /\ Bytes(f) \in Seq(Octets)
<1> DEFINE Q == Seq(Octets)
           n == Len(f)
           g == [i \in DOMAIN f |-> Packed(f[i])]
<1>1. g \in [1 .. n -> Q] /\ n \in Nat
  <2>1. \A i \in DOMAIN f : Packed(f[i]) \in Q
    BY MessageFacts
  <2> HIDE DEF Q
  <2>2. QED
    BY <2>1
<1> HIDE DEF g, n, Q
<1>2. g \in Seq(Q)
  BY <1>1, FunctionFacts
<1>3. g \in Seq(Seq(Octets))
  BY <1>2 DEF Q
<1>4. FlattenSeq(g) \in Seq(Octets)
  <2>1. << >> \in Seq(Octets)
    BY EmptySeq
  <2>2. QED
    BY <1>3, <2>1, FlattenAppend
<1>5. QED
  BY <1>3, <1>4 DEF Bytes, g

(* What ForwardFrame sends has the type of a frame.                         *)
LEMMA FrameTyped ==
  ASSUME NEW f \in Frames
  PROVE  [messages |-> f, bytes |-> Bytes(f)] \in SentFrame
<1> DEFINE P == Seq(Octets)
           Q == Seq(Messages)
<1>1. f \in Q /\ Bytes(f) \in P
  BY ChannelAssumption, BytesType
<1> HIDE DEF P, Q
<1>2. [messages |-> f, bytes |-> Bytes(f)] \in [messages : Q, bytes : P]
  BY <1>1
<1>3. QED
  BY <1>2 DEF SentFrame, P, Q

-----------------------------------------------------------------------------
(* The length field read: it ends at the first digit without the            *)
(* continuation bit, if that is among the first four.                      *)
LEMMA LeastIs ==
  ASSUME NEW S \in SUBSET Nat, S # {}
  PROVE  Min(S) \in S /\ \A y \in S : Min(S) <= y
  BY LeastExists DEF Min

EndsAt(s, k) ==
  /\ k \in Nat /\ 0 < k /\ k <= 4 /\ k <= Len(s) /\ s[k] < LenBase
  /\ \A j \in Nat : 0 < j /\ j < k => ~ (s[j] < LenBase)

DigitOf(s, k, i) == IF i <= k THEN s[i] % LenBase ELSE 0

Decoded(s, k) ==
  [ok |-> TRUE, bytes |-> k,
   value |-> DigitOf(s, k, 1)
             + LenBase * (DigitOf(s, k, 2)
                          + LenBase * (DigitOf(s, k, 3) + LenBase * DigitOf(s, k, 4)))]

Undecoded == [ok |-> FALSE, value |-> 0, bytes |-> 0]

LastDigits(s) == {i \in 1 .. Min({4, Len(s)}) : s[i] < LenBase}

(* Where a length field can end.                                            *)
LEMMA LastDigitsFacts ==
  ASSUME NEW s \in Seq(Octets)
  PROVE  /\ LastDigits(s) \in SUBSET Nat
         /\ \A i \in Nat : i \in LastDigits(s) <=>
              0 < i /\ i <= 4 /\ i <= Len(s) /\ s[i] < LenBase
<1> DEFINE m == Min({4, Len(s)})
<1>1. m \in Nat /\ \A i \in Nat : i <= m <=> i <= 4 /\ i <= Len(s)
  <2>1. {4, Len(s)} \in SUBSET Nat /\ {4, Len(s)} # {}
    OBVIOUS
  <2>2. m \in {4, Len(s)} /\ \A y \in {4, Len(s)} : m <= y
    BY <2>1, LeastIs
  <2> HIDE DEF m
  <2>3. m \in Nat /\ m <= 4 /\ m <= Len(s) /\ (m = 4 \/ m = Len(s)) /\ Len(s) \in Nat
    BY <2>2
  <2>4. QED
    BY <2>3
<1> HIDE DEF m
<1>2. LastDigits(s) = {i \in 1 .. m : s[i] < LenBase}
  BY DEF LastDigits, m
<1>3. ASSUME NEW i \in Nat
      PROVE  i \in LastDigits(s) <=> 0 < i /\ i <= 4 /\ i <= Len(s) /\ s[i] < LenBase
  <2>1. i \in 1 .. m <=> 0 < i /\ i <= m
    BY <1>1
  <2>2. QED
    BY <1>1, <1>2, <2>1
<1>4. LastDigits(s) \in SUBSET Nat
  BY <1>1, <1>2
<1>5. QED
  BY <1>3, <1>4

(* A field that ends at its k-th byte is decoded from its first k digits.   *)
LEMMA DecodeAt ==
  ASSUME NEW s \in Seq(Octets), NEW k, EndsAt(s, k)
  PROVE  mqtt_decode_len(s) = Decoded(s, k)
<1> DEFINE last == LastDigits(s)
<1>1. last \in SUBSET Nat /\ k \in last
  BY LastDigitsFacts DEF EndsAt
<1>2. Min(last) \in last /\ \A y \in last : Min(last) <= y
  BY <1>1, LeastIs
<1> DEFINE n == Min(last)
<1>3. n = k
  <2>1. n \in Nat /\ k \in Nat /\ 0 < n /\ n <= k /\ s[n] < LenBase
    BY <1>1, <1>2, LastDigitsFacts
  <2> HIDE DEF n
  <2>2. ~ (n < k)
    BY <2>1 DEF EndsAt
  <2>3. QED
    BY <2>1, <2>2
<1>4. last # {}
  BY <1>1
<1>5. mqtt_decode_len(s)
        = [ok |-> TRUE, bytes |-> n,
           value |-> DigitOf(s, n, 1)
                     + LenBase * (DigitOf(s, n, 2)
                          + LenBase * (DigitOf(s, n, 3) + LenBase * DigitOf(s, n, 4)))]
  BY <1>4, Zenon DEF mqtt_decode_len, LastDigits, DigitOf
<1> HIDE DEF n
<1>6. QED
  BY <1>3, <1>5 DEF Decoded

(* A length field ends somewhere, or is not decoded.                        *)
LEMMA DecodeCases ==
  ASSUME NEW s \in Seq(Octets)
  PROVE  (\E k : EndsAt(s, k)) \/ mqtt_decode_len(s) = Undecoded
<1> DEFINE last == LastDigits(s)
<1>1. CASE last = {}
  BY <1>1, Zenon DEF mqtt_decode_len, LastDigits, Undecoded
<1>2. CASE last # {}
  <2>1. last \in SUBSET Nat
    BY LastDigitsFacts
  <2>2. PICK k \in last : \A y \in last : k <= y
    BY <1>2, <2>1, LeastExists
  <2>3. k \in Nat /\ 0 < k /\ k <= 4 /\ k <= Len(s) /\ s[k] < LenBase
    BY <2>1, <2>2, LastDigitsFacts
  <2>4. ASSUME NEW j \in Nat, 0 < j, j < k PROVE ~ (s[j] < LenBase)
    <3>1. j \notin last /\ j <= 4 /\ j <= Len(s)
      BY <2>1, <2>2, <2>3, <2>4
    <3>2. QED
      BY <2>4, <3>1, LastDigitsFacts
  <2>5. QED
    BY <2>3, <2>4 DEF EndsAt
<1>3. QED
  BY <1>1, <1>2

(* mqtt_decode_len never takes more bytes than there are.                   *)
LEMMA DecodeType ==
  ASSUME NEW s \in Seq(Octets)
  PROVE  /\ mqtt_decode_len(s).ok \in BOOLEAN
         /\ mqtt_decode_len(s).bytes \in Nat /\ mqtt_decode_len(s).bytes <= Len(s)
         /\ mqtt_decode_len(s).value \in Nat
<1>1. CASE mqtt_decode_len(s) = Undecoded
  <2>1. Len(s) \in Nat
    OBVIOUS
  <2>2. QED
    BY <1>1, <2>1 DEF Undecoded
<1>2. CASE \E k : EndsAt(s, k)
  <2>1. PICK k : EndsAt(s, k)
    BY <1>2
  <2>2. mqtt_decode_len(s) = Decoded(s, k)
    BY <2>1, DecodeAt
  <2>3. k \in Nat /\ k <= Len(s)
    BY <2>1 DEF EndsAt
  <2>4. ASSUME NEW i \in Nat, 0 < i PROVE DigitOf(s, k, i) \in Nat
    <3>1. CASE i <= k
      <4>1. i \in 1 .. Len(s)
        BY <2>3, <2>4, <3>1
      <4>2. s[i] \in Nat
        BY <4>1, OctetIs
      <4>3. s[i] % LenBase \in Nat
        BY <4>2, SmallerQuotient
      <4>4. QED
        BY <3>1, <4>3 DEF DigitOf
    <3>2. CASE ~ (i <= k)
      BY <3>2 DEF DigitOf
    <3>3. QED
      BY <3>1, <3>2
  <2>5. DigitOf(s, k, 1) \in Nat /\ DigitOf(s, k, 2) \in Nat /\ DigitOf(s, k, 3) \in Nat /\ DigitOf(s, k, 4) \in Nat
    BY <2>4
  <2>6. Decoded(s, k).value \in Nat
    <3>1. \A a, b \in Nat : a + LenBase * b \in Nat
      BY BaseFacts
    <3>2. LenBase * DigitOf(s, k, 4) \in Nat
      BY <2>5, BaseFacts
    <3>3. DigitOf(s, k, 3) + LenBase * DigitOf(s, k, 4) \in Nat
      BY <2>5, <3>1
    <3>4. DigitOf(s, k, 2) + LenBase * (DigitOf(s, k, 3) + LenBase * DigitOf(s, k, 4)) \in Nat
      BY <2>5, <3>1, <3>3
    <3>5. QED
      BY <2>5, <3>1, <3>4 DEF Decoded
  <2>7. QED
    BY <2>2, <2>3, <2>6 DEF Decoded
<1>3. QED
  BY <1>1, <1>2, DecodeCases

(* handle_rx never takes more bytes than there are.                         *)
LEMMA FirstPacketType ==
  ASSUME NEW data \in Seq(Octets)
  PROVE  /\ FirstPacket(data).bytes \in Seq(Octets)
         /\ Len(FirstPacket(data).bytes) \in 0 .. Len(data)
<1> DEFINE len == mqtt_decode_len(Tail(data))
           total == 1 + len.bytes + len.value
<1>1. CASE Len(data) < 2 \/ ~len.ok \/ total > Len(data)
  <2>1. FirstPacket(data) = [ok |-> FALSE, type |-> 0, bytes |-> << >>]
    BY <1>1 DEF FirstPacket
  <2>2. << >> \in Seq(Octets) /\ Len(<< >>) = 0 /\ Len(data) \in Nat
    BY EmptySeq
  <2>3. QED
    BY <2>1, <2>2
<1>2. CASE ~ (Len(data) < 2 \/ ~len.ok \/ total > Len(data))
  <2>1. data # << >> /\ Len(data) \in Nat
    BY <1>2
  <2>2. Tail(data) \in Seq(Octets)
    BY <2>1, TakeFacts
  <2>3. len.bytes \in Nat /\ len.value \in Nat
    BY <2>2, DecodeType
  <2>4. FirstPacket(data).bytes = SubSeq(data, 1, total)
    BY <1>2 DEF FirstPacket
  <2> DEFINE t == total
  <2>5. t \in Nat /\ t <= Len(data)
    BY <1>2, <2>1, <2>3
  <2> HIDE DEF t
  <2>6. \A i \in 1 .. t : data[i] \in Octets
    BY <2>1, <2>5
  <2>7. SubSeq(data, 1, t) \in Seq(Octets) /\ Len(SubSeq(data, 1, t)) = IF 1 <= t THEN t - 1 + 1 ELSE 0
    BY <2>5, <2>6, SubSeqProperties
  <2>8. Len(SubSeq(data, 1, t)) \in 0 .. Len(data)
    BY <2>1, <2>5, <2>7
  <2>9. QED
    BY <2>4, <2>7, <2>8 DEF t
<1>3. QED
  BY <1>1, <1>2

(* What is left from position k on.                                         *)
LEMMA RestType ==
  ASSUME NEW s \in Seq(Octets), NEW k \in Nat, 0 < k
  PROVE  /\ SubSeq(s, k, Len(s)) \in Seq(Octets)
         /\ Len(SubSeq(s, k, Len(s))) = IF k <= Len(s) THEN Len(s) - k + 1 ELSE 0
         /\ \A i \in Nat : 0 < i /\ i <= Len(s) - k + 1 => SubSeq(s, k, Len(s))[i] = s[k + i - 1]
<1>1. Len(s) \in Nat /\ \A i \in k .. Len(s) : s[i] \in Octets
  OBVIOUS
<1> DEFINE n == Len(s)
           t == SubSeq(s, k, n)
<1> HIDE DEF n
<1>2. /\ t \in Seq(Octets) /\ Len(t) = IF k <= n THEN n - k + 1 ELSE 0
      /\ \A i \in 1 .. n - k + 1 : t[i] = s[k + i - 1]
  BY <1>1, SubSeqProperties DEF n
<1>3. \A i \in Nat : 0 < i /\ i <= n - k + 1 => i \in 1 .. n - k + 1
  BY <1>1 DEF n
<1>4. QED
  BY <1>2, <1>3 DEF n

(* read_u16 of two bytes fits a uint16_t.                                   *)
LEMMA ReadType ==
  ASSUME NEW s \in Seq(Octets), Len(s) >= 2
  PROVE  read_u16(s) \in U16
<1>1. s[1] \in Octets /\ s[2] \in Octets
  <2>1. 1 \in 1 .. Len(s) /\ 2 \in 1 .. Len(s)
    OBVIOUS
  <2>2. QED
    BY <2>1
<1> DEFINE a == s[1]
           b == s[2]
<1> HIDE DEF a, b
<1>2. a \in Nat /\ a <= 255 /\ b \in Nat /\ b <= 255
  BY <1>1, OctetIs DEF a, b
<1>3. 256 * a + b \in Nat /\ Fits(256 * a + b)
  BY <1>2, SMT DEF Fits, U16Max
<1>4. QED
  BY <1>3, U16Is DEF read_u16, a, b

(* The packet id handle_publish reads fits a uint16_t.                      *)
LEMMA HandledType ==
  ASSUME NEW p \in Seq(Octets)
  PROVE  handle_publish(p).pid \in U16
<1> DEFINE len == mqtt_decode_len(Tail(p))
           qos == ((p[1] % 16) \div 2) % 4
           body == SubSeq(p, 2 + len.bytes, Len(p))
           named == read_u16(body)
           tn == IF named >= TopicSize THEN TopicSize - 1 ELSE named
           rest == SubSeq(body, 3 + tn, Len(body))
<1>0. 0 \in U16
  BY U16Is DEF Fits
<1>1. CASE handle_publish(p) = NoMessage
  BY <1>0, <1>1 DEF NoMessage
<1>2. CASE handle_publish(p) # NoMessage
  <2>1. /\ ~ (Len(p) < 4 \/ Len(body) < 2)
        /\ ~ (2 + named > Len(body) \/ NoRoomForId(qos, rest))
        /\ handle_publish(p)
             = [topic |-> SubSeq(body, 3, 2 + tn), qos |-> qos,
                payload |-> IF qos > 0 THEN SubSeq(rest, 3, Len(rest)) ELSE rest,
                pid |-> IF qos > 0 THEN read_u16(rest) ELSE 0]
    BY <1>2, Zenon DEF handle_publish
  <2>2. handle_publish(p).pid = IF qos > 0 THEN read_u16(rest) ELSE 0
    <3> HIDE DEF body, named, tn, rest, qos
    <3>1. QED
      BY <2>1
  <2>3. len.bytes \in Nat
    <3>1. p # << >>
      BY <2>1
    <3>2. Tail(p) \in Seq(Octets)
      BY <3>1, TakeFacts
    <3>3. QED
      BY <3>2, DecodeType
  <2> HIDE DEF len, qos
  <2>4. body \in Seq(Octets)
    <3>1. 2 + len.bytes \in Nat /\ 0 < 2 + len.bytes
      BY <2>3
    <3>2. QED
      BY <3>1, RestType
  <2> HIDE DEF body
  <2>5. named \in Nat
    <3>1. Len(body) >= 2
      BY <2>1, <2>4
    <3>2. QED
      BY <2>4, <3>1, ReadType, U16Is
  <2> HIDE DEF named
  <2>6. tn \in Nat
    BY <2>5, CodecAssumption
  <2> HIDE DEF tn
  <2>7. rest \in Seq(Octets)
    BY <2>4, <2>6, RestType
  <2> HIDE DEF rest
  <2>8. qos > 0 => read_u16(rest) \in U16
    <3>1. qos > 0 => Len(rest) >= 2
      BY <2>1, <2>7 DEF NoRoomForId
    <3>2. QED
      BY <2>7, <3>1, ReadType
  <2>9. QED
    BY <1>0, <2>2, <2>8
<1>3. QED
  BY <1>1, <1>2

-----------------------------------------------------------------------------
(* The decimal digits of a length in a header.                             *)
DecimalOf(f, n) ==
  IF n < 10 THEN <<48 + n>> ELSE Append(f[n \div 10], 48 + (n % 10))

DecimalUpto(f, n) == \A m \in Nat : m <= n => f[m] = DecimalOf(f, m)

(* Division by 10: quotient and rest, and the quotient is smaller.     *)
LEMMA SmallerTenth ==
  ASSUME NEW n \in Nat
  PROVE  /\ n \div 10 \in Nat /\ n % 10 \in Nat /\ n % 10 < 10
         /\ n = 10 * (n \div 10) + (n % 10)
         /\ n >= 10 => n \div 10 < n
  BY SMT

(* Two functions that satisfy the recursion up to n agree up to n.          *)
LEMMA DecimalAgree ==
  ASSUME NEW f, NEW g, NEW n \in Nat, DecimalUpto(f, n), DecimalUpto(g, n)
  PROVE  f[n] = g[n]
<1> DEFINE T == {m \in Nat : m <= n /\ f[m] # g[m]}
<1> SUFFICES ASSUME T # {} PROVE FALSE
  OBVIOUS
<1>1. PICK t \in T : \A u \in T : t <= u
  <2>1. T \in SUBSET Nat
    OBVIOUS
  <2> HIDE DEF T
  <2>2. QED
    BY <2>1, LeastExists
<1>2. t \in Nat /\ t <= n /\ f[t] = DecimalOf(f, t) /\ g[t] = DecimalOf(g, t)
  BY DEF DecimalUpto
<1>3. t >= 10 => f[t \div 10] = g[t \div 10]
  <2> SUFFICES ASSUME t >= 10 PROVE f[t \div 10] = g[t \div 10]
    OBVIOUS
  <2>1. t \div 10 \in Nat /\ t \div 10 < t
    BY <1>2, SmallerTenth
  <2> DEFINE k == t \div 10
  <2> HIDE DEF k
  <2>2. k \in Nat /\ k < t
    BY <2>1 DEF k
  <2>3. f[k] = g[k]
    BY <1>1, <1>2, <2>2
  <2>4. QED
    BY <2>3 DEF k
<1>4. DecimalOf(f, t) = DecimalOf(g, t)
  BY <1>2, <1>3 DEF DecimalOf
<1>5. QED
  BY <1>2, <1>4

(* Up to every n the recursion has a solution.                              *)
LEMMA DecimalUptoExist ==
  ASSUME NEW n \in Nat
  PROVE  \E f : DecimalUpto(f, n)
<1> DEFINE T == {m \in Nat : ~ \E f : DecimalUpto(f, m)}
<1> SUFFICES ASSUME T # {} PROVE FALSE
  OBVIOUS
<1>1. PICK t \in T : \A u \in T : t <= u
  <2>1. T \in SUBSET Nat
    OBVIOUS
  <2> HIDE DEF T
  <2>2. QED
    BY <2>1, LeastExists
<1>2. t \in Nat /\ ~ \E f : DecimalUpto(f, t)
  OBVIOUS
<1>3. PICK f : \A m \in Nat : m < t => f[m] = DecimalOf(f, m)
  <2>1. CASE t = 0
    BY <2>1
  <2>2. CASE t # 0
    <3>1. t - 1 \in Nat /\ t - 1 \notin T
      BY <1>1, <1>2, <2>2
    <3>2. PICK f : DecimalUpto(f, t - 1)
      BY <3>1
    <3>3. QED
      BY <1>2, <3>2 DEF DecimalUpto
  <2>3. QED
    BY <2>1, <2>2
<1> HIDE DEF T
<1> DEFINE g == [m \in Nat |-> IF m < t THEN f[m] ELSE DecimalOf(f, t)]
<1>4. ASSUME NEW m \in Nat, m <= t PROVE g[m] = DecimalOf(g, m)
  <2>1. DecimalOf(g, m) = DecimalOf(f, m)
    <3>1. m >= 10 => m \div 10 \in Nat /\ m \div 10 < t
      BY <1>2, <1>4, SmallerTenth
    <3> DEFINE k == m \div 10
    <3> HIDE DEF k
    <3>2. m >= 10 => g[k] = f[k]
      BY <3>1 DEF k
    <3>3. QED
      BY <3>2 DEF DecimalOf, k
  <2>2. CASE m < t
    BY <1>3, <2>1, <2>2
  <2>3. CASE m = t
    BY <1>2, <2>1, <2>3
  <2>4. QED
    BY <1>2, <1>4, <2>2, <2>3
<1>5. QED
  BY <1>2, <1>4 DEF DecimalUpto

(* The recursive definition is one: Decimal satisfies its equation.       *)
LEMMA DecimalFacts == \A n \in Nat : Decimal[n] = DecimalOf(Decimal, n)
<1> DEFINE h == [n \in Nat |-> CHOOSE f : DecimalUpto(f, n)]
           F == [n \in Nat |-> h[n][n]]
<1>1. \A n \in Nat : DecimalUpto(h[n], n)
  BY DecimalUptoExist
<1>2. ASSUME NEW n \in Nat PROVE F[n] = DecimalOf(F, n)
  <2>1. F[n] = DecimalOf(h[n], n)
    BY <1>1 DEF DecimalUpto
  <2>2. ASSUME n >= 10 PROVE F[n \div 10] = h[n][n \div 10]
    <3> DEFINE k == n \div 10
    <3>1. k \in Nat /\ k < n
      BY <2>2, SmallerTenth
    <3> HIDE DEF k
    <3>2. DecimalUpto(h[n], k) /\ DecimalUpto(h[k], k)
      BY <1>1, <3>1 DEF DecimalUpto
    <3>3. h[n][k] = h[k][k]
      BY <3>1, <3>2, DecimalAgree
    <3>4. F[k] = h[n][k]
      BY <3>1, <3>3
    <3>5. QED
      BY <3>4 DEF k
  <2>3. QED
    BY <2>1, <2>2 DEF DecimalOf
<1> HIDE DEF h
<1>3. F = [n \in Nat |-> DecimalOf(F, n)]
  BY <1>2
<1> HIDE DEF F
<1>4. F = [n \in Nat |-> IF n < 10 THEN <<48 + n>>
                         ELSE Append(F[n \div 10], 48 + (n % 10))]
  BY <1>3 DEF DecimalOf
<1>5. Decimal = [n \in Nat |-> IF n < 10 THEN <<48 + n>>
                         ELSE Append(Decimal[n \div 10], 48 + (n % 10))]
  BY <1>4 DEF Decimal
<1>6. QED
  BY <1>5 DEF DecimalOf

(* A length is written in digits.                                           *)
LEMMA DecimalType ==
  ASSUME NEW n \in Nat
  PROVE  Decimal[n] \in Seq(Digits) /\ Decimal[n] # << >>
<1> DEFINE T == {m \in Nat : ~ (Decimal[m] \in Seq(Digits) /\ Decimal[m] # << >>)}
<1> SUFFICES ASSUME T # {} PROVE FALSE
  OBVIOUS
<1>1. PICK t \in T : \A u \in T : t <= u
  <2>1. T \in SUBSET Nat
    OBVIOUS
  <2> HIDE DEF T
  <2>2. QED
    BY <2>1, LeastExists
<1>2. t \in Nat /\ Decimal[t] = DecimalOf(Decimal, t)
  BY DecimalFacts
<1>3. \A d \in Nat : d < 10 => 48 + d \in Digits
  BY SMT DEF Digits
<1>4. CASE t < 10
  <2>1. Decimal[t] = <<48 + t>> /\ 48 + t \in Digits
    BY <1>2, <1>3, <1>4 DEF DecimalOf
  <2> HIDE DEF T
  <2>2. <<48 + t>> \in Seq(Digits) /\ Len(<<48 + t>>) = 1
    BY <2>1, OneFacts
  <2>3. Decimal[t] \in Seq(Digits) /\ Decimal[t] # << >>
    BY <2>1, <2>2
  <2>4. QED
    BY <1>1, <2>3 DEF T
<1>5. CASE ~ (t < 10)
  <2> DEFINE k == t \div 10
             d == 48 + (t % 10)
  <2>1. k \in Nat /\ k < t /\ t % 10 \in Nat /\ t % 10 < 10
    BY <1>2, <1>5, SmallerTenth
  <2>2. Decimal[t] = Append(Decimal[k], d) /\ d \in Digits
    BY <1>2, <1>3, <1>5, <2>1 DEF DecimalOf
  <2> HIDE DEF k, d
  <2>3. Decimal[k] \in Seq(Digits)
    BY <1>1, <1>2, <2>1
  <2>4. Append(Decimal[k], d) \in Seq(Digits) /\ Len(Append(Decimal[k], d)) = Len(Decimal[k]) + 1
    BY <2>2, <2>3, AppendFacts
  <2>5. Decimal[t] \in Seq(Digits) /\ Decimal[t] # << >>
    <3>1. Len(Decimal[k]) \in Nat
      BY <2>3
    <3>2. QED
      BY <2>2, <2>4, <3>1
  <2>6. QED
    BY <1>1, <2>5
<1>6. QED
  BY <1>4, <1>5

(* One digit more.                                                          *)
LEMMA DecimalLonger ==
  ASSUME NEW n \in Nat
  PROVE  /\ n < 10 => Len(Decimal[n]) = 1 /\ Decimal[n][1] = 48 + n
         /\ ~ (n < 10) => /\ Len(Decimal[n]) = Len(Decimal[n \div 10]) + 1
                          /\ Decimal[n][Len(Decimal[n])] = 48 + (n % 10)
                          /\ \A i \in 1 .. Len(Decimal[n \div 10]) :
                               Decimal[n][i] = Decimal[n \div 10][i]
<1>1. Decimal[n] = DecimalOf(Decimal, n)
  BY DecimalFacts
<1>2. CASE n < 10
  <2>1. Decimal[n] = <<48 + n>>
    BY <1>1, <1>2 DEF DecimalOf
  <2>2. 48 + n \in Nat
    OBVIOUS
  <2>3. QED
    BY <1>2, <2>1, <2>2, OneFacts
<1>3. CASE ~ (n < 10)
  <2> DEFINE k == n \div 10
             d == 48 + (n % 10)
  <2>1. k \in Nat /\ n % 10 \in Nat /\ d \in Nat
    BY SmallerTenth
  <2>2. Decimal[n] = Append(Decimal[k], d)
    BY <1>1, <1>3 DEF DecimalOf
  <2>3. Decimal[k] \in Seq(Nat)
    <3>1. Decimal[k] \in Seq(Digits)
      BY <2>1, DecimalType
    <3>2. \A x \in Digits : x \in Nat
      BY SMT DEF Digits
    <3>3. \A e \in Seq(Digits) : e \in Seq(Nat)
      BY <3>2
    <3> HIDE DEF k
    <3>4. QED
      BY <3>1, <3>3
  <2>4. PICK e \in Seq(Nat) : e = Decimal[k]
    BY <2>3
  <2> HIDE DEF k, d
  <2>5. /\ Len(Append(e, d)) = Len(e) + 1 /\ Append(e, d)[Len(e) + 1] = d
        /\ \A i \in 1 .. Len(e) : Append(e, d)[i] = e[i]
    BY <2>1, AppendFacts
  <2>6. QED
    BY <1>3, <2>2, <2>4, <2>5 DEF k, d
<1>4. QED
  BY <1>2, <1>3

(* Five digits are enough for a uint16_t.                                   *)
LEMMA DecimalShort ==
  ASSUME NEW n \in Nat, Fits(n)
  PROVE  Len(Decimal[n]) <= 5
<1> DEFINE L(k) == Len(Decimal[k])
<1>1. \A k \in Nat : k < 10 => L(k) = 1
  BY DecimalLonger
<1>2. \A k \in Nat : ~ (k < 10) => L(k) = L(k \div 10) + 1
  BY DecimalLonger
<1> HIDE DEF L
<1>3. \A k \in Nat : k \div 10 \in Nat
  BY SmallerTenth
<1>4. \A k \in Nat : k < 100 => L(k) \in Nat /\ L(k) <= 2
  <2>1. \A k \in Nat : k < 100 => k \div 10 < 10
    BY SMT
  <2>2. QED
    BY <1>1, <1>2, <1>3, <2>1
<1>5. \A k \in Nat : k < 1000 => L(k) \in Nat /\ L(k) <= 3
  <2>1. \A k \in Nat : k < 1000 => k \div 10 < 100
    BY SMT
  <2>2. QED
    BY <1>1, <1>2, <1>3, <1>4, <2>1
<1>6. \A k \in Nat : k < 10000 => L(k) \in Nat /\ L(k) <= 4
  <2>1. \A k \in Nat : k < 10000 => k \div 10 < 1000
    BY SMT
  <2>2. QED
    BY <1>1, <1>2, <1>3, <1>5, <2>1
<1>7. \A k \in Nat : k < 100000 => L(k) \in Nat /\ L(k) <= 5
  <2>1. \A k \in Nat : k < 100000 => k \div 10 < 10000
    BY SMT
  <2>2. QED
    BY <1>1, <1>2, <1>3, <1>6, <2>1
<1>8. n < 100000
  BY SMT DEF Fits, U16Max
<1>9. QED
  BY <1>7, <1>8 DEF L

(* The number that the digits before position k + 1 of s make.              *)
More(v, d) == (10 * v + (d - 48)) % (U16Max + 1)
ValueUpto(f, s, n) == \A k \in 0 .. n : f[k] = IF k = 0 THEN 0 ELSE More(f[k - 1], s[k])

(* A digit more keeps a number, and within 16 bits it is exact.             *)
LEMMA MoreFacts ==
  ASSUME NEW v \in Nat, NEW d \in Nat
  PROVE  /\ More(v, d) \in Nat
         /\ \A r \in Nat : d = 48 + r /\ Fits(10 * v + r) => More(v, d) = 10 * v + r
  BY SMT DEF More, Fits, U16Max

(* The numbers exist, by least counterexample.                              *)
LEMMA ValueExists ==
  ASSUME NEW s, NEW n \in Nat
  PROVE  \E f : ValueUpto(f, s, n)
<1> DEFINE T == {m \in Nat : ~ \E f : ValueUpto(f, s, m)}
<1> SUFFICES ASSUME T # {} PROVE FALSE
  OBVIOUS
<1>1. PICK t \in T : \A u \in T : t <= u
  <2>1. T \in SUBSET Nat
    OBVIOUS
  <2> HIDE DEF T
  <2>2. QED
    BY <2>1, LeastExists
<1>2. t \in Nat /\ ~ \E f : ValueUpto(f, s, t)
  OBVIOUS
<1>3. CASE t = 0
  <2> DEFINE g == [k \in 0 .. 0 |-> 0]
  <2>1. \A k \in 0 .. 0 : k = 0 /\ g[k] = 0
    OBVIOUS
  <2> HIDE DEF g
  <2>2. ValueUpto(g, s, 0)
    BY <2>1 DEF ValueUpto
  <2>3. QED
    BY <1>2, <1>3, <2>2
<1>4. CASE t # 0
  <2>1. t - 1 \in Nat /\ t - 1 \notin T
    BY <1>1, <1>2, <1>4
  <2>2. PICK f : ValueUpto(f, s, t - 1)
    BY <2>1
  <2> HIDE DEF T
  <2> DEFINE g == [k \in 0 .. t |-> IF k < t THEN f[k] ELSE More(f[t - 1], s[t])]
  <2>3. ASSUME NEW k \in 0 .. t PROVE g[k] = IF k = 0 THEN 0 ELSE More(g[k - 1], s[k])
    <3>1. k # 0 => g[k - 1] = f[k - 1]
      <4>1. k # 0 => k - 1 \in 0 .. t /\ k - 1 < t
        BY <1>2
      <4>2. QED
        BY <4>1
    <3>2. CASE k < t
      <4>1. k \in 0 .. t - 1
        BY <1>2, <3>2
      <4>2. QED
        BY <2>2, <3>1, <3>2, <4>1 DEF ValueUpto
    <3>3. CASE k = t
      BY <1>2, <1>4, <3>1, <3>3
    <3>4. QED
      BY <1>2, <3>2, <3>3
  <2> HIDE DEF g
  <2>4. QED
    BY <1>2, <2>3 DEF ValueUpto
<1>5. QED
  BY <1>3, <1>4

(* Number is the last of them before the first byte that is no digit.       *)
LEMMA NumberIs ==
  ASSUME NEW s, Len(s) \in Nat
  PROVE  \E f : ValueUpto(f, s, Len(s)) /\ Number(s) = f[FirstNonDigit(s) - 1]
<1> DEFINE n == Len(s)
<1>1. PICK f : ValueUpto(f, s, n)
  BY ValueExists
<1> DEFINE g == [k \in 0 .. n |-> f[k]]
           value == CHOOSE h : h = [k \in 0 .. n |->
                      IF k = 0 THEN 0 ELSE (10 * h[k - 1] + s[k] - 48) % (U16Max + 1)]
<1>2. g = [k \in 0 .. n |->
                      IF k = 0 THEN 0 ELSE (10 * g[k - 1] + s[k] - 48) % (U16Max + 1)]
  <2>1. \A k \in 0 .. n : k # 0 => k - 1 \in 0 .. n
    OBVIOUS
  <2>2. \A k \in 0 .. n : g[k] = IF k = 0 THEN 0 ELSE (10 * g[k - 1] + s[k] - 48) % (U16Max + 1)
    BY <1>1, <2>1 DEF ValueUpto, More
  <2>3. QED
    BY <2>2
<1> HIDE DEF g
<1>3. value = [k \in 0 .. n |->
                 IF k = 0 THEN 0 ELSE (10 * value[k - 1] + s[k] - 48) % (U16Max + 1)]
  BY <1>2
<1>4. Number(s) = value[FirstNonDigit(s) - 1]
  BY DEF Number
<1> HIDE DEF value
<1>5. ValueUpto(value, s, n)
  BY <1>3 DEF ValueUpto, More
<1>6. QED
  BY <1>4, <1>5

(* The digits of a number, read, make the number.                           *)
LEMMA DecimalRead ==
  ASSUME NEW n \in Nat, Fits(n), NEW s, NEW f, NEW N \in Nat, ValueUpto(f, s, N),
         Len(Decimal[n]) <= N, \A i \in 1 .. Len(Decimal[n]) : s[i] = Decimal[n][i]
  PROVE  f[Len(Decimal[n])] = n
<1> DEFINE L(m) == Len(Decimal[m])
           Agrees(m) == L(m) <= N /\ \A i \in 1 .. L(m) : s[i] = Decimal[m][i]
           T == {m \in Nat : Fits(m) /\ Agrees(m) /\ f[L(m)] # m}
<1>1. \A m \in Nat : L(m) \in Nat
  <2>1. \A m \in Nat : Decimal[m] \in Seq(Digits)
    BY DecimalType
  <2>2. QED
    BY <2>1
<1>2. \A m \in Nat : m < 10 => L(m) = 1 /\ Decimal[m][1] = 48 + m
  BY DecimalLonger
<1>3. \A m \in Nat : ~ (m < 10) =>
         /\ L(m) = L(m \div 10) + 1 /\ Decimal[m][L(m)] = 48 + (m % 10)
         /\ \A i \in 1 .. L(m \div 10) : Decimal[m][i] = Decimal[m \div 10][i]
  BY DecimalLonger
<1> HIDE DEF L
<1>4. f[0] = 0 /\ \A k \in 1 .. N : f[k] = More(f[k - 1], s[k])
  <2>1. 0 \in 0 .. N /\ \A k \in 1 .. N : k \in 0 .. N /\ k # 0
    OBVIOUS
  <2>2. QED
    BY <2>1 DEF ValueUpto
<1> SUFFICES ASSUME T # {} PROVE FALSE
  <2>1. Agrees(n) /\ (n \notin T => f[L(n)] = n)
    BY DEF L
  <2>2. QED
    BY <2>1 DEF L
<1>5. PICK t \in T : \A u \in T : t <= u
  <2>1. T \in SUBSET Nat
    OBVIOUS
  <2> HIDE DEF T
  <2>2. QED
    BY <2>1, LeastExists
<1>6. t \in Nat /\ Fits(t) /\ L(t) <= N /\ f[L(t)] # t /\ \A i \in 1 .. L(t) : s[i] = Decimal[t][i]
  OBVIOUS
<1>7. CASE t < 10
  <2>1. L(t) = 1 /\ Decimal[t][1] = 48 + t
    BY <1>2, <1>6, <1>7
  <2>2. 1 \in 1 .. N /\ s[1] = 48 + t /\ 1 \in 1 .. L(t) /\ 1 - 1 = 0
    BY <1>6, <2>1
  <2>3. f[1] = More(f[1 - 1], s[1])
    BY <1>4, <2>2
  <2>4. f[1] = More(0, 48 + t)
    BY <1>4, <2>2, <2>3
  <2>5. More(0, 48 + t) = 10 * 0 + t
    <3>1. 48 + t \in Nat /\ 10 * 0 + t = t
      BY <1>6
    <3>2. QED
      BY <1>6, <3>1, MoreFacts
  <2>6. QED
    BY <1>6, <2>1, <2>4, <2>5
<1>8. CASE ~ (t < 10)
  <2> DEFINE q == t \div 10
             r == t % 10
             l == L(t)
             k == L(q)
  <2>1. q \in Nat /\ q < t /\ r \in Nat /\ r < 10 /\ t = 10 * q + r
    BY <1>6, <1>8, SmallerTenth
  <2>2. /\ l = k + 1 /\ Decimal[t][l] = 48 + r
        /\ \A i \in 1 .. k : Decimal[t][i] = Decimal[q][i]
    BY <1>3, <1>6, <1>8
  <2> HIDE DEF q, r
  <2>3. k \in Nat
    BY <1>1, <2>1
  <2> HIDE DEF l
  <2>4. Fits(q)
    BY <1>6, <2>1, U16Is DEF Fits
  <2>5. l <= N /\ f[l] # t /\ \A i \in 1 .. l : s[i] = Decimal[t][i]
    BY <1>6 DEF l
  <2>6. Agrees(q)
    <3>1. \A i \in 1 .. k : i \in 1 .. l
      BY <2>2, <2>3
    <3>2. k <= N
      BY <2>2, <2>3, <2>5
    <3>3. \A i \in 1 .. k : s[i] = Decimal[q][i]
      BY <2>2, <2>5, <3>1
    <3>4. QED
      BY <3>2, <3>3
  <2>7. f[k] = q
    <3>1. q \notin T
      BY <1>5, <1>6, <2>1
    <3> HIDE DEF Agrees
    <3>2. QED
      BY <2>1, <2>4, <2>6, <3>1
  <2>8. l \in 1 .. N /\ l \in 1 .. l /\ l - 1 = k
    BY <2>2, <2>3, <2>5
  <2>9. f[l] = More(f[l - 1], s[l]) /\ s[l] = 48 + r
    BY <1>4, <2>2, <2>5, <2>8
  <2> HIDE DEF k
  <2>10. f[l] = More(q, 48 + r)
    BY <2>7, <2>8, <2>9
  <2>11. More(q, 48 + r) = 10 * q + r
    <3>1. 48 + r \in Nat /\ Fits(10 * q + r)
      BY <1>6, <2>1
    <3>2. QED
      BY <2>1, <3>1, MoreFacts
  <2>12. QED
    BY <2>1, <2>5, <2>10, <2>11
<1>9. QED
  BY <1>7, <1>8

(* Where the digits at the front of a text end.                             *)
LEMMA FirstNonDigitFacts ==
  ASSUME NEW s \in Seq(Octets), NEW m \in Nat, 0 < m, m <= Len(s), s[m] \notin Digits
  PROVE  /\ FirstNonDigit(s) \in Nat /\ 0 < FirstNonDigit(s) /\ FirstNonDigit(s) <= m
         /\ s[FirstNonDigit(s)] \notin Digits
         /\ (\A i \in Nat : 0 < i /\ i < m => s[i] \in Digits) => FirstNonDigit(s) = m
<1> DEFINE A == {i \in DOMAIN s : s[i] \notin Digits}
<1>1. DOMAIN s = 1 .. Len(s) /\ Len(s) \in Nat
  OBVIOUS
<1>2. A \in SUBSET Nat /\ m \in A
  BY <1>1
<1>3. \A i \in A : i \in Nat /\ 0 < i /\ s[i] \notin Digits
  BY <1>1
<1> HIDE DEF A
<1>4. Min(A) \in A /\ \A y \in A : Min(A) <= y
  BY <1>2, LeastIs
<1>5. FirstNonDigit(s) = Min(A)
  BY DEF FirstNonDigit, A
<1> DEFINE c == Min(A)
<1>6. c \in Nat /\ 0 < c /\ c <= m /\ s[c] \notin Digits
  BY <1>2, <1>3, <1>4
<1> HIDE DEF c
<1>7. (\A i \in Nat : 0 < i /\ i < m => s[i] \in Digits) => c = m
  <2>1. ~ (c < m) => c = m
    BY <1>6
  <2>2. QED
    BY <1>6, <2>1
<1>8. QED
  BY <1>5, <1>6, <1>7 DEF c

(* A number is a number, whatever the bytes.                                *)
LEMMA NumberType ==
  ASSUME NEW s \in Seq(Octets), FirstNonDigit(s) \in Nat, 0 < FirstNonDigit(s),
         FirstNonDigit(s) <= Len(s)
  PROVE  Number(s) \in Nat
<1> DEFINE n == Len(s)
           k == FirstNonDigit(s) - 1
<1>0. n \in Nat
  OBVIOUS
<1>1. PICK f : ValueUpto(f, s, n) /\ Number(s) = f[k]
  BY <1>0, NumberIs
<1>2. k \in Nat /\ k <= n
  BY <1>0
<1>3. \A i \in 1 .. n : s[i] \in Nat
  BY OctetIs
<1> HIDE DEF n, k
<1> DEFINE T == {i \in Nat : i <= n /\ f[i] \notin Nat}
<1>4. ASSUME T # {} PROVE FALSE
  <2>1. PICK t \in T : \A u \in T : t <= u
    <3>1. T \in SUBSET Nat
      OBVIOUS
    <3> HIDE DEF T
    <3>2. QED
      BY <1>4, <3>1, LeastExists
  <2>2. t \in Nat /\ t <= n /\ f[t] \notin Nat /\ t \in 0 .. n
    BY <1>0
  <2>3. t # 0 /\ f[t] = More(f[t - 1], s[t])
    BY <1>1, <2>2 DEF ValueUpto
  <2>4. t - 1 \in Nat /\ t - 1 <= n /\ t - 1 < t /\ t \in 1 .. n
    BY <1>0, <2>2, <2>3
  <2>5. f[t - 1] \in Nat
    <3> DEFINE u == t - 1
    <3>1. u \in Nat /\ u <= n /\ ~ (t <= u)
      BY <2>2, <2>4
    <3> HIDE DEF u
    <3>2. u \notin T
      BY <2>1, <3>1
    <3>3. QED
      BY <3>1, <3>2 DEF u
  <2> DEFINE v == f[t - 1]
             d == s[t]
  <2>6. d \in Nat
    BY <1>3, <2>4
  <2> HIDE DEF v, d
  <2>7. v \in Nat /\ f[t] = More(v, d)
    BY <2>3, <2>5 DEF v, d
  <2>8. QED
    BY <2>2, <2>6, <2>7, MoreFacts
<1>5. QED
  BY <1>1, <1>2, <1>4

(* A header that ends in a colon has a link and a length.                   *)
LEMMA HeaderType ==
  ASSUME NEW s \in Seq(Octets), Len(s) # 0, s[Len(s)] = Colon
  PROVE  parse_ipd_header(s).link \in Nat /\ parse_ipd_header(s).len \in Nat
<1> DEFINE c == FirstNonDigit(s)
           rest == SubSeq(s, c + 1, Len(s))
           Numeral(t) == t \in Seq(Octets) /\ Len(t) # 0 /\ t[Len(t)] = Colon
<1>0. Colon \notin Digits /\ Colon # Comma
  BY SMT DEF Colon, Digits, Comma
<1>1. ASSUME NEW t, Numeral(t)
      PROVE  /\ FirstNonDigit(t) \in Nat /\ 0 < FirstNonDigit(t) /\ FirstNonDigit(t) <= Len(t)
             /\ Number(t) \in Nat
  <2>1. t \in Seq(Octets) /\ t[Len(t)] \notin Digits
    BY <1>0, <1>1
  <2>2. Len(t) \in Nat /\ 0 < Len(t) /\ Len(t) <= Len(t)
    BY <1>1
  <2>3. FirstNonDigit(t) \in Nat /\ 0 < FirstNonDigit(t) /\ FirstNonDigit(t) <= Len(t)
    BY <2>1, <2>2, FirstNonDigitFacts
  <2>4. QED
    BY <2>1, <2>3, NumberType
<1>2. c \in Nat /\ 0 < c /\ c <= Len(s) /\ Number(s) \in Nat
  BY <1>1
<1>3. ASSUME s[c] = Comma PROVE Number(rest) \in Nat
  <2>1. c # Len(s)
    BY <1>0, <1>3
  <2>2. c \in 0 .. Len(s) /\ Len(s) \in Nat /\ c < Len(s)
    BY <1>2, <2>1
  <2> HIDE DEF c
  <2>3. /\ rest \in Seq(Octets) /\ Len(rest) = Len(s) - c
        /\ \A i \in 1 .. Len(s) - c : rest[i] = s[i + c]
    BY <2>2, DropFacts
  <2>4. Len(rest) \in 1 .. Len(s) - c /\ Len(rest) + c = Len(s) /\ Len(rest) # 0
    BY <1>2, <2>2, <2>3
  <2> HIDE DEF rest
  <2>5. rest[Len(rest)] = Colon
    BY <2>3, <2>4
  <2>6. Numeral(rest)
    BY <2>3, <2>4, <2>5
  <2>7. QED
    BY <1>1, <2>6
<1>4. \A v \in Nat : v % 256 \in Nat
  BY SMT
<1> DEFINE length == IF s[c] = Comma THEN rest ELSE s
           says == [link |-> IF s[c] = Comma THEN Number(s) % 256 ELSE 0,
                    len |-> IF length[FirstNonDigit(length)] = Colon THEN Number(length) ELSE 0]
<1>5. parse_ipd_header(s) = says
  BY DEF parse_ipd_header
<1>6. Number(length) \in Nat
  BY <1>2, <1>3
<1>7. says.link \in Nat /\ says.len \in Nat
  BY <1>2, <1>4, <1>6
<1>8. QED
  BY <1>5, <1>7

(* The header that the module writes is read back.                          *)
LEMMA HeaderRead ==
  ASSUME NEW n \in Nat, Fits(n), NEW s \in Seq(Octets), Len(s) = Len(Decimal[n]) + 1,
         \A i \in 1 .. Len(Decimal[n]) : s[i] = Decimal[n][i],
         s[Len(Decimal[n]) + 1] = Colon
  PROVE  parse_ipd_header(s) = [link |-> 0, len |-> n]
<1> DEFINE d == Decimal[n]
           D == Len(d)
           c == FirstNonDigit(s)
<1>1. d \in Seq(Digits) /\ D \in Nat
  BY DecimalType
<1>2. \A i \in 1 .. D : s[i] \in Digits /\ s[i] = d[i]
  BY <1>1
<1>3. Colon \notin Digits /\ Colon # Comma
  BY SMT DEF Colon, Digits, Comma
<1> HIDE DEF d, D
<1>4. Len(s) = D + 1 /\ s[D + 1] = Colon
  BY DEF D, d
<1>5. c = D + 1
  <2> DEFINE m == D + 1
  <2>1. m \in Nat /\ 0 < m /\ m <= Len(s) /\ s[m] \notin Digits
    BY <1>1, <1>3, <1>4
  <2>2. \A i \in Nat : 0 < i /\ i < m => s[i] \in Digits
    <3>1. \A i \in Nat : 0 < i /\ i < m => i \in 1 .. D
      BY <1>1
    <3>2. QED
      BY <1>2, <3>1
  <2> HIDE DEF m
  <2>3. c = m
    BY <2>1, <2>2, FirstNonDigitFacts
  <2>4. QED
    BY <2>3 DEF m
<1>6. Number(s) = n
  <2>1. PICK f : ValueUpto(f, s, D + 1) /\ Number(s) = f[c - 1]
    <3>1. Len(s) \in Nat
      OBVIOUS
    <3>2. QED
      BY <1>4, <3>1, NumberIs
  <2>2. c - 1 = D /\ D + 1 \in Nat /\ D <= D + 1
    BY <1>1, <1>5
  <2>3. f[D] = n
    <3> DEFINE N == D + 1
    <3>1. N \in Nat /\ ValueUpto(f, s, N) /\ Len(Decimal[n]) <= N
      BY <2>1, <2>2 DEF D, d
    <3>2. \A i \in 1 .. Len(Decimal[n]) : s[i] = Decimal[n][i]
      OBVIOUS
    <3> HIDE DEF N
    <3>3. f[Len(Decimal[n])] = n
      BY <3>1, <3>2, DecimalRead
    <3>4. QED
      BY <3>3 DEF D, d
  <2>4. QED
    BY <2>1, <2>2, <2>3
<1>7. s[c] = Colon
  BY <1>4, <1>5
<1> HIDE DEF c
<1>8. QED
  BY <1>3, <1>6, <1>7 DEF parse_ipd_header, c

-----------------------------------------------------------------------------
(* What a frame is on its way: the mark, the length in digits, a colon and  *)
(* the bytes.                                                              *)
HeaderSize(bytes) == Len(IpdText) + (Len(Decimal[Len(bytes)]) + 1)

Framed(t, bytes, d) ==
  /\ t \in Seq(Octets) /\ d \in Seq(Digits) /\ Len(d) \in Nat /\ 0 < Len(d) /\ Len(bytes) \in Nat
  /\ Len(IpdText) \in Nat /\ 0 < Len(IpdText)
  /\ Len(t) = (Len(IpdText) + (Len(d) + 1)) + Len(bytes)
  /\ \A k \in Nat : 0 < k /\ k <= Len(IpdText) => t[k] = IpdText[k]
  /\ \A k \in Nat : 0 < k /\ k <= Len(d) => t[Len(IpdText) + k] = d[k]
  /\ t[Len(IpdText) + (Len(d) + 1)] = Colon
  /\ \A k \in Nat : 0 < k /\ k <= Len(bytes) => t[(Len(IpdText) + (Len(d) + 1)) + k] = bytes[k]

(* What TextAssumption says of the mark.                                   *)
LEMMA MarkFacts ==
  /\ IpdText \in Seq(Octets) /\ Len(IpdText) \in Nat /\ 0 < Len(IpdText)
  /\ DOMAIN IpdText = 1 .. Len(IpdText)
  /\ Len(IpdText) + 6 <= 63
  /\ IpdText[1] \notin Digits /\ IpdText[1] # NewLine /\ IpdText[1] # Prompt /\ IpdText[1] # Colon
  /\ \A k \in Nat : 0 < k /\ k <= Len(IpdText) =>
       IpdText[k] # Colon /\ (IpdText[k] = IpdText[1] => k = 1)
<1>1. /\ IpdText \in Seq(Octets) /\ IpdText # << >> /\ Len(IpdText) + 6 <= 63
      /\ IpdText[1] \notin Digits \cup {NewLine, Prompt, Colon}
      /\ \A k \in DOMAIN IpdText : IpdText[k] # Colon /\ (IpdText[k] = IpdText[1] => k = 1)
  BY TextAssumption DEF MarkIsApart
<1>2. DOMAIN IpdText = 1 .. Len(IpdText) /\ Len(IpdText) \in Nat
  BY <1>1
<1>3. 0 < Len(IpdText)
  BY <1>1, <1>2, EmptySeq
<1>4. \A k \in Nat : 0 < k /\ k <= Len(IpdText) => k \in DOMAIN IpdText
  BY <1>2
<1>5. QED
  BY <1>1, <1>2, <1>3, <1>4

(* What TextAssumption says of the answers.                                 *)
LEMMA AnswerFacts ==
  ASSUME NEW t \in {OkText, RecvText, SendOkText, ClosedText}
  PROVE  /\ t \in Seq(Octets) /\ Len(t) \in Nat /\ 0 < Len(t)
         /\ \A i \in Nat : 0 < i /\ i <= Len(t) => t[i] # IpdText[1]
         /\ \A k \in DOMAIN IpdText : IpdText[k] # t[1]
<1>1. /\ t \in Seq(Octets) /\ t # << >>
      /\ \A i \in DOMAIN t : t[i] # IpdText[1]
      /\ \A k \in DOMAIN IpdText : IpdText[k] # t[1]
  BY TextAssumption DEF MarkIsApart
<1>2. DOMAIN t = 1 .. Len(t) /\ Len(t) \in Nat
  BY <1>1
<1>3. 0 < Len(t)
  BY <1>1, <1>2, EmptySeq
<1>4. \A k \in Nat : 0 < k /\ k <= Len(t) => k \in DOMAIN t
  BY <1>2
<1>5. QED
  BY <1>1, <1>2, <1>3, <1>4

(* Digits, a colon and the ends of lines are bytes.                         *)
LEMMA SpecialBytes ==
  /\ \A d \in Digits : d \in Octets
  /\ Colon \in Octets /\ NewLine \in Octets /\ Prompt \in Octets
  BY SMT DEF Digits, Octets, Colon, NewLine, Prompt

(* The text of a frame has its parts where Framed says.                     *)
LEMMA FrameTextFacts ==
  ASSUME NEW bytes \in Seq(Octets)
  PROVE  Framed(FrameText(bytes), bytes, Decimal[Len(bytes)])
<1> DEFINE d == Decimal[Len(bytes)]
           e == Append(d, Colon)
           h == IpdText \o e
           t == h \o bytes
<1>1. Len(bytes) \in Nat
  OBVIOUS
<1>2. d \in Seq(Digits) /\ d # << >>
  BY <1>1, DecimalType
<1> HIDE DEF d
<1>3. Len(d) \in Nat /\ 0 < Len(d)
  BY <1>2, EmptySeq
<1>4. d \in Seq(Octets)
  <2>1. \A x \in Digits : x \in Octets
    BY SpecialBytes
  <2>2. \A s \in Seq(Digits) : s \in Seq(Octets)
    BY <2>1
  <2>3. QED
    BY <1>2, <2>2
<1>5. /\ e \in Seq(Octets) /\ Len(e) = Len(d) + 1 /\ e[Len(d) + 1] = Colon
      /\ \A i \in 1 .. Len(d) : e[i] = d[i]
  BY <1>4, SpecialBytes, AppendFacts
<1> HIDE DEF e
<1>6. IpdText \in Seq(Octets) /\ Len(IpdText) \in Nat /\ 0 < Len(IpdText)
  BY MarkFacts
<1>7. IpdText \in Seq(Octets) /\ e \in Seq(Octets)
  BY <1>5, <1>6
<1>8. /\ h \in Seq(Octets) /\ Len(h) = Len(IpdText) + Len(e)
      /\ \A i \in Nat : 0 < i /\ i <= Len(IpdText) => h[i] = IpdText[i]
      /\ \A i \in Nat : 0 < i /\ i <= Len(e) => h[Len(IpdText) + i] = e[i]
  BY <1>7, ConcatFacts
<1> HIDE DEF h
<1>9. h \in Seq(Octets) /\ bytes \in Seq(Octets)
  BY <1>8
<1>10. /\ t \in Seq(Octets) /\ Len(t) = Len(h) + Len(bytes)
       /\ \A i \in Nat : 0 < i /\ i <= Len(h) => t[i] = h[i]
       /\ \A i \in Nat : 0 < i /\ i <= Len(bytes) => t[Len(h) + i] = bytes[i]
  BY <1>9, ConcatFacts
<1> HIDE DEF t
<1>11. Len(h) = Len(IpdText) + (Len(d) + 1) /\ Len(h) \in Nat
  BY <1>3, <1>5, <1>6, <1>8
<1>12. ASSUME NEW k \in Nat, 0 < k, k <= Len(IpdText) PROVE t[k] = IpdText[k]
  <2>1. k <= Len(h)
    BY <1>3, <1>6, <1>11, <1>12
  <2>2. QED
    BY <1>8, <1>10, <1>12, <2>1
<1>13. ASSUME NEW k \in Nat, 0 < k, k <= Len(e) PROVE t[Len(IpdText) + k] = e[k]
  <2> DEFINE m == Len(IpdText) + k
  <2>1. m \in Nat /\ 0 < m /\ m <= Len(h)
    BY <1>3, <1>5, <1>6, <1>11, <1>13
  <2>2. h[m] = e[k]
    BY <1>8, <1>13
  <2> HIDE DEF m
  <2>3. t[m] = h[m]
    BY <1>10, <2>1
  <2>4. QED
    BY <2>2, <2>3 DEF m
<1>14. ASSUME NEW k \in Nat, 0 < k, k <= Len(d) PROVE t[Len(IpdText) + k] = d[k]
  <2>1. k <= Len(e) /\ k \in 1 .. Len(d)
    BY <1>3, <1>5, <1>14
  <2>2. QED
    BY <1>5, <1>13, <1>14, <2>1
<1>15. t[Len(IpdText) + (Len(d) + 1)] = Colon
  <2> DEFINE m == Len(d) + 1
  <2>1. m \in Nat /\ 0 < m /\ m <= Len(e) /\ e[m] = Colon
    BY <1>3, <1>5
  <2> HIDE DEF m
  <2>2. t[Len(IpdText) + m] = Colon
    BY <1>13, <2>1
  <2>3. QED
    BY <2>2 DEF m
<1>16. FrameText(bytes) = t
  BY DEF FrameText, HeaderText, t, h, e, d
<1>17. Framed(t, bytes, d)
  BY <1>1, <1>2, <1>3, <1>6, <1>10, <1>11, <1>12, <1>14, <1>15 DEF Framed
<1>18. QED
  BY <1>16, <1>17 DEF d

(* The mark is at the front of the text of a frame, and where else it is,    *)
(* the bytes of the frame spell it.                                        *)
LEMMA MarkInText ==
  ASSUME NEW bytes \in Seq(Octets), NEW a \in Nat, 0 < a,
         a + Len(IpdText) <= Len(FrameText(bytes)) + 1,
         \A k \in Nat : 0 < k /\ k <= Len(IpdText) => FrameText(bytes)[a + k - 1] = IpdText[k]
  PROVE  a = 1 \/ (HeaderSize(bytes) < a /\ SpellsMark(bytes))
<1> DEFINE t == FrameText(bytes)
           d == Decimal[Len(bytes)]
           L == Len(IpdText)
           H == L + (Len(d) + 1)
<1>1. Framed(t, bytes, d)
  BY FrameTextFacts
<1> HIDE DEF t, d
<1>2. /\ L \in Nat /\ 0 < L /\ Len(d) \in Nat /\ d \in Seq(Digits) /\ Len(bytes) \in Nat
      /\ Len(t) = H + Len(bytes) /\ H \in Nat
  BY <1>1 DEF Framed
<1>3. a + L <= Len(t) + 1
  BY DEF t
<1>4. \A k \in Nat : 0 < k /\ k <= L => t[a + k - 1] = IpdText[k]
  BY DEF t
<1>5. t[a] = IpdText[1]
  <2>1. 1 \in Nat /\ 0 < 1 /\ 1 <= L /\ a + 1 - 1 = a
    BY <1>2
  <2>2. t[a + 1 - 1] = IpdText[1]
    BY <1>4, <2>1
  <2>3. QED
    BY <2>1, <2>2
<1>6. CASE a <= L
  <2>1. t[a] = IpdText[a]
    BY <1>1, <1>6 DEF Framed
  <2>2. QED
    BY <1>5, <1>6, <2>1, MarkFacts
<1>7. CASE L < a /\ a <= L + Len(d)
  <2>1. PICK k \in Nat : 0 < k /\ k <= Len(d) /\ a = L + k
    <3>1. a - L \in Nat /\ 0 < a - L /\ a - L <= Len(d) /\ a = L + (a - L)
      BY <1>2, <1>7
    <3>2. QED
      BY <3>1
  <2>2. t[a] = d[k]
    BY <1>1, <2>1 DEF Framed
  <2>3. d[k] \in Digits
    BY <1>2, <2>1
  <2>4. QED
    BY <1>5, <2>2, <2>3, MarkFacts
<1>8. CASE a = H
  <2>1. t[a] = Colon
    BY <1>1, <1>8 DEF Framed
  <2>2. QED
    BY <1>5, <2>1, MarkFacts
<1>9. CASE H < a
  <2>1. PICK i \in Nat : 0 < i /\ a = H + i
    <3>1. a - H \in Nat /\ 0 < a - H /\ a = H + (a - H)
      BY <1>2, <1>9
    <3>2. QED
      BY <3>1
  <2>2. i + L - 1 <= Len(bytes) /\ i \in DOMAIN bytes
    <3>1. i + L <= Len(bytes) + 1 /\ i <= Len(bytes)
      BY <1>2, <1>3, <2>1
    <3>2. i + L - 1 <= Len(bytes)
      BY <1>2, <3>1
    <3>3. i \in 1 .. Len(bytes)
      BY <1>2, <2>1, <3>1
    <3>4. DOMAIN bytes = 1 .. Len(bytes)
      OBVIOUS
    <3>5. QED
      BY <3>2, <3>3, <3>4
  <2>3. ASSUME NEW k \in DOMAIN IpdText PROVE bytes[i + k - 1] = IpdText[k]
    <3>1. k \in Nat /\ 0 < k /\ k <= L
      BY MarkFacts
    <3>2. PICK m \in Nat : m = i + k - 1
      <4>1. i + k - 1 \in Nat
        BY <2>1, <3>1
      <4>2. QED
        BY <4>1
    <3>3. 0 < m /\ m <= Len(bytes) /\ a + k - 1 = H + m
      <4>1. /\ H \in Nat /\ L \in Nat /\ Len(bytes) \in Nat /\ k \in Nat /\ 0 < k /\ k <= L
            /\ i + L - 1 <= Len(bytes) /\ i \in Nat /\ 0 < i /\ a = H + i /\ m = i + k - 1
        BY <1>2, <2>1, <2>2, <3>1, <3>2
      <4> HIDE DEF H, L
      <4>2. QED
        <5>1. 0 < m
          BY <4>1
        <5>2. m <= i + L - 1
          BY <4>1
        <5>3. i + L - 1 \in Int
          BY <4>1
        <5>4. m <= Len(bytes)
          BY <4>1, <5>2, <5>3
        <5>5. a + k - 1 = H + m
          BY <4>1
        <5>6. QED
          BY <5>1, <5>4, <5>5
    <3>4. t[H + m] = bytes[m]
      BY <1>1, <3>3 DEF Framed
    <3>5. QED
      BY <1>4, <3>1, <3>2, <3>3, <3>4
  <2>4. SpellsMark(bytes)
    BY <2>2, <2>3 DEF SpellsMark
  <2>5. QED
    BY <1>9, <2>4 DEF HeaderSize, d
<1>10. a <= L \/ (L < a /\ a <= L + Len(d)) \/ a = H \/ H < a
  <2>1. L \in Nat /\ Len(d) \in Nat /\ H = L + (Len(d) + 1)
    BY <1>2
  <2> DEFINE D == Len(d)
  <2> HIDE DEF L, D, H
  <2>2. QED
    BY <2>1 DEF D
<1>11. QED
  BY <1>6, <1>7, <1>8, <1>9, <1>10

-----------------------------------------------------------------------------
(* The stream: what is in the ring and what is on its way into it.  A byte   *)
(* of a frame is the one of its text that it says; a byte of an answer is   *)
(* not the first of a mark, and the first of an answer none of it.  The    *)
(* bytes of a text come one after the other; what is cut off a text is its *)
(* front.                                                                  *)
At(S, i) == i \in Nat /\ 0 < i /\ i <= Len(S)
IsHeader(s) == s.of > 0 /\ s.at = 1
HeaderAt(S, i) == At(S, i) /\ IsHeader(S[i])

InFrame(s, text) == 0 < s.at /\ s.at <= Len(text) /\ s.value = text[s.at]
Foreign(s) ==
  /\ s.value # IpdText[1]
  /\ s.at = 1 => \A k \in DOMAIN IpdText : s.value # IpdText[k]

Proper(s, b) ==
  /\ s \in Symbol /\ s.of <= Len(b)
  /\ s.of > 0 => InFrame(s, FrameText(b[s.of].bytes))
  /\ ~ (s.of > 0) => Foreign(s)

Follows(s, t) == t.at = 1 \/ (t.of = s.of /\ t.at = s.at + 1)

(* The frame n, of that size, is at i, whole.                               *)
Block(S, size, n, i) ==
  /\ i + size <= Len(S) + 1
  /\ \A k \in Nat : k < size => S[i + k].of = n /\ S[i + k].at = k + 1

Size(b, n) == Len(FrameText(b[n].bytes))

(* Where a header is, its frame is whole; frames come in their order.       *)
StreamOK(S, b) ==
  /\ \A i : At(S, i) => Proper(S[i], b)
  /\ \A i : At(S, i) /\ At(S, i + 1) => Follows(S[i], S[i + 1])
  /\ \A i : HeaderAt(S, i) => Block(S, Size(b, S[i].of), S[i].of, i)
  /\ \A i, j : HeaderAt(S, i) /\ HeaderAt(S, j) /\ i < j => S[i].of < S[j].of

(* T is S without its first k symbols.                                      *)
Dropped(T, S, k) ==
  /\ k \in Nat /\ Len(S) \in Nat /\ Len(T) \in Nat /\ Len(S) = Len(T) + k
  /\ \A i : At(T, i) => At(S, i + k) /\ T[i] = S[i + k]

(* The size of a frame sent.                                                *)
LEMMA SizeFacts ==
  ASSUME NEW b \in Seq(SentFrame), NEW n \in DOMAIN b
  PROVE  Size(b, n) \in Nat /\ 0 < Size(b, n) /\ Len(IpdText) < Size(b, n)
<1> DEFINE bytes == b[n].bytes
           t == FrameText(bytes)
           d == Decimal[Len(bytes)]
<1>1. bytes \in Seq(Octets)
  BY FrameTypes
<1> HIDE DEF bytes
<1>2. Framed(t, bytes, d)
  BY <1>1, FrameTextFacts
<1> HIDE DEF t, d
<1>3. Len(t) \in Nat /\ 0 < Len(t) /\ Len(IpdText) < Len(t)
  BY <1>2 DEF Framed
<1>4. QED
  BY <1>3 DEF Size, t, bytes

(* What a byte of the stream is of.                                         *)
LEMMA ProperFacts ==
  ASSUME NEW b \in Seq(SentFrame), NEW s, Proper(s, b)
  PROVE  /\ s.value \in Octets /\ s.of \in Int /\ s.at \in Nat
         /\ s.of > 0 => s.of \in DOMAIN b /\ s.of \in Nat
<1>1. s.value \in Octets /\ s.of \in Int /\ s.at \in Nat /\ s.of <= Len(b)
  <2> DEFINE O == Octets
  <2> HIDE DEF O
  <2>1. s \in [value : O, of : Int, at : Nat]
    BY DEF Proper, Symbol, O
  <2>2. QED
    BY <2>1 DEF Proper, O
<1>2. DOMAIN b = 1 .. Len(b) /\ Len(b) \in Nat
  OBVIOUS
<1>3. QED
  BY <1>1, <1>2

(* A reader takes symbols from the front of the stream.                     *)
LEMMA StreamDropped ==
  ASSUME NEW S, NEW T, NEW k, NEW b \in Seq(SentFrame), StreamOK(S, b), Dropped(T, S, k)
  PROVE  StreamOK(T, b)
<1>1. ASSUME NEW i, At(T, i) PROVE At(S, i + k) /\ T[i] = S[i + k] /\ i \in Nat /\ k \in Nat
  BY <1>1 DEF Dropped, At
<1>2. ASSUME NEW i, HeaderAt(T, i) PROVE Block(T, Size(b, T[i].of), T[i].of, i)
  <2>1. At(T, i) /\ HeaderAt(S, i + k) /\ T[i] = S[i + k] /\ i \in Nat /\ k \in Nat
    BY <1>1, <1>2 DEF HeaderAt
  <2> DEFINE n == T[i].of
             size == Size(b, n)
             h == i + k
  <2>2. Block(S, size, n, h)
    BY <2>1 DEF StreamOK
  <2>3. size \in Nat /\ h \in Nat
    <3>1. n > 0 /\ Proper(S[i + k], b)
      BY <2>1 DEF HeaderAt, IsHeader, StreamOK
    <3>2. n \in DOMAIN b
      BY <2>1, <3>1, ProperFacts
    <3>3. QED
      BY <2>1, <3>2, SizeFacts
  <2> HIDE DEF n, size
  <2>4. h + size <= Len(S) + 1 /\ \A j \in Nat : j < size => S[h + j].of = n /\ S[h + j].at = j + 1
    BY <2>2 DEF Block
  <2>5. Len(S) = Len(T) + k /\ Len(T) \in Nat
    BY DEF Dropped
  <2>6. i + size <= Len(T) + 1
    BY <2>1, <2>3, <2>4, <2>5
  <2>7. ASSUME NEW j \in Nat, j < size PROVE T[i + j].of = n /\ T[i + j].at = j + 1
    <3>0. 0 < i
      BY <2>1 DEF At
    <3>1. At(T, i + j) /\ (i + j) + k = h + j
      BY <2>1, <2>3, <2>5, <2>6, <2>7, <3>0 DEF At
    <3>2. T[i + j] = S[h + j]
      BY <1>1, <3>1
    <3> HIDE DEF h
    <3>3. QED
      BY <2>4, <2>7, <3>2
  <2>8. Block(T, size, n, i)
    BY <2>6, <2>7 DEF Block
  <2>9. QED
    BY <2>8 DEF n, size
<1>3. ASSUME NEW i, NEW j, HeaderAt(T, i), HeaderAt(T, j), i < j PROVE T[i].of < T[j].of
  <2>1. /\ HeaderAt(S, i + k) /\ T[i] = S[i + k] /\ HeaderAt(S, j + k) /\ T[j] = S[j + k]
        /\ i \in Nat /\ j \in Nat /\ k \in Nat
    BY <1>1, <1>3 DEF HeaderAt
  <2>2. i + k < j + k
    BY <1>3, <2>1
  <2>3. QED
    BY <2>1, <2>2 DEF StreamOK
<1>4. \A i : At(T, i) => Proper(T[i], b)
  BY <1>1 DEF StreamOK
<1>5. ASSUME NEW i, At(T, i), At(T, i + 1) PROVE Follows(T[i], T[i + 1])
  <2>1. /\ At(S, i + k) /\ T[i] = S[i + k] /\ i \in Nat /\ k \in Nat
        /\ At(S, (i + 1) + k) /\ T[i + 1] = S[(i + 1) + k]
    BY <1>1, <1>5
  <2>2. (i + 1) + k = (i + k) + 1
    BY <2>1
  <2>3. QED
    BY <2>1, <2>2 DEF StreamOK
<1>6. QED
  BY <1>2, <1>3, <1>4, <1>5 DEF StreamOK

(* T is S with more symbols behind it.                                      *)
Extended(T, S) ==
  /\ Len(S) \in Nat /\ Len(T) \in Nat /\ Len(S) <= Len(T)
  /\ \A i : At(S, i) => At(T, i) /\ T[i] = S[i]

NewAt(T, S, j) == At(T, j) /\ Len(S) < j

Older2(b, c) == Len(b) <= Len(c) /\ \A n \in DOMAIN b : n \in DOMAIN c /\ c[n] = b[n]

(* A frame stays whole when symbols come behind it.                         *)
LEMMA BlockExtended ==
  ASSUME NEW T, NEW S, Extended(T, S), NEW size \in Nat, NEW n, NEW i, At(S, i),
         Block(S, size, n, i)
  PROVE  Block(T, size, n, i)
<1>1. i \in Nat /\ 0 < i /\ Len(S) \in Nat /\ Len(T) \in Nat /\ Len(S) <= Len(T)
  BY DEF Extended, At
<1>2. i + size <= Len(S) + 1 /\ \A k \in Nat : k < size => S[i + k].of = n /\ S[i + k].at = k + 1
  BY DEF Block
<1>3. i + size <= Len(T) + 1
  BY <1>1, <1>2
<1>4. ASSUME NEW k \in Nat, k < size PROVE T[i + k].of = n /\ T[i + k].at = k + 1
  <2>1. At(S, i + k)
    BY <1>1, <1>2, <1>4 DEF At
  <2>2. T[i + k] = S[i + k]
    BY <2>1 DEF Extended
  <2>3. QED
    BY <1>2, <1>4, <2>2
<1>5. QED
  BY <1>3, <1>4 DEF Block

(* More frames sent change nothing of what a byte of the stream is of.      *)
LEMMA ProperLater ==
  ASSUME NEW b \in Seq(SentFrame), NEW c \in Seq(SentFrame), Older2(b, c), NEW s, Proper(s, b)
  PROVE  Proper(s, c) /\ (s.of > 0 => Size(c, s.of) = Size(b, s.of))
<1>1. s.of \in Int /\ s.of <= Len(b) /\ (s.of > 0 => s.of \in DOMAIN b)
  BY ProperFacts DEF Proper
<1>2. s.of > 0 => c[s.of] = b[s.of]
  BY <1>1 DEF Older2
<1>3. s.of <= Len(c)
  <2>1. Len(b) \in Nat /\ Len(c) \in Nat /\ Len(b) <= Len(c)
    BY DEF Older2
  <2>2. QED
    BY <1>1, <2>1
<1>4. QED
  BY <1>2, <1>3 DEF Proper, Size

(* The module starts an output: what is new starts with the first byte of a  *)
(* text and is of no frame sent before, and a new header is the only one   *)
(* and comes with its frame.                                               *)
LEMMA StreamExtended ==
  ASSUME NEW S, NEW T, Extended(T, S),
         NEW b \in Seq(SentFrame), NEW c \in Seq(SentFrame), StreamOK(S, b), Older2(b, c),
         \A j : NewAt(T, S, j) => Proper(T[j], c) /\ T[j].of \notin DOMAIN b,
         \A j : NewAt(T, S, j) /\ j = Len(S) + 1 => T[j].at = 1,
         \A j : NewAt(T, S, j) /\ At(T, j + 1) => Follows(T[j], T[j + 1]),
         \A j : NewAt(T, S, j) /\ IsHeader(T[j]) =>
                  /\ Block(T, Size(c, T[j].of), T[j].of, j)
                  /\ \A k : NewAt(T, S, k) /\ IsHeader(T[k]) => k = j
  PROVE  StreamOK(T, c)
<1>1. ASSUME NEW i, At(T, i)
      PROVE  i \in Nat /\ (NewAt(T, S, i) \/ (At(S, i) /\ T[i] = S[i] /\ i <= Len(S)))
  BY <1>1 DEF At, NewAt, Extended
<1>2. DOMAIN b = 1 .. Len(b) /\ DOMAIN c = 1 .. Len(c) /\ Len(b) \in Nat /\ Len(c) \in Nat
  OBVIOUS
<1>3. ASSUME NEW i, At(T, i) PROVE Proper(T[i], c)
  <2>1. CASE NewAt(T, S, i)
    BY <2>1
  <2>2. CASE At(S, i) /\ T[i] = S[i]
    <3>1. Proper(T[i], b)
      BY <2>2 DEF StreamOK
    <3>2. QED
      BY <3>1, ProperLater
  <2>3. QED
    BY <1>1, <1>3, <2>1, <2>2
<1>4. ASSUME NEW i, HeaderAt(T, i)
      PROVE  Block(T, Size(c, T[i].of), T[i].of, i)
  <2>0. At(T, i) /\ IsHeader(T[i])
    BY <1>4 DEF HeaderAt
  <2>1. CASE NewAt(T, S, i)
    BY <2>0, <2>1
  <2>2. CASE At(S, i) /\ T[i] = S[i]
    <3> DEFINE n == T[i].of
               size == Size(b, n)
    <3>1. Proper(T[i], b) /\ Block(S, size, n, i) /\ n > 0
      BY <2>0, <2>2 DEF StreamOK, HeaderAt, IsHeader
    <3>2. n \in DOMAIN b /\ Size(c, n) = size
      BY <3>1, ProperFacts, ProperLater
    <3>3. size \in Nat
      BY <3>2, SizeFacts
    <3> HIDE DEF n, size
    <3>4. Block(T, size, n, i)
      BY <2>2, <3>1, <3>3, BlockExtended
    <3>5. QED
      BY <3>2, <3>4 DEF n
  <2>3. QED
    BY <1>1, <2>0, <2>1, <2>2
<1>5. ASSUME NEW i, NEW j, HeaderAt(T, i), HeaderAt(T, j), i < j PROVE T[i].of < T[j].of
  <2>0. /\ At(T, i) /\ IsHeader(T[i]) /\ At(T, j) /\ IsHeader(T[j])
        /\ i \in Nat /\ j \in Nat
    BY <1>1, <1>5 DEF HeaderAt
  <2>1. CASE NewAt(T, S, i)
    <3>1. Len(S) < i /\ Len(S) \in Nat
      BY <2>1 DEF NewAt, Extended
    <3>2. NewAt(T, S, j)
      BY <1>5, <2>0, <3>1 DEF NewAt
    <3>3. j = i
      BY <2>0, <2>1, <3>2
    <3>4. QED
      BY <1>5, <2>0, <3>3
  <2>2. CASE At(S, i) /\ T[i] = S[i] /\ NewAt(T, S, j)
    <3>1. Proper(T[i], b) /\ T[i].of > 0 /\ Proper(T[j], c) /\ T[j].of > 0
      BY <2>0, <2>2 DEF StreamOK, IsHeader
    <3>2. T[i].of \in DOMAIN b /\ T[j].of \in DOMAIN c /\ T[j].of \notin DOMAIN b
      BY <2>2, <3>1, ProperFacts
    <3>3. QED
      BY <1>2, <3>2
  <2>3. CASE At(S, i) /\ T[i] = S[i] /\ At(S, j) /\ T[j] = S[j]
    BY <1>5, <2>0, <2>3 DEF StreamOK, HeaderAt
  <2>4. QED
    BY <1>1, <2>0, <2>1, <2>2, <2>3
<1>6. ASSUME NEW i, At(T, i), At(T, i + 1) PROVE Follows(T[i], T[i + 1])
  <2>1. CASE NewAt(T, S, i)
    BY <1>6, <2>1
  <2>2. CASE At(S, i) /\ T[i] = S[i] /\ NewAt(T, S, i + 1)
    <3>1. i + 1 = Len(S) + 1
      <4>1. i \in Nat /\ i <= Len(S) /\ Len(S) < i + 1 /\ Len(S) \in Nat
        BY <2>2 DEF At, NewAt, Extended
      <4>2. QED
        BY <4>1
    <3>2. T[i + 1].at = 1
      BY <2>2, <3>1
    <3>3. QED
      BY <3>2 DEF Follows
  <2>3. CASE At(S, i) /\ T[i] = S[i] /\ At(S, i + 1) /\ T[i + 1] = S[i + 1]
    BY <2>3 DEF StreamOK
  <2>4. QED
    BY <1>1, <1>6, <2>1, <2>2, <2>3
<1>7. QED
  BY <1>3, <1>4, <1>5, <1>6 DEF StreamOK

-----------------------------------------------------------------------------
(* Ring and wire.                                                          *)
LEMMA JoinAt ==
  ASSUME NEW r \in Seq(Symbol), NEW t \in Seq(Symbol)
  PROVE  /\ r \o t \in Seq(Symbol) /\ Extended(r \o t, r)
         /\ Len(r) \in Nat /\ Len(t) \in Nat /\ Len(r \o t) = Len(r) + Len(t)
         /\ \A j : NewAt(r \o t, r, j) =>
              \E k \in Nat : 0 < k /\ k <= Len(t) /\ j = Len(r) + k /\ (r \o t)[j] = t[k]
<1> DEFINE T == r \o t
<1>1. /\ T \in Seq(Symbol) /\ Len(r) \in Nat /\ Len(t) \in Nat /\ Len(T) = Len(r) + Len(t)
  BY ConcatFacts
<1>2. \A i \in Nat : 0 < i /\ i <= Len(r) => T[i] = r[i]
  BY ConcatFacts
<1>3. \A i \in Nat : 0 < i /\ i <= Len(t) => T[Len(r) + i] = t[i]
  BY ConcatFacts
<1> HIDE DEF T
<1>4. Extended(T, r)
  BY <1>1, <1>2 DEF Extended, At
<1>5. ASSUME NEW j, NewAt(T, r, j)
      PROVE  \E k \in Nat : 0 < k /\ k <= Len(t) /\ j = Len(r) + k /\ T[j] = t[k]
  <2>1. j \in Nat /\ Len(r) < j /\ j <= Len(r) + Len(t)
    BY <1>1, <1>5 DEF NewAt, At
  <2>2. PICK k \in Nat : k = j - Len(r)
    BY <1>1, <2>1
  <2>3. 0 < k /\ k <= Len(t) /\ j = Len(r) + k
    BY <1>1, <2>1, <2>2
  <2>4. QED
    BY <1>3, <2>3
<1>6. QED
  BY <1>1, <1>4, <1>5 DEF T

(* Dropping symbols from the ring drops them from the stream.               *)
LEMMA DropFromRing ==
  ASSUME NEW r \in Seq(Symbol), NEW t \in Seq(Symbol), NEW k \in 0 .. Len(r)
  PROVE  /\ SubSeq(r, k + 1, Len(r)) \in Seq(Symbol)
         /\ Dropped(SubSeq(r, k + 1, Len(r)) \o t, r \o t, k)
<1> DEFINE d == SubSeq(r, k + 1, Len(r))
           T == d \o t
           S == r \o t
<1>1. d \in Seq(Symbol) /\ Len(d) = Len(r) - k
  BY DropFacts
<1>2. \A i \in 1 .. Len(r) - k : d[i] = r[i + k]
  BY DropFacts
<1> HIDE DEF d
<1>3. Len(r) \in Nat /\ Len(t) \in Nat /\ Len(d) \in Nat /\ Len(T) = Len(d) + Len(t) /\ Len(S) = Len(r) + Len(t)
  BY <1>1, ConcatFacts
<1>4. k \in Nat /\ k <= Len(r)
  BY <1>3
<1>5. \A i \in Nat : 0 < i /\ i <= Len(d) => T[i] = d[i]
  BY <1>1, ConcatFacts
<1>6. \A i \in Nat : 0 < i /\ i <= Len(t) => T[Len(d) + i] = t[i]
  BY <1>1, ConcatFacts
<1>7. \A i \in Nat : 0 < i /\ i <= Len(r) => S[i] = r[i]
  BY ConcatFacts
<1>8. \A i \in Nat : 0 < i /\ i <= Len(t) => S[Len(r) + i] = t[i]
  BY ConcatFacts
<1> HIDE DEF T, S
<1>9. ASSUME NEW i, At(T, i) PROVE At(S, i + k) /\ T[i] = S[i + k]
  <2>1. i \in Nat /\ 0 < i /\ i <= Len(d) + Len(t)
    BY <1>3, <1>9 DEF At
  <2>2. At(S, i + k)
    BY <1>1, <1>3, <1>4, <2>1 DEF At
  <2>3. CASE i <= Len(d)
    <3>1. i \in 1 .. Len(r) - k
      BY <1>1, <1>3, <1>4, <2>1, <2>3
    <3>2. T[i] = r[i + k]
      BY <1>2, <1>5, <2>1, <2>3, <3>1
    <3>3. i + k \in Nat /\ 0 < i + k /\ i + k <= Len(r)
      BY <1>1, <1>3, <1>4, <2>1, <2>3
    <3>4. QED
      BY <1>7, <2>2, <3>2, <3>3
  <2>4. CASE ~ (i <= Len(d))
    <3>1. PICK j \in Nat : j = i - Len(d)
      <4>1. i - Len(d) \in Nat
        BY <1>3, <2>1, <2>4
      <4>2. QED
        BY <4>1
    <3>2. 0 < j /\ j <= Len(t) /\ Len(d) + j = i /\ Len(r) + j = i + k
      BY <1>1, <1>3, <1>4, <2>1, <2>4, <3>1
    <3>3. T[Len(d) + j] = t[j] /\ S[Len(r) + j] = t[j]
      BY <1>6, <1>8, <3>2
    <3>4. QED
      BY <2>2, <3>2, <3>3
  <2>5. QED
    BY <2>3, <2>4
<1>10. Dropped(T, S, k)
  <2>1. Len(S) = Len(T) + k /\ Len(S) \in Nat /\ Len(T) \in Nat
    BY <1>1, <1>3, <1>4
  <2>2. QED
    BY <1>4, <1>9, <2>1 DEF Dropped
<1>11. QED
  BY <1>1, <1>10 DEF d, T, S

(* An interrupt moves a symbol and leaves the stream as it is.              *)
LEMMA InterruptMoves ==
  ASSUME NEW r \in Seq(Symbol), NEW t \in Seq(Symbol), t # << >>
  PROVE  /\ Append(r, Head(t)) \in Seq(Symbol) /\ Tail(t) \in Seq(Symbol)
         /\ Append(r, Head(t)) \o Tail(t) = r \o t
<1> DEFINE h == Head(t)
           u == Tail(t)
<1>1. h \in Symbol /\ u \in Seq(Symbol)
  BY TakeFacts
<1>2. t = <<h>> \o u
  <2>1. <<h>> \in Seq(Symbol) /\ Len(<<h>>) = 1 /\ <<h>>[1] = h
    BY <1>1, OneFacts
  <2> DEFINE v == <<h>> \o u
  <2>2. v \in Seq(Symbol) /\ Len(v) = 1 + Len(u) /\ v[1] = h
    BY <1>1, <2>1, ConcatFacts
  <2>3. ASSUME NEW i \in Nat, 0 < i, i <= Len(u) PROVE v[i + 1] = u[i]
    <3>1. v[Len(<<h>>) + i] = u[i]
      <4>1. <<h>> \in Seq(Symbol)
        BY <2>1
      <4>2. QED
        BY <1>1, <2>3, <4>1, ConcatFacts
    <3>2. Len(<<h>>) + i = i + 1
      BY <2>1
    <3>3. QED
      BY <3>1, <3>2
  <2>4. /\ Len(t) \in Nat /\ Len(u) = Len(t) - 1 /\ h = t[1]
        /\ \A i \in DOMAIN u : u[i] = t[i + 1]
    BY TakeFacts
  <2>5. DOMAIN u = 1 .. Len(u)
    BY <1>1
  <2> HIDE DEF v, h, u
  <2>6. ASSUME NEW i \in 1 .. Len(t) PROVE v[i] = t[i]
    <3>1. CASE i = 1
      BY <2>2, <2>4, <3>1
    <3>2. CASE i # 1
      <4>1. PICK j \in Nat : i = j + 1
        <5>1. i - 1 \in Nat /\ i = i - 1 + 1
          BY <2>4, <3>2
        <5>2. QED
          BY <5>1
      <4>2. 0 < j /\ j <= Len(u) /\ j \in DOMAIN u
        BY <2>4, <2>5, <3>2, <4>1
      <4>3. QED
        BY <2>3, <2>4, <4>1, <4>2
    <3>3. QED
      BY <3>1, <3>2
  <2>7. Len(v) = Len(t)
    BY <2>2, <2>4
  <2>8. v = t
    BY <2>2, <2>6, <2>7, SeqEqual
  <2>9. QED
    BY <2>8 DEF v
<1>3. Append(r, h) = r \o <<h>> /\ <<h>> \in Seq(Symbol) /\ Append(r, h) \in Seq(Symbol)
  BY <1>1, AppendIsConcat, OneFacts, AppendFacts
<1> HIDE DEF h, u
<1>4. (r \o <<h>>) \o u = r \o (<<h>> \o u)
  <2>1. Associates(r, <<h>>, u)
    BY <1>1, <1>3, Associate
  <2>2. QED
    BY <2>1 DEF Associates
<1>5. QED
  BY <1>1, <1>2, <1>3, <1>4 DEF h, u

(* An output of the module, byte by byte.                                   *)
LEMMA SendingFacts ==
  ASSUME NEW text \in Seq(Octets), NEW n \in Int
  PROVE  /\ Sending(text, n) \in Seq(Symbol) /\ Len(text) \in Nat
         /\ Len(Sending(text, n)) = Len(text)
         /\ \A k \in Nat : 0 < k /\ k <= Len(text) =>
              /\ Sending(text, n)[k] \in Symbol /\ Sending(text, n)[k].value = text[k]
              /\ Sending(text, n)[k].of = n /\ Sending(text, n)[k].at = k
<1> DEFINE m == Len(text)
           s == Sending(text, n)
<1>1. m \in Nat /\ DOMAIN text = 1 .. m /\ \A k \in 1 .. m : text[k] \in Octets /\ k \in Nat
  OBVIOUS
<1> HIDE DEF m
<1>2. s = [i \in 1 .. m |-> [value |-> text[i], of |-> n, at |-> i]]
  BY <1>1 DEF Sending
<1>3. ASSUME NEW x \in Octets, NEW k \in Nat PROVE [value |-> x, of |-> n, at |-> k] \in Symbol
  <2> DEFINE O == Octets
  <2>1. x \in O
    OBVIOUS
  <2> HIDE DEF O
  <2>2. [value |-> x, of |-> n, at |-> k] \in [value : O, of : Int, at : Nat]
    BY <2>1
  <2>3. QED
    BY <2>2 DEF O, Symbol
<1>4. s \in [1 .. m -> Symbol]
  BY <1>1, <1>2, <1>3
<1>5. \A k \in 1 .. m : s[k].value = text[k] /\ s[k].of = n /\ s[k].at = k /\ s[k] \in Symbol
  BY <1>2, <1>4
<1> HIDE DEF s
<1>6. s \in Seq(Symbol) /\ Len(s) = m
  BY <1>1, <1>4, FunctionFacts
<1>7. \A k \in Nat : 0 < k /\ k <= m => k \in 1 .. m
  BY <1>1
<1>8. QED
  BY <1>1, <1>5, <1>6, <1>7 DEF s, m

(* Behind what is in the stream, an output is there byte by byte.            *)
LEMMA EmitFacts ==
  ASSUME NEW r \in Seq(Symbol), NEW text \in Seq(Octets), NEW n \in Int
  PROVE  LET T == r \o Sending(text, n) IN
         /\ T \in Seq(Symbol) /\ Extended(T, r)
         /\ Len(r) \in Nat /\ Len(text) \in Nat /\ Len(T) = Len(r) + Len(text)
         /\ \A j : NewAt(T, r, j) =>
              \E k \in Nat : /\ 0 < k /\ k <= Len(text) /\ j = Len(r) + k
                             /\ T[j] \in Symbol /\ T[j].value = text[k]
                             /\ T[j].of = n /\ T[j].at = k
<1> DEFINE t == Sending(text, n)
           T == r \o t
<1>1. /\ t \in Seq(Symbol) /\ Len(text) \in Nat /\ Len(t) = Len(text)
      /\ \A k \in Nat : 0 < k /\ k <= Len(text) =>
              t[k] \in Symbol /\ t[k].value = text[k] /\ t[k].of = n /\ t[k].at = k
  BY SendingFacts
<1> HIDE DEF t
<1>2. /\ T \in Seq(Symbol) /\ Extended(T, r)
      /\ Len(r) \in Nat /\ Len(t) \in Nat /\ Len(T) = Len(r) + Len(t)
      /\ \A j : NewAt(T, r, j) =>
              \E k \in Nat : 0 < k /\ k <= Len(t) /\ j = Len(r) + k /\ T[j] = t[k]
  BY <1>1, JoinAt
<1> HIDE DEF T
<1>3. ASSUME NEW j, NewAt(T, r, j)
      PROVE  \E k \in Nat : /\ 0 < k /\ k <= Len(text) /\ j = Len(r) + k
                            /\ T[j] \in Symbol /\ T[j].value = text[k]
                            /\ T[j].of = n /\ T[j].at = k
  <2>1. PICK k \in Nat : 0 < k /\ k <= Len(t) /\ j = Len(r) + k /\ T[j] = t[k]
    BY <1>2, <1>3
  <2>2. 0 < k /\ k <= Len(text)
    BY <1>1, <2>1
  <2>3. t[k] \in Symbol /\ t[k].value = text[k] /\ t[k].of = n /\ t[k].at = k
    BY <1>1, <2>2
  <2>4. QED
    BY <2>1, <2>2, <2>3
<1>4. QED
  BY <1>1, <1>2, <1>3 DEF T, t

(* The bytes of an output come in their order.                              *)
LEMMA EmitFollows ==
  ASSUME NEW r \in Seq(Symbol), NEW text \in Seq(Octets), NEW n \in Int
  PROVE  LET T == r \o Sending(text, n) IN
         /\ \A j : NewAt(T, r, j) /\ j = Len(r) + 1 => T[j].at = 1
         /\ \A j : NewAt(T, r, j) /\ At(T, j + 1) => Follows(T[j], T[j + 1])
<1> DEFINE T == r \o Sending(text, n)
<1>1. /\ Len(r) \in Nat
      /\ \A j : NewAt(T, r, j) =>
              \E k \in Nat : /\ 0 < k /\ k <= Len(text) /\ j = Len(r) + k
                             /\ T[j].of = n /\ T[j].at = k
  <2>1. /\ Len(r) \in Nat
        /\ \A j : NewAt(T, r, j) =>
              \E k \in Nat : /\ 0 < k /\ k <= Len(text) /\ j = Len(r) + k
                             /\ T[j] \in Symbol /\ T[j].value = text[k]
                             /\ T[j].of = n /\ T[j].at = k
    BY EmitFacts
  <2> HIDE DEF T
  <2>2. QED
    BY <2>1
<1> HIDE DEF T
<1>2. ASSUME NEW j, NewAt(T, r, j), j = Len(r) + 1 PROVE T[j].at = 1
  <2>1. PICK k \in Nat : j = Len(r) + k /\ T[j].at = k
    BY <1>1, <1>2
  <2>2. k = 1
    BY <1>1, <1>2, <2>1
  <2>3. QED
    BY <2>1, <2>2
<1>3. ASSUME NEW j, NewAt(T, r, j), At(T, j + 1) PROVE Follows(T[j], T[j + 1])
  <2>1. PICK k \in Nat : j = Len(r) + k /\ T[j].of = n /\ T[j].at = k
    BY <1>1, <1>3
  <2>2. NewAt(T, r, j + 1)
    BY <1>1, <1>3 DEF NewAt, At
  <2>3. PICK m \in Nat : j + 1 = Len(r) + m /\ T[j + 1].of = n /\ T[j + 1].at = m
    BY <1>1, <2>2
  <2>4. m = k + 1
    BY <1>1, <2>1, <2>3
  <2>5. QED
    BY <2>1, <2>3, <2>4 DEF Follows
<1>4. QED
  BY <1>2, <1>3 DEF T

(* The broker's next frame is sent on.                                     *)
LEMMA FrameEmitted ==
  ASSUME NEW r \in Seq(Symbol), NEW b \in Seq(SentFrame), NEW e \in SentFrame, StreamOK(r, b)
  PROVE  LET c == Append(b, e)
             T == r \o Sending(FrameText(e.bytes), Len(c))
         IN  /\ c \in Seq(SentFrame) /\ T \in Seq(Symbol) /\ StreamOK(T, c)
             /\ Sending(FrameText(e.bytes), Len(c)) \in Seq(Symbol)
             /\ HeaderAt(T, Len(r) + 1) /\ T[Len(r) + 1].of = Len(c)
             /\ Extended(T, r)
             /\ \A j : NewAt(T, r, j) => T[j].of = Len(c) /\ j + 1 = (Len(r) + 1) + T[j].at
<1> DEFINE c == Append(b, e)
           n == Len(c)
           text == FrameText(e.bytes)
           T == r \o Sending(text, n)
<1>1. /\ c \in Seq(SentFrame) /\ n = Len(b) + 1 /\ DOMAIN c = 1 .. Len(b) + 1
      /\ c[Len(b) + 1] = e /\ \A i \in 1 .. Len(b) : c[i] = b[i]
  <2> HIDE DEF n
  <2>1. n = Len(b) + 1
    BY AppendFacts DEF n
  <2>2. QED
    BY <2>1, AppendFacts
<1>2. Len(b) \in Nat /\ DOMAIN b = 1 .. Len(b)
  OBVIOUS
<1> HIDE DEF c, n
<1>3. n \in Nat /\ n \in Int /\ n > 0 /\ n \in DOMAIN c /\ n \notin DOMAIN b /\ c[n] = e /\ n = Len(c)
  BY <1>1, <1>2 DEF n
<1>4. Older2(b, c)
  <2>1. \A i \in DOMAIN b : i \in DOMAIN c /\ c[i] = b[i]
    BY <1>1, <1>2
  <2>2. QED
    BY <1>1, <1>2, <1>3, <2>1 DEF Older2
<1>5. text \in Seq(Octets) /\ Size(c, n) = Len(text) /\ FrameText(c[n].bytes) = text
  <2>1. e.bytes \in Seq(Octets)
    BY <1>1, <1>3, FrameTypes
  <2>2. Framed(text, e.bytes, Decimal[Len(e.bytes)])
    BY <2>1, FrameTextFacts
  <2>3. text \in Seq(Octets)
    BY <2>2 DEF Framed
  <2>4. QED
    BY <1>3, <2>3 DEF Size
<1>6. Len(text) \in Nat /\ 0 < Len(text)
  BY <1>1, <1>3, <1>5, SizeFacts
<1> HIDE DEF text
<1>7. /\ T \in Seq(Symbol) /\ Extended(T, r)
      /\ Len(r) \in Nat /\ Len(T) = Len(r) + Len(text)
      /\ \A j : NewAt(T, r, j) =>
              \E k \in Nat : /\ 0 < k /\ k <= Len(text) /\ j = Len(r) + k
                             /\ T[j] \in Symbol /\ T[j].value = text[k]
                             /\ T[j].of = n /\ T[j].at = k
  BY <1>3, <1>5, EmitFacts
<1>8. /\ \A j : NewAt(T, r, j) /\ j = Len(r) + 1 => T[j].at = 1
      /\ \A j : NewAt(T, r, j) /\ At(T, j + 1) => Follows(T[j], T[j + 1])
  BY <1>3, <1>5, EmitFollows
<1>9. Sending(text, n) \in Seq(Symbol)
  BY <1>3, <1>5, SendingFacts
<1> HIDE DEF T
<1>10. \A j : NewAt(T, r, j) => Proper(T[j], c) /\ T[j].of \notin DOMAIN b
  <2> SUFFICES ASSUME NEW j, NewAt(T, r, j) PROVE Proper(T[j], c) /\ T[j].of \notin DOMAIN b
    OBVIOUS
  <2>1. PICK k \in Nat : /\ 0 < k /\ k <= Len(text) /\ j = Len(r) + k
                         /\ T[j] \in Symbol /\ T[j].value = text[k]
                         /\ T[j].of = n /\ T[j].at = k
    BY <1>7
  <2>2. InFrame(T[j], text) /\ T[j].of > 0 /\ T[j].of <= Len(c)
    BY <1>3, <2>1 DEF InFrame
  <2>3. Proper(T[j], c)
    BY <1>5, <2>1, <2>2 DEF Proper
  <2>4. QED
    BY <1>3, <2>1, <2>3
<1> DEFINE h == Len(r) + 1
<1>11. \A j : NewAt(T, r, j) /\ IsHeader(T[j]) => j = h /\ T[j].of = n
  <2> SUFFICES ASSUME NEW j, NewAt(T, r, j), IsHeader(T[j]) PROVE j = h /\ T[j].of = n
    OBVIOUS
  <2>1. PICK k \in Nat : j = Len(r) + k /\ T[j].of = n /\ T[j].at = k
    BY <1>7
  <2>2. k = 1
    BY <2>1 DEF IsHeader
  <2>3. QED
    BY <2>1, <2>2
<1>12. ASSUME NEW k \in Nat, k < Len(text)
       PROVE  NewAt(T, r, h + k) /\ T[h + k].of = n /\ T[h + k].at = k + 1
  <2>1. NewAt(T, r, h + k)
    BY <1>6, <1>7, <1>12 DEF NewAt, At
  <2>2. PICK m \in Nat : h + k = Len(r) + m /\ T[h + k].of = n /\ T[h + k].at = m
    BY <1>7, <2>1
  <2>3. m = k + 1
    BY <1>7, <2>2
  <2>4. QED
    BY <2>1, <2>2, <2>3
<1>13. Block(T, Len(text), n, h)
  <2>1. h + Len(text) <= Len(T) + 1
    BY <1>6, <1>7
  <2>2. QED
    BY <1>12, <2>1 DEF Block
<1>14. HeaderAt(T, h) /\ T[h].of = n
  <2>1. 0 \in Nat /\ 0 < Len(text) /\ h + 0 = h /\ 0 + 1 = 1
    BY <1>6, <1>7
  <2>2. NewAt(T, r, h) /\ T[h].of = n /\ T[h].at = 1
    BY <1>12, <2>1
  <2>3. QED
    BY <1>3, <2>2 DEF HeaderAt, NewAt, IsHeader
<1>15. StreamOK(T, c)
  <2>1. ASSUME NEW j, NewAt(T, r, j), IsHeader(T[j])
        PROVE  /\ Block(T, Size(c, T[j].of), T[j].of, j)
               /\ \A k : NewAt(T, r, k) /\ IsHeader(T[k]) => k = j
    <3>1. j = h /\ T[j].of = n /\ \A k : NewAt(T, r, k) /\ IsHeader(T[k]) => k = h
      BY <1>11, <2>1
    <3>2. QED
      BY <1>5, <1>13, <3>1
  <2>2. c \in Seq(SentFrame) /\ Extended(T, r)
    BY <1>1, <1>7
  <2> HIDE DEF h
  <2>3. QED
    BY <1>4, <1>8, <1>10, <2>1, <2>2, StreamExtended
<1>16. c \in Seq(SentFrame) /\ T \in Seq(Symbol) /\ Extended(T, r)
  BY <1>1, <1>7
<1>17. \A j : NewAt(T, r, j) => T[j].of = n /\ j + 1 = (Len(r) + 1) + T[j].at
  <2> SUFFICES ASSUME NEW j, NewAt(T, r, j)
               PROVE  T[j].of = n /\ j + 1 = (Len(r) + 1) + T[j].at
    OBVIOUS
  <2>1. PICK k \in Nat : j = Len(r) + k /\ T[j].of = n /\ T[j].at = k
    BY <1>7
  <2>2. j + 1 = (Len(r) + 1) + k
    BY <1>7, <2>1
  <2>3. QED
    BY <2>1, <2>2
<1>18. QED
  BY <1>5, <1>9, <1>14, <1>15, <1>16, <1>17 DEF c, n, text, T, h

(* Any other output of the module: bytes of no frame, none of which starts a *)
(* mark, and of which the first is not of a mark.                          *)
AnswerText(text) ==
  /\ text \in Seq(Octets)
  /\ \A k \in Nat : 0 < k /\ k <= Len(text) => text[k] # IpdText[1]
  /\ \A k \in DOMAIN IpdText : text[1] # IpdText[k]

(* Written behind a stream in order, an answer keeps it in order and adds no  *)
(* byte of a frame.                                                        *)
LEMMA OtherEmitted ==
  ASSUME NEW r \in Seq(Symbol), NEW text, AnswerText(text), NEW n \in Int, ~ (n > 0),
         NEW b \in Seq(SentFrame), StreamOK(r, b)
  PROVE  LET T == r \o Sending(text, n) IN
         /\ StreamOK(T, b) /\ Extended(T, r) /\ Sending(text, n) \in Seq(Symbol)
         /\ \A j : NewAt(T, r, j) => ~ (T[j].of > 0)
<1> DEFINE T == r \o Sending(text, n)
<1>0. text \in Seq(Octets)
  BY DEF AnswerText
<1>1. /\ T \in Seq(Symbol) /\ Extended(T, r)
      /\ \A j : NewAt(T, r, j) =>
              \E k \in Nat : /\ 0 < k /\ k <= Len(text) /\ j = Len(r) + k
                             /\ T[j] \in Symbol /\ T[j].value = text[k]
                             /\ T[j].of = n /\ T[j].at = k
  BY <1>0, EmitFacts
<1>2. /\ \A j : NewAt(T, r, j) /\ j = Len(r) + 1 => T[j].at = 1
      /\ \A j : NewAt(T, r, j) /\ At(T, j + 1) => Follows(T[j], T[j + 1])
  BY <1>0, EmitFollows
<1>3. Sending(text, n) \in Seq(Symbol)
  BY <1>0, SendingFacts
<1> HIDE DEF T
<1>4. Len(b) \in Nat /\ DOMAIN b = 1 .. Len(b) /\ n <= Len(b) /\ n \notin DOMAIN b
  <2>1. Len(b) \in Nat /\ DOMAIN b = 1 .. Len(b)
    OBVIOUS
  <2>2. QED
    BY <2>1
<1>5. ASSUME NEW j, NewAt(T, r, j)
      PROVE  Proper(T[j], b) /\ T[j].of \notin DOMAIN b /\ T[j].of = n
  <2>1. PICK k \in Nat : /\ 0 < k /\ k <= Len(text)
                         /\ T[j] \in Symbol /\ T[j].value = text[k]
                         /\ T[j].of = n /\ T[j].at = k
    BY <1>1, <1>5
  <2>2. text[k] # IpdText[1]
    BY <2>1 DEF AnswerText
  <2>3. k = 1 => \A i \in DOMAIN IpdText : text[k] # IpdText[i]
    BY DEF AnswerText
  <2>4. Foreign(T[j])
    BY <2>1, <2>2, <2>3 DEF Foreign
  <2>5. QED
    BY <1>4, <2>1, <2>4 DEF Proper
<1>6. \A j : NewAt(T, r, j) => ~ IsHeader(T[j]) /\ ~ (T[j].of > 0)
  BY <1>5 DEF IsHeader
<1>7. Older2(b, b)
  BY <1>4 DEF Older2
<1>8. StreamOK(T, b)
  BY <1>1, <1>2, <1>5, <1>6, <1>7, StreamExtended
<1>9. QED
  BY <1>1, <1>3, <1>6, <1>8 DEF T

-----------------------------------------------------------------------------
(* Every byte of a frame that has not been cut stands behind its header.     *)
Whole(S, C) ==
  \A i : At(S, i) /\ S[i].of > 0 /\ S[i].of \notin C =>
    \E h : HeaderAt(S, h) /\ S[h].of = S[i].of /\ i + 1 = h + S[i].at

(* Where a mark is spelled, byte by byte.                                   *)
LEMMA SpelledBytes ==
  ASSUME NEW S, Len(S) \in Nat, NEW i, At(S, i), Spells(S, i, IpdText)
  PROVE  /\ i + Len(IpdText) <= Len(S) + 1
         /\ \A k \in Nat : k < Len(IpdText) => At(S, i + k) /\ S[i + k].value = IpdText[k + 1]
<1>1. /\ i + Len(IpdText) - 1 <= Len(S)
      /\ \A k \in DOMAIN IpdText : S[i + k - 1].value = IpdText[k]
  BY DEF Spells
<1>2. i \in Nat /\ 0 < i /\ Len(IpdText) \in Nat /\ DOMAIN IpdText = 1 .. Len(IpdText)
  BY MarkFacts DEF At
<1>3. i + Len(IpdText) <= Len(S) + 1
  BY <1>1, <1>2
<1>4. ASSUME NEW k \in Nat, k < Len(IpdText)
      PROVE  At(S, i + k) /\ S[i + k].value = IpdText[k + 1]
  <2>1. k + 1 \in DOMAIN IpdText /\ i + (k + 1) - 1 = i + k
    BY <1>2, <1>4
  <2>2. S[i + (k + 1) - 1].value = IpdText[k + 1]
    BY <1>1, <2>1
  <2>3. At(S, i + k)
    BY <1>2, <1>3, <1>4 DEF At
  <2>4. QED
    BY <2>1, <2>2, <2>3
<1>5. QED
  BY <1>3, <1>4

(* The other way round.                                                     *)
LEMMA BytesSpell ==
  ASSUME NEW S, Len(S) \in Nat, NEW i \in Nat, i + Len(IpdText) <= Len(S) + 1,
         \A k \in Nat : k < Len(IpdText) => S[i + k].value = IpdText[k + 1]
  PROVE  Spells(S, i, IpdText)
<1>1. Len(IpdText) \in Nat /\ DOMAIN IpdText = 1 .. Len(IpdText)
  BY MarkFacts
<1>2. i + Len(IpdText) - 1 <= Len(S)
  BY <1>1
<1>3. ASSUME NEW k \in DOMAIN IpdText PROVE S[i + k - 1].value = IpdText[k]
  <2>1. PICK m \in Nat : k = m + 1
    <3>1. k - 1 \in Nat /\ k = (k - 1) + 1
      BY <1>1
    <3>2. QED
      BY <3>1
  <2>2. m < Len(IpdText) /\ i + k - 1 = i + m
    BY <1>1, <2>1
  <2>3. QED
    BY <2>1, <2>2
<1>4. QED
  BY <1>2, <1>3 DEF Spells

(* A mark is of one frame: no text goes on in another, and none but that of  *)
(* a frame starts one.                                                     *)
LEMMA MarkIsOfOne ==
  ASSUME NEW S, Len(S) \in Nat, NEW b \in Seq(SentFrame), StreamOK(S, b),
         NEW i, At(S, i), Spells(S, i, IpdText)
  PROVE  /\ S[i].of > 0
         /\ \A k \in Nat : k < Len(IpdText) => S[i + k].of = S[i].of /\ S[i + k].at = S[i].at + k
<1> DEFINE L == Len(IpdText)
           n == S[i].of
           a == S[i].at
           T == {k \in Nat : k < L /\ ~ (S[i + k].of = n /\ S[i + k].at = a + k)}
<1>1. L \in Nat /\ 0 < L /\ i \in Nat
  BY MarkFacts DEF At
<1>2. \A k \in Nat : k < L => At(S, i + k) /\ S[i + k].value = IpdText[k + 1]
  BY SpelledBytes
<1>3. \A j : At(S, j) => Proper(S[j], b)
  BY DEF StreamOK
<1>4. a \in Nat /\ n \in Int
  BY <1>3, ProperFacts
<1>5. S[i].value = IpdText[1]
  <2>1. 0 \in Nat /\ 0 < L /\ i + 0 = i /\ 0 + 1 = 1
    BY <1>1
  <2>2. QED
    BY <1>2, <2>1
<1>6. n > 0
  <2>1. Proper(S[i], b)
    BY <1>3
  <2>2. QED
    BY <1>5, <2>1 DEF Proper, Foreign
<1> HIDE DEF n, a, L
<1>7. ASSUME T # {} PROVE FALSE
  <2>1. PICK t \in T : \A u \in T : t <= u
    <3>1. T \in SUBSET Nat
      OBVIOUS
    <3> HIDE DEF T
    <3>2. QED
      BY <1>7, <3>1, LeastExists
  <2>2. t \in Nat /\ t < L /\ ~ (S[i + t].of = n /\ S[i + t].at = a + t)
    OBVIOUS
  <2>3. t # 0
    <3>1. i + 0 = i /\ a + 0 = a
      BY <1>1, <1>4
    <3>2. QED
      BY <2>2, <3>1 DEF n, a
  <2>4. PICK u \in Nat : t = u + 1
    <3>1. t - 1 \in Nat /\ t = (t - 1) + 1
      BY <2>2, <2>3
    <3>2. QED
      BY <3>1
  <2>5. u < L /\ u < t
    BY <1>1, <2>2, <2>4
  <2>6. S[i + u].of = n /\ S[i + u].at = a + u
    <3>1. ~ (t <= u)
      BY <2>2, <2>5
    <3>2. u \notin T
      BY <2>1, <3>1
    <3>3. QED
      BY <2>5, <3>2
  <2> HIDE DEF T
  <2> DEFINE x == S[i + u]
             y == S[i + t]
  <2>7. Follows(x, y)
    <3>1. i + t = (i + u) + 1
      BY <1>1, <2>4
    <3>2. At(S, i + u) /\ At(S, (i + u) + 1)
      BY <1>2, <2>2, <2>5, <3>1
    <3>3. QED
      BY <3>1, <3>2 DEF StreamOK
  <2>8. Proper(y, b) /\ y.value = IpdText[t + 1]
    BY <1>2, <1>3, <2>2
  <2>9. t + 1 \in Nat /\ 0 < t + 1 /\ t + 1 <= L /\ t + 1 # 1 /\ t + 1 \in DOMAIN IpdText
    BY <1>1, <2>2, <2>3, MarkFacts DEF L
  <2>10. y.at # 1
    <3>1. CASE y.of > 0
      <4>1. ASSUME y.at = 1 PROVE FALSE
        <5>1. y.of \in DOMAIN b
          BY <2>8, <3>1, ProperFacts
        <5> DEFINE bytes == b[y.of].bytes
        <5>2. bytes \in Seq(Octets)
          BY <5>1, FrameTypes
        <5>3. y.value = FrameText(bytes)[1]
          BY <2>8, <3>1, <4>1 DEF Proper, InFrame
        <5> HIDE DEF bytes
        <5>4. Framed(FrameText(bytes), bytes, Decimal[Len(bytes)])
          BY <5>2, FrameTextFacts
        <5>5. FrameText(bytes)[1] = IpdText[1]
          <6>1. 1 \in Nat /\ 0 < 1 /\ 1 <= Len(IpdText)
            BY MarkFacts
          <6>2. QED
            BY <5>4, <6>1 DEF Framed
        <5>6. IpdText[t + 1] = IpdText[1]
          BY <2>8, <5>3, <5>5
        <5>7. QED
          BY <2>9, <5>6, MarkFacts DEF L
      <4>2. QED
        BY <4>1
    <3>2. CASE ~ (y.of > 0)
      <4>1. Foreign(y)
        BY <2>8, <3>2 DEF Proper
      <4>2. QED
        BY <2>8, <2>9, <4>1 DEF Foreign
    <3>3. QED
      BY <3>1, <3>2
  <2>11. y.of = n /\ y.at = (a + u) + 1
    BY <2>6, <2>7, <2>10 DEF Follows
  <2>12. (a + u) + 1 = a + t
    BY <1>4, <2>4
  <2>13. QED
    BY <2>2, <2>11, <2>12
<1>8. QED
  BY <1>6, <1>7 DEF n, a, L

(* As long as no frame that spells the mark is cut, a mark is a header or     *)
(* stands behind one.                                                      *)
LEMMA MarkIsHeader ==
  ASSUME NEW S, Len(S) \in Nat, NEW b \in Seq(SentFrame), StreamOK(S, b),
         NEW C, Whole(S, C), \A n \in C : ~ SpellsMark(b[n].bytes),
         NEW i, At(S, i), Spells(S, i, IpdText)
  PROVE  HeaderAt(S, i) \/ \E h : HeaderAt(S, h) /\ h < i
<1> DEFINE L == Len(IpdText)
           n == S[i].of
           a == S[i].at
           bytes == b[n].bytes
           text == FrameText(bytes)
<1>1. n > 0 /\ \A k \in Nat : k < L => S[i + k].of = n /\ S[i + k].at = a + k
  BY MarkIsOfOne
<1>2. \A k \in Nat : k < L => At(S, i + k) /\ S[i + k].value = IpdText[k + 1]
  BY SpelledBytes
<1>3. L \in Nat /\ 0 < L /\ i \in Nat
  BY MarkFacts DEF At
<1>4. Proper(S[i], b) /\ a \in Nat /\ n \in DOMAIN b
  BY <1>1, ProperFacts DEF StreamOK
<1>5. bytes \in Seq(Octets)
  BY <1>4, FrameTypes
<1>6. 0 < a
  BY <1>1, <1>4 DEF Proper, InFrame
<1> HIDE DEF n, a, bytes
<1>7. ASSUME NEW k \in Nat, k < L PROVE InFrame(S[i + k], text)
  <2>1. Proper(S[i + k], b) /\ S[i + k].of = n
    BY <1>1, <1>2, <1>7 DEF StreamOK
  <2>2. QED
    BY <1>1, <2>1 DEF Proper, bytes
<1> HIDE DEF text, L
<1>8. \A k \in Nat : k < L => a + k <= Len(text) /\ text[a + k] = IpdText[k + 1]
  BY <1>1, <1>2, <1>7 DEF InFrame
<1>9. Len(text) \in Nat
  <2>1. Framed(text, bytes, Decimal[Len(bytes)])
    BY <1>5, FrameTextFacts DEF text
  <2>2. QED
    BY <2>1 DEF Framed
<1>10. a + L <= Len(text) + 1
  <2>1. PICK k \in Nat : L = k + 1
    <3>1. L - 1 \in Nat /\ L = (L - 1) + 1
      BY <1>3
    <3>2. QED
      BY <3>1
  <2>2. a + k <= Len(text)
    BY <1>8, <2>1
  <2>3. QED
    BY <1>4, <1>9, <2>1, <2>2
<1>11. ASSUME NEW k \in Nat, 0 < k, k <= L PROVE text[a + k - 1] = IpdText[k]
  <2>1. PICK m \in Nat : k = m + 1
    <3>1. k - 1 \in Nat /\ k = (k - 1) + 1
      BY <1>11
    <3>2. QED
      BY <3>1
  <2>2. m < L /\ a + k - 1 = a + m
    BY <1>3, <1>4, <1>11, <2>1
  <2>3. QED
    BY <1>8, <2>1, <2>2
<1>12. a = 1 \/ (1 < a /\ SpellsMark(bytes))
  <2>1. a = 1 \/ (HeaderSize(bytes) < a /\ SpellsMark(bytes))
    BY <1>4, <1>5, <1>6, <1>10, <1>11, MarkInText DEF text, L
  <2>2. ~ (a = 1) => 1 < a
    BY <1>4, <1>6
  <2>3. QED
    BY <2>1, <2>2
<1>13. CASE a = 1
  BY <1>1, <1>13 DEF HeaderAt, IsHeader, n, a
<1>14. CASE 1 < a /\ SpellsMark(bytes)
  <2>1. n \notin C
    BY <1>14 DEF bytes
  <2>2. PICK h : HeaderAt(S, h) /\ i + 1 = h + a
    BY <1>1, <2>1 DEF Whole, n, a
  <2>3. h \in Nat
    BY <2>2 DEF HeaderAt, At
  <2>4. h < i
    BY <1>3, <1>4, <1>14, <2>2, <2>3
  <2>5. QED
    BY <2>2, <2>4
<1>15. QED
  BY <1>12, <1>13, <1>14

(* A header, byte by byte: the text of its frame starts there.              *)
LEMMA HeaderBytes ==
  ASSUME NEW S, Len(S) \in Nat, NEW b \in Seq(SentFrame), StreamOK(S, b),
         NEW h, HeaderAt(S, h)
  PROVE  LET n == S[h].of IN
         /\ h \in Nat /\ 0 < h /\ n \in DOMAIN b /\ n \in Nat /\ n > 0
         /\ Size(b, n) \in Nat /\ h + Size(b, n) <= Len(S) + 1
         /\ \A k \in Nat : k < Size(b, n) =>
              /\ At(S, h + k) /\ S[h + k].of = n /\ S[h + k].at = k + 1
              /\ S[h + k] \in Symbol /\ S[h + k].value = FrameText(b[n].bytes)[k + 1]
<1> DEFINE n == S[h].of
           size == Size(b, n)
<1>1. h \in Nat /\ 0 < h /\ At(S, h) /\ n > 0 /\ Proper(S[h], b) /\ Block(S, size, n, h)
  BY DEF HeaderAt, At, IsHeader, StreamOK
<1>2. n \in DOMAIN b /\ n \in Nat
  BY <1>1, ProperFacts
<1>3. size \in Nat
  BY <1>2, SizeFacts
<1> HIDE DEF n, size
<1>4. /\ h + size <= Len(S) + 1
      /\ \A k \in Nat : k < size => S[h + k].of = n /\ S[h + k].at = k + 1
  BY <1>1 DEF Block
<1>5. ASSUME NEW k \in Nat, k < size
      PROVE  /\ At(S, h + k) /\ S[h + k] \in Symbol
             /\ S[h + k].value = FrameText(b[n].bytes)[k + 1]
  <2>1. At(S, h + k)
    BY <1>1, <1>3, <1>4, <1>5 DEF At
  <2>2. Proper(S[h + k], b) /\ S[h + k].of = n /\ S[h + k].at = k + 1
    BY <1>4, <1>5, <2>1 DEF StreamOK
  <2>3. QED
    BY <1>1, <2>1, <2>2 DEF Proper, InFrame
<1>6. QED
  BY <1>1, <1>2, <1>3, <1>4, <1>5 DEF n, size

(* The mark, the length and the colon of a header, and the bytes behind it.   *)
PartsAt(S, h, bytes, d) ==
  /\ h \in Nat /\ 0 < h /\ Len(IpdText) \in Nat /\ 0 < Len(IpdText)
  /\ Len(d) \in Nat /\ 0 < Len(d) /\ d \in Seq(Digits)
  /\ bytes \in Seq(Octets) /\ Len(bytes) \in Nat
  /\ (h + (Len(IpdText) + (Len(d) + 1))) + Len(bytes) <= Len(S) + 1
  /\ \A k \in Nat : k < Len(IpdText) => S[h + k].value = IpdText[k + 1]
  /\ \A k \in Nat : 0 < k /\ k <= Len(d) => S[(h + Len(IpdText)) + k - 1].value = d[k]
  /\ S[(h + Len(IpdText)) + Len(d)].value = Colon
  /\ \A k \in Nat : 0 < k /\ k <= Len(bytes) =>
       S[(h + (Len(IpdText) + (Len(d) + 1))) + k - 1].value = bytes[k]

(* Wherever the first byte of a frame stands, its parts follow, and its size  *)
(* is that of the header and of its bytes.                                 *)
LEMMA HeaderParts ==
  ASSUME NEW S, Len(S) \in Nat, NEW b \in Seq(SentFrame), StreamOK(S, b),
         NEW h, HeaderAt(S, h)
  PROVE  LET bytes == b[S[h].of].bytes
             d == Decimal[Len(bytes)]
         IN  /\ PartsAt(S, h, bytes, d)
             /\ Size(b, S[h].of) = HeaderSize(bytes) + Len(bytes)
<1> DEFINE n == S[h].of
           bytes == b[n].bytes
           text == FrameText(bytes)
           d == Decimal[Len(bytes)]
           L == Len(IpdText)
           H == L + (Len(d) + 1)
           size == Size(b, n)
<1>1. /\ h \in Nat /\ 0 < h /\ n \in DOMAIN b
      /\ size \in Nat /\ h + size <= Len(S) + 1
      /\ \A k \in Nat : k < size => S[h + k].value = text[k + 1]
  <2>1. /\ h \in Nat /\ 0 < h /\ n \in DOMAIN b /\ n \in Nat /\ n > 0
        /\ Size(b, n) \in Nat /\ h + Size(b, n) <= Len(S) + 1
        /\ \A k \in Nat : k < Size(b, n) =>
              /\ At(S, h + k) /\ S[h + k].of = n /\ S[h + k].at = k + 1
              /\ S[h + k] \in Symbol /\ S[h + k].value = FrameText(b[n].bytes)[k + 1]
    BY HeaderBytes
  <2> HIDE DEF n
  <2>2. QED
    BY <2>1
<1>2. bytes \in Seq(Octets) /\ size = Len(text)
  BY <1>1, FrameTypes DEF Size
<1> HIDE DEF n, bytes
<1>3. Framed(text, bytes, d)
  BY <1>2, FrameTextFacts
<1> HIDE DEF text, d, size, L
<1>4. /\ d \in Seq(Digits) /\ Len(d) \in Nat /\ 0 < Len(d) /\ Len(bytes) \in Nat
      /\ L \in Nat /\ 0 < L /\ size = H + Len(bytes)
      /\ \A k \in Nat : 0 < k /\ k <= L => text[k] = IpdText[k]
      /\ \A k \in Nat : 0 < k /\ k <= Len(d) => text[L + k] = d[k]
      /\ text[L + (Len(d) + 1)] = Colon
      /\ \A k \in Nat : 0 < k /\ k <= Len(bytes) => text[H + k] = bytes[k]
  BY <1>2, <1>3 DEF Framed, L
<1> DEFINE D == Len(d)
           B == Len(bytes)
<1>5. /\ D \in Nat /\ 0 < D /\ B \in Nat /\ L \in Nat /\ 0 < L /\ H \in Nat /\ H = L + (D + 1)
      /\ size = H + B /\ h \in Nat
  BY <1>1, <1>4
<1> HIDE DEF D, B, H
<1>6. \A k \in Nat : k < L => S[h + k].value = IpdText[k + 1]
  <2> SUFFICES ASSUME NEW k \in Nat, k < L PROVE S[h + k].value = IpdText[k + 1]
    OBVIOUS
  <2>1. k < size /\ k + 1 \in Nat /\ 0 < k + 1 /\ k + 1 <= L
    BY <1>5
  <2>2. QED
    BY <1>1, <1>4, <2>1
<1>7. \A k \in Nat : 0 < k /\ k <= D => S[(h + L) + k - 1].value = d[k]
  <2> SUFFICES ASSUME NEW k \in Nat, 0 < k, k <= D PROVE S[(h + L) + k - 1].value = d[k]
    OBVIOUS
  <2>1. PICK m \in Nat : m + 1 = L + k
    <3>1. L + k - 1 \in Nat /\ (L + k - 1) + 1 = L + k
      BY <1>5
    <3>2. QED
      BY <3>1
  <2>2. m < size /\ (h + L) + k - 1 = h + m
    BY <1>5, <2>1
  <2>3. S[h + m].value = text[L + k]
    BY <1>1, <2>1, <2>2
  <2>4. text[L + k] = d[k]
    BY <1>4 DEF D
  <2>5. QED
    BY <2>2, <2>3, <2>4
<1>8. S[(h + L) + D].value = Colon
  <2>1. L + D \in Nat /\ L + D < size /\ (L + D) + 1 = L + (D + 1) /\ h + (L + D) = (h + L) + D
    BY <1>5
  <2>2. S[h + (L + D)].value = text[(L + D) + 1]
    BY <1>1, <2>1
  <2>3. text[L + (D + 1)] = Colon
    BY <1>4 DEF D
  <2>4. QED
    BY <2>1, <2>2, <2>3
<1>9. \A k \in Nat : 0 < k /\ k <= B => S[(h + H) + k - 1].value = bytes[k]
  <2> SUFFICES ASSUME NEW k \in Nat, 0 < k, k <= B PROVE S[(h + H) + k - 1].value = bytes[k]
    OBVIOUS
  <2>1. PICK m \in Nat : m + 1 = H + k
    <3>1. H + k - 1 \in Nat /\ (H + k - 1) + 1 = H + k
      BY <1>5
    <3>2. QED
      BY <3>1
  <2>2. m < size /\ (h + H) + k - 1 = h + m
    BY <1>5, <2>1
  <2>3. S[h + m].value = text[H + k]
    BY <1>1, <2>1, <2>2
  <2>4. text[H + k] = bytes[k]
    BY <1>4 DEF B
  <2>5. QED
    BY <2>2, <2>3, <2>4
<1>10. (h + H) + B <= Len(S) + 1
  <2>1. h + size = (h + H) + B
    BY <1>5
  <2>2. QED
    BY <1>1, <2>1
<1>11. d \in Seq(Digits) /\ size = H + B /\ bytes \in Seq(Octets) /\ h \in Nat /\ 0 < h
  BY <1>1, <1>2, <1>4, <1>5
<1>12. PartsAt(S, h, bytes, d)
  BY <1>5, <1>6, <1>7, <1>8, <1>9, <1>10, <1>11 DEF PartsAt, L, H, D, B
<1>13. HeaderSize(bytes) = H
  BY DEF HeaderSize, H, L, D, d
<1>14. QED
  BY <1>5, <1>12, <1>13 DEF n, bytes, d, size, B

-----------------------------------------------------------------------------
(* Bytes in a row in the ring.                                              *)
LEMMA PartBytes ==
  ASSUME NEW r \in Seq(Symbol), NEW p \in Nat, NEW m \in Nat, p + m <= Len(r)
  PROVE  /\ Bytewise(SubSeq(r, p + 1, p + m)) \in Seq(Octets)
         /\ Len(Bytewise(SubSeq(r, p + 1, p + m))) = m
         /\ \A k \in 1 .. m : Bytewise(SubSeq(r, p + 1, p + m))[k] = r[p + k].value
<1> DEFINE q == p + m
           s == SubSeq(r, p + 1, q)
           t == Bytewise(s)
<1>1. q \in Nat /\ q <= Len(r) /\ Len(r) \in Nat /\ p + 1 \in Int /\ q \in Int
  OBVIOUS
<1> HIDE DEF q
<1>2. \A i \in p + 1 .. q : r[i] \in Symbol
  BY <1>1
<1>3. /\ s \in Seq(Symbol) /\ Len(s) = IF p + 1 <= q THEN q - (p + 1) + 1 ELSE 0
      /\ \A i \in 1 .. q - (p + 1) + 1 : s[i] = r[p + 1 + i - 1]
  BY <1>1, <1>2, SubSeqProperties
<1> HIDE DEF s
<1>4. Len(s) = m /\ DOMAIN s = 1 .. m
  BY <1>1, <1>3 DEF q
<1>5. \A i \in 1 .. m : s[i] = r[p + i] /\ s[i] \in Symbol
  <2> SUFFICES ASSUME NEW i \in 1 .. m PROVE s[i] = r[p + i] /\ s[i] \in Symbol
    OBVIOUS
  <2>1. i \in 1 .. q - (p + 1) + 1 /\ p + 1 + i - 1 = p + i /\ i \in DOMAIN s
    BY <1>1, <1>4 DEF q
  <2>2. s[i] = r[p + 1 + i - 1]
    BY <1>3, <2>1
  <2>3. QED
    BY <1>3, <2>1, <2>2
<1>6. t = [i \in 1 .. m |-> s[i].value]
  BY <1>4 DEF Bytewise
<1>7. \A x \in Symbol : x.value \in Octets
  <2> DEFINE O == Octets
  <2> HIDE DEF O
  <2>1. \A x \in [value : O, of : Int, at : Nat] : x.value \in O
    OBVIOUS
  <2>2. QED
    BY <2>1 DEF Symbol, O
<1>8. t \in [1 .. m -> Octets]
  BY <1>5, <1>6, <1>7
<1>9. \A k \in 1 .. m : t[k] = r[p + k].value
  BY <1>5, <1>6
<1> HIDE DEF t
<1>10. t \in Seq(Octets) /\ Len(t) = m
  BY <1>8, FunctionFacts
<1>11. QED
  BY <1>9, <1>10 DEF t, s, q

-----------------------------------------------------------------------------
(* What has been delivered, and what has not.                              *)
Sent(d, b) == \A x \in DOMAIN d : d[x].of \in DOMAIN b /\ d[x].bytes = b[d[x].of].bytes
Ascending(d) == \A x, y \in DOMAIN d : x < y => d[x].of < d[y].of
Older(d, S) == \A x \in DOMAIN d : \A i : HeaderAt(S, i) => d[x].of < S[i].of

Gone(n, b, d, c) ==
  \/ n \in CutIn(c)
  \/ TooLong(Len(b[n].bytes))
  \/ \E x \in DOMAIN d : d[x].of = n
FramesLeft(b, d, c, S) ==
  \A n \in DOMAIN b : Gone(n, b, d, c) \/ \E i : HeaderAt(S, i) /\ S[i].of = n

CutSets(c, b) == c \in [wait : SUBSET DOMAIN b, line : SUBSET DOMAIN b]
Sendable(b) == \A n \in DOMAIN b : Fits(Len(b[n].bytes)) /\ 0 < Len(b[n].bytes)

Stream == ring \o wire

StreamTypes ==
  /\ ring \in Seq(Symbol) /\ wire \in Seq(Symbol)
  /\ sent \in Seq(SentFrame) /\ delivered \in Seq(Delivery)
  /\ answers \in Nat /\ CutSets(cut, sent) /\ Sendable(sent)

(* What holds as long as the stream is sound.                               *)
Delivers(S, b, d, c) ==
  /\ Whole(S, CutIn(c))
  /\ Sent(d, b) /\ Ascending(d) /\ Older(d, S)
  /\ FramesLeft(b, d, c, S)

StreamInv ==
  /\ StreamTypes
  /\ StreamOK(Stream, sent)
  /\ Sound => Delivers(Stream, sent, delivered, cut)

(* The parts of the invariant that every step uses.                        *)
LEMMA StreamParts ==
  ASSUME StreamInv
  PROVE  /\ ring \in Seq(Symbol) /\ wire \in Seq(Symbol) /\ Stream \in Seq(Symbol)
         /\ Len(ring) \in Nat /\ Len(Stream) \in Nat
         /\ sent \in Seq(SentFrame) /\ delivered \in Seq(Delivery)
         /\ answers \in Nat /\ CutSets(cut, sent) /\ Sendable(sent)
         /\ StreamOK(Stream, sent) /\ Extended(Stream, ring)
         /\ CutIn(cut) \subseteq DOMAIN sent
<1>1. /\ ring \in Seq(Symbol) /\ wire \in Seq(Symbol)
      /\ sent \in Seq(SentFrame) /\ delivered \in Seq(Delivery)
      /\ answers \in Nat /\ CutSets(cut, sent) /\ Sendable(sent) /\ StreamOK(Stream, sent)
  BY DEF StreamInv, StreamTypes
<1>2. Stream \in Seq(Symbol) /\ Extended(Stream, ring)
  BY <1>1, JoinAt DEF Stream
<1>3. Len(ring) \in Nat /\ Len(Stream) \in Nat
  BY <1>2 DEF Extended
<1>4. CutIn(cut) \subseteq DOMAIN sent
  <2> DEFINE D == DOMAIN sent
  <2> HIDE DEF D
  <2>1. cut \in [wait : SUBSET D, line : SUBSET D]
    BY <1>1 DEF CutSets, D
  <2>2. cut.wait \subseteq D /\ cut.line \subseteq D
    BY <2>1
  <2>3. QED
    BY <2>2 DEF CutIn, D
<1>5. QED
  BY <1>1, <1>2, <1>3, <1>4

(* Where a text is in the ring.                                             *)
LEMMA WhereFacts ==
  ASSUME ring \in Seq(Symbol), NEW text
  PROVE  /\ Where(text) \in SUBSET Nat
         /\ \A i : i \in Where(text) <=> At(ring, i) /\ Spells(ring, i, text)
         /\ Where(text) # {} => Min(Where(text)) \in Where(text)
                                /\ \A y \in Where(text) : Min(Where(text)) <= y
<1>1. DOMAIN ring = 1 .. Len(ring) /\ Len(ring) \in Nat
  OBVIOUS
<1>2. \A i : i \in DOMAIN ring <=> At(ring, i)
  BY <1>1 DEF At
<1>3. \A i : i \in Where(text) <=> At(ring, i) /\ Spells(ring, i, text)
  BY <1>2 DEF Where
<1>4. Where(text) \in SUBSET Nat
  BY <1>3 DEF At
<1>5. QED
  BY <1>3, <1>4, LeastIs

(* The header that the parser looks at: where the mark is first, and the     *)
(* first colon behind it.                                                  *)
Colons(hit) == {i \in hit .. Min({hit + 62, Len(ring)}) : ring[i].value = Colon}

(* It stands in the ring, within the 63 bytes, and no colon comes before its  *)
(* own.                                                                    *)
LEMMA HeadersFacts ==
  ASSUME ring \in Seq(Symbol), NEW h \in Headers
  PROVE  /\ Where(IpdText) # {} /\ h.hit = Min(Where(IpdText)) /\ h.hit \in Where(IpdText)
         /\ At(ring, h.hit)
         /\ h.end \in Nat /\ h.hit <= h.end /\ h.end <= Len(ring) /\ h.end <= h.hit + 62
         /\ ring[h.end].value = Colon
         /\ \A i \in Nat : h.hit <= i /\ i < h.end => ring[i].value # Colon
         /\ h.says = parse_ipd_header(Bytewise(SubSeq(ring, h.hit + Len(IpdText), h.end)))
<1> DEFINE hits == Where(IpdText)
           hit == Min(hits)
           colons == Colons(hit)
           end == Min(colons)
           says == parse_ipd_header(Bytewise(SubSeq(ring, hit + Len(IpdText), end)))
<1>1. hits # {} /\ colons # {} /\ h = [hit |-> hit, end |-> end, says |-> says]
  BY DEF Headers, Colons
<1>2. hit \in hits /\ At(ring, hit)
  BY <1>1, WhereFacts
<1> HIDE DEF hits, hit, colons, end, says
<1>3. hit \in Nat /\ 0 < hit /\ hit <= Len(ring) /\ Len(ring) \in Nat
  BY <1>2 DEF At
<1> DEFINE ends == {hit + 62, Len(ring)}
           last == Min(ends)
<1>4. last \in ends /\ last <= hit + 62 /\ last <= Len(ring)
  <2>1. ends \in SUBSET Nat /\ ends # {} /\ hit + 62 \in ends /\ Len(ring) \in ends
    BY <1>3
  <2> HIDE DEF ends
  <2>2. last \in ends /\ \A y \in ends : last <= y
    BY <2>1, LeastIs
  <2>3. QED
    BY <2>1, <2>2
<1>5. last \in Nat
  BY <1>3, <1>4
<1>6. colons = {i \in hit .. last : ring[i].value = Colon}
  BY DEF colons, Colons
<1> HIDE DEF last
<1>7. end \in colons /\ \A y \in colons : end <= y
  <2>1. colons \in SUBSET Nat
    BY <1>3, <1>5, <1>6
  <2>2. QED
    BY <1>1, <2>1, LeastIs DEF end
<1>8. /\ end \in Nat /\ hit <= end /\ end <= last /\ ring[end].value = Colon
  BY <1>3, <1>5, <1>6, <1>7
<1>9. end <= Len(ring) /\ end <= hit + 62
  BY <1>3, <1>4, <1>5, <1>8
<1>10. ASSUME NEW i \in Nat, hit <= i, i < end PROVE ring[i].value # Colon
  <2>1. i \in hit .. last
    BY <1>3, <1>5, <1>8, <1>10
  <2>2. ~ (end <= i)
    BY <1>8, <1>10
  <2>3. i \notin colons
    BY <1>7, <2>2
  <2>4. QED
    BY <1>6, <2>1, <2>3
<1>11. h.hit = hit /\ h.end = end /\ h.says = says
  BY <1>1
<1>12. QED
  BY <1>1, <1>2, <1>8, <1>9, <1>10, <1>11 DEF hits, hit, says

(* The mark has no colon: between it and the colon of a header stands what    *)
(* the parser reads.                                                       *)
LEMMA HeadersType ==
  ASSUME ring \in Seq(Symbol), NEW h \in Headers
  PROVE  /\ h.hit \in Nat /\ 0 < h.hit /\ h.end \in Nat /\ h.hit + Len(IpdText) <= h.end
         /\ h.end <= Len(ring) /\ 1 <= Len(ring)
         /\ h.says.link \in Nat /\ h.says.len \in Nat
<1> DEFINE L == Len(IpdText)
<1>1. /\ h.hit \in Where(IpdText) /\ At(ring, h.hit)
      /\ h.end \in Nat /\ h.hit <= h.end /\ h.end <= Len(ring)
      /\ ring[h.end].value = Colon
      /\ h.says = parse_ipd_header(Bytewise(SubSeq(ring, h.hit + L, h.end)))
  BY HeadersFacts
<1> HIDE DEF L
<1>2. h.hit \in Nat /\ 0 < h.hit /\ Len(ring) \in Nat /\ L \in Nat /\ 0 < L
  BY <1>1, MarkFacts DEF At, L
<1>3. \A k \in Nat : k < L => ring[h.hit + k].value = IpdText[k + 1]
  <2>1. Spells(ring, h.hit, IpdText)
    BY <1>1, WhereFacts
  <2>2. QED
    BY <1>1, <1>2, <2>1, SpelledBytes DEF L
<1>4. h.hit + L <= h.end
  <2>1. ASSUME ~ (h.hit + L <= h.end) PROVE FALSE
    <3>1. PICK k \in Nat : h.end = h.hit + k
      <4>1. h.end - h.hit \in Nat /\ h.end = h.hit + (h.end - h.hit)
        BY <1>1, <1>2
      <4>2. QED
        BY <4>1
    <3>2. k < L /\ k + 1 \in Nat /\ 0 < k + 1 /\ k + 1 <= L
      BY <1>2, <2>1, <3>1
    <3>3. IpdText[k + 1] = Colon
      BY <1>1, <1>3, <3>1, <3>2
    <3>4. QED
      BY <3>2, <3>3, MarkFacts DEF L
  <2>2. QED
    BY <2>1
<1>5. PICK p \in Nat, m \in Nat : h.hit + L = p + 1 /\ h.end = p + m
  <2>1. PICK p \in Nat : h.hit + L = p + 1
    <3>1. h.hit + L - 1 \in Nat /\ h.hit + L = (h.hit + L - 1) + 1
      BY <1>2
    <3>2. QED
      BY <3>1
  <2>2. h.end - p \in Nat /\ h.end = p + (h.end - p)
    BY <1>1, <1>4, <2>1
  <2>3. QED
    BY <2>1, <2>2
<1> DEFINE s == Bytewise(SubSeq(ring, p + 1, p + m))
<1>6. /\ s \in Seq(Octets) /\ Len(s) = m /\ \A k \in 1 .. m : s[k] = ring[p + k].value
  <2>1. p + m <= Len(ring)
    BY <1>1, <1>5
  <2>2. QED
    BY <2>1, PartBytes
<1> HIDE DEF s
<1>7. h.says = parse_ipd_header(s)
  BY <1>1, <1>5 DEF s
<1>8. m \in 1 .. m /\ m # 0
  BY <1>4, <1>5
<1>9. s[Len(s)] = Colon /\ Len(s) # 0
  BY <1>1, <1>5, <1>6, <1>8
<1>10. h.says.link \in Nat /\ h.says.len \in Nat
  BY <1>6, <1>7, <1>9, HeaderType
<1>11. QED
  BY <1>1, <1>2, <1>4, <1>10 DEF L

(* What the parser finds in a sound stream is a header that the module wrote, *)
(* with the length of its frame, and it is the first one.                  *)
LEMMA HeaderFound ==
  ASSUME StreamInv, Sound, NEW h \in Headers
  PROVE  LET n == ring[h.hit].of
             bytes == sent[n].bytes
         IN  /\ HeaderAt(Stream, h.hit) /\ Stream[h.hit].of = n /\ h.hit \in Nat /\ n \in DOMAIN sent
             /\ \A i : HeaderAt(Stream, i) /\ i <= Len(ring) => h.hit <= i \/ Len(ring) < i + Len(IpdText)
             /\ h.says = [link |-> 0, len |-> Len(bytes)]
             /\ h.end \in Nat /\ h.end <= Len(ring) /\ h.end + 1 = h.hit + HeaderSize(bytes)
             /\ Size(sent, n) = HeaderSize(bytes) + Len(bytes)
<1> DEFINE hit == h.hit
           n == ring[hit].of
           bytes == sent[n].bytes
           L == Len(IpdText)
           d == Decimal[Len(bytes)]
           H == L + (Len(d) + 1)
<1>0. /\ ring \in Seq(Symbol) /\ Len(ring) \in Nat /\ Len(Stream) \in Nat
      /\ sent \in Seq(SentFrame) /\ StreamOK(Stream, sent) /\ Extended(Stream, ring)
      /\ Sendable(sent)
  BY StreamParts
<1>1. /\ hit = Min(Where(IpdText)) /\ Where(IpdText) # {} /\ hit \in Where(IpdText) /\ At(ring, hit)
      /\ h.end \in Nat /\ hit <= h.end /\ h.end <= Len(ring) /\ h.end <= hit + 62
      /\ ring[h.end].value = Colon
      /\ \A i \in Nat : hit <= i /\ i < h.end => ring[i].value # Colon
      /\ h.says = parse_ipd_header(Bytewise(SubSeq(ring, hit + L, h.end)))
  BY <1>0, HeadersFacts
<1>2. /\ \A i : At(ring, i) /\ Spells(ring, i, IpdText) => hit <= i
      /\ Spells(ring, hit, IpdText)
  BY <1>0, <1>1, WhereFacts
<1>3. \A i : At(ring, i) => At(Stream, i) /\ Stream[i] = ring[i]
  BY <1>0 DEF Extended
<1>4. L \in Nat /\ 0 < L
  BY MarkFacts
<1> HIDE DEF hit, L
<1>5. hit \in Nat /\ 0 < hit /\ hit <= Len(ring)
  BY <1>1 DEF At
<1>6. At(Stream, hit) /\ Spells(Stream, hit, IpdText)
  <2>1. /\ hit + L <= Len(ring) + 1
        /\ \A k \in Nat : k < L => At(ring, hit + k) /\ ring[hit + k].value = IpdText[k + 1]
    BY <1>0, <1>1, <1>2, SpelledBytes DEF L
  <2>2. \A k \in Nat : k < L => Stream[hit + k].value = IpdText[k + 1]
    BY <1>3, <2>1
  <2>3. hit + L <= Len(Stream) + 1
    <3>1. Len(ring) <= Len(Stream)
      BY <1>0 DEF Extended
    <3>2. QED
      BY <1>0, <1>4, <1>5, <2>1, <3>1
  <2>4. QED
    BY <1>0, <1>1, <1>3, <1>5, <2>2, <2>3, BytesSpell DEF L
<1>7. ASSUME NEW i, HeaderAt(Stream, i), i + L <= Len(ring) + 1 PROVE hit <= i
  <2>1. /\ i \in Nat /\ 0 < i /\ \A k \in Nat : k < L => Stream[i + k].value = IpdText[k + 1]
    <3> DEFINE e == sent[Stream[i].of].bytes
               f == Decimal[Len(e)]
    <3>1. PartsAt(Stream, i, e, f)
      BY <1>0, <1>7, HeaderParts
    <3> HIDE DEF e, f
    <3>2. QED
      BY <3>1 DEF PartsAt, L
  <2>2. \A k \in Nat : k < L => At(ring, i + k)
    BY <1>0, <1>4, <1>7, <2>1 DEF At
  <2>3. \A k \in Nat : k < L => ring[i + k].value = IpdText[k + 1]
    BY <1>3, <2>1, <2>2
  <2>4. At(ring, i)
    BY <1>0, <1>4, <1>7, <2>1 DEF At
  <2>5. Spells(ring, i, IpdText)
    BY <1>0, <1>7, <2>1, <2>3, BytesSpell DEF L
  <2>6. QED
    BY <1>2, <2>4, <2>5
<1>8. HeaderAt(Stream, hit)
  <2>1. Whole(Stream, CutIn(cut)) /\ \A m \in CutIn(cut) : ~ SpellsMark(sent[m].bytes)
    BY DEF StreamInv, Delivers, Sound
  <2>2. ASSUME NEW i, HeaderAt(Stream, i), i < hit PROVE FALSE
    <3>1. i \in Nat
      BY <2>2 DEF HeaderAt, At
    <3>2. i + L <= Len(ring) + 1
      <4>1. hit + L <= Len(ring) + 1
        BY <1>0, <1>1, <1>2, SpelledBytes DEF L
      <4>2. QED
        BY <1>0, <1>4, <1>5, <2>2, <3>1, <4>1
    <3>3. hit <= i
      BY <1>7, <2>2, <3>2
    <3>4. QED
      BY <1>5, <2>2, <3>1, <3>3
  <2>3. QED
    BY <1>0, <1>6, <2>1, <2>2, MarkIsHeader
<1>9. Stream[hit] = ring[hit] /\ Stream[hit].of = n
  BY <1>1, <1>3
<1>10. n \in DOMAIN sent /\ n \in Nat
  <2>1. Stream[hit].of \in DOMAIN sent /\ Stream[hit].of \in Nat
    BY <1>0, <1>8, HeaderBytes
  <2>2. QED
    BY <1>9, <2>1
<1>11. \A i : HeaderAt(Stream, i) /\ i <= Len(ring) => hit <= i \/ Len(ring) < i + L
  <2> SUFFICES ASSUME NEW i, HeaderAt(Stream, i), i <= Len(ring)
               PROVE  hit <= i \/ Len(ring) < i + L
    OBVIOUS
  <2>1. i \in Nat
    BY DEF HeaderAt, At
  <2>2. i + L <= Len(ring) + 1 \/ Len(ring) < i + L
    BY <1>0, <1>4, <2>1
  <2>3. QED
    BY <1>7, <2>2
<1> HIDE DEF n
<1>120. PartsAt(Stream, hit, bytes, d) /\ Size(sent, n) = HeaderSize(bytes) + Len(bytes)
  BY <1>0, <1>8, <1>9, HeaderParts
<1>18. HeaderSize(bytes) = H
  BY DEF HeaderSize, L
<1> HIDE DEF bytes, d
<1>12. /\ Len(d) \in Nat /\ 0 < Len(d) /\ bytes \in Seq(Octets) /\ Len(bytes) \in Nat
       /\ d \in Seq(Digits) /\ Size(sent, n) = H + Len(bytes)
       /\ \A k \in Nat : k < L => Stream[hit + k].value = IpdText[k + 1]
       /\ \A k \in Nat : 0 < k /\ k <= Len(d) => Stream[(hit + L) + k - 1].value = d[k]
       /\ Stream[(hit + L) + Len(d)].value = Colon
  BY <1>18, <1>120 DEF PartsAt, L
<1>13. Fits(Len(bytes)) /\ Len(d) <= 5
  <2>1. Fits(Len(bytes))
    BY <1>0, <1>10 DEF Sendable, bytes
  <2>2. QED
    BY <1>12, <2>1, DecimalShort DEF d
<1> DEFINE D == Len(d)
           c == (hit + L) + D
<1>14. D \in Nat /\ 0 < D /\ D <= 5 /\ c \in Nat /\ hit <= c /\ c <= hit + 62
  <2>1. L + 6 <= 63
    BY MarkFacts DEF L
  <2>2. D \in Nat /\ 0 < D /\ D <= 5
    BY <1>12, <1>13
  <2> HIDE DEF D
  <2>3. QED
    BY <1>4, <1>5, <2>1, <2>2
<1> HIDE DEF D
<1>15. \A i \in Nat : hit <= i /\ i < c => Stream[i].value # Colon
  <2> SUFFICES ASSUME NEW i \in Nat, hit <= i, i < c PROVE Stream[i].value # Colon
    OBVIOUS
  <2>1. CASE i < hit + L
    <3>1. PICK k \in Nat : i = hit + k /\ k < L
      <4>1. i - hit \in Nat /\ i = hit + (i - hit) /\ i - hit < L
        BY <1>4, <1>5, <2>1
      <4>2. QED
        BY <4>1
    <3>2. k + 1 \in Nat /\ 0 < k + 1 /\ k + 1 <= L
      BY <1>4, <3>1
    <3>3. IpdText[k + 1] # Colon
      BY <3>2, MarkFacts DEF L
    <3>4. QED
      BY <1>12, <3>1, <3>3
  <2>2. CASE ~ (i < hit + L)
    <3>1. PICK k \in Nat : i = (hit + L) + k - 1 /\ 0 < k /\ k <= D
      <4>1. PICK k \in Nat : k = i - (hit + L) + 1
        <5>1. i - (hit + L) + 1 \in Nat
          BY <1>4, <1>5, <2>2
        <5>2. QED
          BY <5>1
      <4>2. i = (hit + L) + k - 1 /\ 0 < k /\ k <= D
        BY <1>4, <1>5, <1>14, <2>2, <4>1
      <4>3. QED
        BY <4>2
    <3>2. Stream[i].value = d[k] /\ d[k] \in Digits
      <4>1. k \in 1 .. Len(d)
        BY <1>14, <3>1 DEF D
      <4>2. QED
        BY <1>12, <3>1, <4>1 DEF D
    <3>3. Colon \notin Digits
      BY SMT DEF Colon, Digits
    <3>4. QED
      BY <3>2, <3>3
  <2>3. QED
    BY <2>1, <2>2
<1>16. h.end = c
  <2>1. At(ring, h.end) /\ Stream[h.end].value = Colon
    <3>1. At(ring, h.end)
      BY <1>0, <1>1, <1>5 DEF At
    <3>2. QED
      BY <1>1, <1>3, <3>1
  <2>2. ~ (h.end < c)
    BY <1>1, <1>15, <2>1
  <2>3. ~ (c < h.end)
    <3>1. ASSUME c < h.end PROVE FALSE
      <4>1. At(ring, c)
        BY <1>0, <1>1, <1>5, <1>14, <3>1 DEF At
      <4>2. ring[c].value = Colon
        BY <1>3, <1>12, <4>1 DEF D
      <4>3. QED
        BY <1>1, <1>14, <3>1, <4>2
    <3>2. QED
      BY <3>1
  <2>4. QED
    BY <1>1, <1>14, <2>2, <2>3
<1>17. h.says = [link |-> 0, len |-> Len(bytes)]
  <2>1. PICK p \in Nat : hit + L = p + 1
    <3>1. hit + L - 1 \in Nat /\ hit + L = (hit + L - 1) + 1
      BY <1>4, <1>5
    <3>2. QED
      BY <3>1
  <2>2. h.end = p + (D + 1) /\ D + 1 \in Nat
    BY <1>4, <1>5, <1>14, <1>16, <2>1
  <2> DEFINE m == D + 1
             s == Bytewise(SubSeq(ring, p + 1, p + m))
  <2>3. m \in Nat /\ p + m <= Len(ring)
    BY <1>1, <2>2
  <2> HIDE DEF m
  <2>4. s \in Seq(Octets) /\ Len(s) = m /\ \A k \in 1 .. m : s[k] = ring[p + k].value
    BY <1>0, <2>3, PartBytes
  <2> HIDE DEF s
  <2>5. \A k \in 1 .. m : s[k] = Stream[p + k].value
    <3> SUFFICES ASSUME NEW k \in 1 .. m PROVE s[k] = Stream[p + k].value
      OBVIOUS
    <3>1. At(ring, p + k)
      BY <1>0, <2>3 DEF At
    <3>2. QED
      BY <1>3, <2>4, <3>1
  <2>6. \A k \in 1 .. D : s[k] = d[k]
    <3> SUFFICES ASSUME NEW k \in 1 .. D PROVE s[k] = d[k]
      OBVIOUS
    <3>1. k \in 1 .. m /\ (hit + L) + k - 1 = p + k /\ k \in Nat /\ 0 < k /\ k <= D
      BY <1>4, <1>5, <1>14, <2>1 DEF m
    <3>2. Stream[(hit + L) + k - 1].value = d[k]
      BY <1>12, <3>1 DEF D
    <3>3. QED
      BY <2>5, <3>1, <3>2
  <2>7. s[D + 1] = Colon
    <3>1. D + 1 \in 1 .. m /\ p + (D + 1) = c
      BY <1>14, <1>16, <2>2 DEF m
    <3>2. s[D + 1] = Stream[c].value
      BY <2>5, <3>1
    <3>3. QED
      BY <1>12, <3>2 DEF D
  <2>8. h.says = parse_ipd_header(s)
    <3>1. SubSeq(ring, hit + L, h.end) = SubSeq(ring, p + 1, p + m)
      BY <2>1, <2>2 DEF m
    <3>2. QED
      BY <1>1, <3>1 DEF s
  <2>9. Len(s) = D + 1
    BY <2>4 DEF m
  <2> DEFINE v == Len(bytes)
  <2>10. v \in Nat /\ Fits(v) /\ d = Decimal[v]
    BY <1>12, <1>13 DEF d
  <2> HIDE DEF v
  <2>11. parse_ipd_header(s) = [link |-> 0, len |-> v]
    <3>1. Len(s) = Len(Decimal[v]) + 1 /\ s[Len(Decimal[v]) + 1] = Colon
      BY <2>7, <2>9, <2>10 DEF D
    <3>2. \A k \in 1 .. Len(Decimal[v]) : s[k] = Decimal[v][k]
      BY <2>6, <2>10 DEF D
    <3>3. QED
      BY <2>4, <2>10, <3>1, <3>2, HeaderRead
  <2>12. QED
    BY <2>8, <2>11 DEF v
<1>19. h.end + 1 = hit + HeaderSize(bytes) /\ Size(sent, n) = HeaderSize(bytes) + Len(bytes)
  <2>1. c + 1 = hit + (L + (D + 1))
    BY <1>4, <1>5, <1>14
  <2>2. QED
    BY <1>12, <1>16, <1>18, <2>1 DEF D
<1>20. QED
  BY <1>1, <1>5, <1>8, <1>9, <1>10, <1>11, <1>17, <1>19 DEF hit, n, bytes, L

(* A header left in the stream was there before, k places further.           *)
LEMMA HeaderDropped ==
  ASSUME NEW S, NEW T, NEW k, Dropped(T, S, k)
  PROVE  /\ \A i : HeaderAt(T, i) => HeaderAt(S, i + k) /\ T[i] = S[i + k] /\ k < i + k
         /\ \A i : HeaderAt(S, i) /\ k < i => HeaderAt(T, i - k) /\ T[i - k] = S[i]
<1>1. ASSUME NEW i, HeaderAt(T, i) PROVE HeaderAt(S, i + k) /\ T[i] = S[i + k] /\ k < i + k
  <2>1. At(T, i) /\ At(S, i + k) /\ T[i] = S[i + k]
    BY <1>1 DEF HeaderAt, Dropped
  <2>2. i \in Nat /\ 0 < i /\ k \in Nat
    BY <2>1 DEF At, Dropped
  <2>3. QED
    BY <1>1, <2>1, <2>2 DEF HeaderAt
<1>2. ASSUME NEW i, HeaderAt(S, i), k < i PROVE HeaderAt(T, i - k) /\ T[i - k] = S[i]
  <2>1. i \in Nat /\ 0 < i /\ i <= Len(S)
    BY <1>2 DEF HeaderAt, At
  <2>2. k \in Nat /\ Len(T) \in Nat /\ Len(S) = Len(T) + k
    BY DEF Dropped
  <2>3. PICK j \in Nat : j = i - k /\ j + k = i
    <3>1. i - k \in Nat /\ i - k + k = i
      BY <1>2, <2>1, <2>2
    <3>2. QED
      BY <3>1
  <2>4. At(T, j)
    BY <1>2, <2>1, <2>2, <2>3 DEF At
  <2>5. T[j] = S[i]
    BY <2>3, <2>4 DEF Dropped
  <2>6. QED
    BY <1>2, <2>3, <2>4, <2>5 DEF HeaderAt
<1>3. QED
  BY <1>1, <1>2

(* What has been delivered is older than what is left in the stream.        *)
LEMMA OlderDropped ==
  ASSUME NEW S, NEW T, NEW k, Dropped(T, S, k), NEW d, Older(d, S)
  PROVE  Older(d, T)
  BY HeaderDropped DEF Older

(* A frame whose header is dropped is accounted for, the others are left.    *)
LEMMA FramesLeftDropped ==
  ASSUME NEW S, NEW T, NEW k, Dropped(T, S, k), k \in Nat,
         NEW b, NEW d, NEW c, NEW e, NEW g, FramesLeft(b, d, c, S),
         \A n \in DOMAIN b : Gone(n, b, d, c) => Gone(n, b, e, g),
         \A i : HeaderAt(S, i) /\ i <= k => Gone(S[i].of, b, e, g)
  PROVE  FramesLeft(b, e, g, T)
<1> SUFFICES ASSUME NEW n \in DOMAIN b, ~ Gone(n, b, e, g)
             PROVE  \E i : HeaderAt(T, i) /\ T[i].of = n
  BY DEF FramesLeft
<1>1. PICK i : HeaderAt(S, i) /\ S[i].of = n
  BY DEF FramesLeft
<1>2. k < i
  <2>1. ~ (i <= k)
    BY <1>1
  <2>2. i \in Nat
    BY <1>1 DEF HeaderAt, At
  <2>3. QED
    BY <2>1, <2>2
<1>3. QED
  BY <1>1, <1>2, HeaderDropped

(* With more symbols behind them, headers stay where they are.              *)
LEMMA HeaderExtended ==
  ASSUME NEW S, NEW T, Extended(T, S)
  PROVE  /\ \A i : HeaderAt(S, i) => HeaderAt(T, i) /\ T[i] = S[i]
         /\ \A i : HeaderAt(T, i) =>
              (HeaderAt(S, i) /\ T[i] = S[i]) \/ (NewAt(T, S, i) /\ IsHeader(T[i]))
<1>1. ASSUME NEW i, HeaderAt(S, i) PROVE HeaderAt(T, i) /\ T[i] = S[i]
  BY <1>1 DEF HeaderAt, Extended
<1>2. ASSUME NEW i, HeaderAt(T, i), ~ NewAt(T, S, i) PROVE HeaderAt(S, i) /\ T[i] = S[i]
  <2>1. At(S, i)
    BY <1>2 DEF HeaderAt, NewAt, At, Extended
  <2>2. QED
    BY <1>2, <2>1 DEF HeaderAt, Extended
<1>3. QED
  BY <1>1, <1>2 DEF HeaderAt

(* Bytes left in the stream of a frame that has not been cut keep their       *)
(* header, unless it is dropped.                                           *)
LEMMA WholeDropped ==
  ASSUME NEW S, NEW T, NEW k, Dropped(T, S, k), k \in Nat, NEW C, NEW D, Whole(S, C), C \subseteq D,
         \A i : At(S, i) => S[i].at \in Int,
         \A i, h : /\ At(S, i) /\ k < i /\ HeaderAt(S, h) /\ h <= k
                   /\ S[h].of = S[i].of /\ i + 1 = h + S[i].at
                   => S[i].of \in D
  PROVE  Whole(T, D)
<1> SUFFICES ASSUME NEW i, At(T, i), T[i].of > 0, T[i].of \notin D
             PROVE  \E h : HeaderAt(T, h) /\ T[h].of = T[i].of /\ i + 1 = h + T[i].at
  BY DEF Whole
<1> DEFINE j == i + k
<1>1. At(S, j) /\ T[i] = S[j] /\ i \in Nat /\ 0 < i /\ j \in Nat /\ k < j
  <2>1. At(S, i + k) /\ T[i] = S[i + k]
    BY DEF Dropped
  <2>2. i \in Nat /\ 0 < i
    BY DEF At
  <2>3. QED
    BY <2>1, <2>2
<1> HIDE DEF j
<1>2. PICK h : HeaderAt(S, h) /\ S[h].of = S[j].of /\ j + 1 = h + S[j].at
  BY <1>1 DEF Whole
<1>3. h \in Nat
  BY <1>2 DEF HeaderAt, At
<1>4. k < h
  <2>1. ~ (h <= k)
    BY <1>1, <1>2
  <2>2. QED
    BY <1>3, <2>1
<1>5. HeaderAt(T, h - k) /\ T[h - k] = S[h]
  BY <1>2, <1>4, HeaderDropped
<1>6. i + 1 = (h - k) + S[j].at
  <2>1. S[j].at \in Int /\ j = i + k
    BY <1>1 DEF j
  <2>2. QED
    BY <1>1, <1>2, <1>3, <2>1
<1>7. QED
  BY <1>1, <1>2, <1>5, <1>6

(* The same with symbols behind, if what is new stands behind a header.      *)
LEMMA WholeExtended ==
  ASSUME NEW S, NEW T, Extended(T, S), NEW C, Whole(S, C),
         \A j : NewAt(T, S, j) /\ T[j].of > 0 =>
           \E h : HeaderAt(T, h) /\ T[h].of = T[j].of /\ j + 1 = h + T[j].at
  PROVE  Whole(T, C)
<1> SUFFICES ASSUME NEW i, At(T, i), T[i].of > 0, T[i].of \notin C
             PROVE  \E h : HeaderAt(T, h) /\ T[h].of = T[i].of /\ i + 1 = h + T[i].at
  BY DEF Whole
<1>1. CASE NewAt(T, S, i)
  BY <1>1
<1>2. CASE ~ NewAt(T, S, i)
  <2>1. At(S, i)
    BY <1>2 DEF NewAt, At, Extended
  <2>2. T[i] = S[i]
    BY <2>1 DEF Extended
  <2>3. PICK h : HeaderAt(S, h) /\ S[h].of = S[i].of /\ i + 1 = h + S[i].at
    BY <2>1, <2>2 DEF Whole
  <2>4. QED
    BY <2>2, <2>3, HeaderExtended
<1>3. QED
  BY <1>1, <1>2

-----------------------------------------------------------------------------
(* The steps of the stream.                                                *)
LEMMA StreamStill ==
  ASSUME StreamInv, UNCHANGED <<ring, wire, sent, delivered, answers, cut>>
  PROVE  StreamInv'
  BY DEF StreamInv, StreamTypes, Stream, Sound, CutIn

(* The interrupt moves a symbol from the wire into the ring.                *)
LEMMA StreamInterrupt ==
  ASSUME StreamInv, Interrupt
  PROVE  StreamInv'
<1>1. /\ wire # << >> /\ ring' = Append(ring, Head(wire)) /\ wire' = Tail(wire)
      /\ sent' = sent /\ delivered' = delivered /\ answers' = answers /\ cut' = cut
  BY DEF Interrupt, history
<1>2. ring \in Seq(Symbol) /\ wire \in Seq(Symbol)
  BY DEF StreamInv, StreamTypes
<1>3. ring' \in Seq(Symbol) /\ wire' \in Seq(Symbol) /\ Stream' = Stream
  BY <1>1, <1>2, InterruptMoves DEF Stream
<1>4. QED
  BY <1>1, <1>3 DEF StreamInv, StreamTypes, Sound, CutIn

(* An output that is no frame.                                             *)
LEMMA StreamAnswer ==
  ASSUME StreamInv, NEW text, AnswerText(text), NEW n \in Int, ~ (n > 0), Emit(text, n),
         answers' \in Nat, UNCHANGED <<ring, sent, delivered, cut>>
  PROVE  StreamInv'
<1>1. /\ ring \in Seq(Symbol) /\ sent \in Seq(SentFrame) /\ StreamOK(Stream, sent)
  BY StreamParts
<1>2. wire = << >> /\ wire' = Sending(text, n)
  BY DEF Emit
<1> DEFINE T == ring \o Sending(text, n)
<1>3. Stream = ring /\ Stream' = T
  BY <1>1, <1>2, ConcatEmptySeq DEF Stream
<1>4. /\ StreamOK(T, sent) /\ Extended(T, ring) /\ Sending(text, n) \in Seq(Symbol)
      /\ \A j : NewAt(T, ring, j) => ~ (T[j].of > 0)
  BY <1>1, <1>3, OtherEmitted
<1> HIDE DEF T
<1>5. \A j : NewAt(T, ring, j) => ~ IsHeader(T[j])
  BY <1>4 DEF IsHeader
<1>6. StreamTypes'
  BY <1>2, <1>4 DEF StreamInv, StreamTypes
<1>7. ASSUME Sound' PROVE Delivers(T, sent, delivered, cut)
  <2>1. Sound
    BY <1>7 DEF Sound, CutIn
  <2>2. /\ Whole(ring, CutIn(cut))
        /\ Sent(delivered, sent) /\ Ascending(delivered) /\ Older(delivered, ring)
        /\ FramesLeft(sent, delivered, cut, ring)
    BY <1>3, <2>1 DEF StreamInv, Delivers
  <2>3. Whole(T, CutIn(cut))
    BY <1>4, <2>2, WholeExtended
  <2>4. Older(delivered, T)
    BY <1>4, <1>5, <2>2, HeaderExtended DEF Older
  <2>5. FramesLeft(sent, delivered, cut, T)
    BY <1>4, <2>2, HeaderExtended DEF FramesLeft
  <2>6. QED
    BY <2>2, <2>3, <2>4, <2>5 DEF Delivers
<1>8. StreamOK(Stream', sent')
  BY <1>3, <1>4
<1>9. Sound' => Delivers(Stream', sent', delivered', cut')
  BY <1>3, <1>7
<1>10. QED
  BY <1>6, <1>8, <1>9 DEF StreamInv

(* What is known of a frame of Frames.                                      *)
LEMMA FrameSendable ==
  ASSUME NEW f \in Frames
  PROVE  Fits(Len(Bytes(f))) /\ 0 < Len(Bytes(f))
<1> DEFINE n == Len(Bytes(f))
<1>1. n \in 1 .. U16Max
  BY ChannelAssumption
<1> HIDE DEF n
<1>2. n <= U16Max /\ 0 < n
  BY <1>1, U16Is
<1>3. QED
  BY <1>2 DEF Fits, n

(* A frame of the broker goes behind everything else.                       *)
LEMMA StreamFrame ==
  ASSUME StreamInv, ForwardFrame
  PROVE  StreamInv'
<1>2. /\ ring \in Seq(Symbol) /\ sent \in Seq(SentFrame) /\ delivered \in Seq(Delivery)
      /\ answers \in Nat /\ CutSets(cut, sent) /\ Sendable(sent) /\ StreamOK(Stream, sent)
      /\ CutIn(cut) \subseteq DOMAIN sent
  BY StreamParts
<1>3. UNCHANGED <<ring, delivered, answers, cut>>
  BY DEF ForwardFrame
<1>4. PICK e : /\ e \in SentFrame /\ sent' = Append(sent, e) /\ wire = << >>
               /\ wire' = Sending(FrameText(e.bytes), Len(sent'))
               /\ Fits(Len(e.bytes)) /\ 0 < Len(e.bytes)
  <2>1. PICK f \in Frames :
          /\ sent' = Append(sent, [messages |-> f, bytes |-> Bytes(f)])
          /\ Emit(FrameText(Bytes(f)), Len(sent'))
    BY DEF ForwardFrame
  <2> DEFINE e == [messages |-> f, bytes |-> Bytes(f)]
  <2>2. e \in SentFrame
    BY FrameTyped
  <2>3. e.bytes = Bytes(f) /\ Fits(Len(e.bytes)) /\ 0 < Len(e.bytes)
    BY FrameSendable
  <2>4. sent' = Append(sent, e)
    BY <2>1
  <2> HIDE DEF e
  <2>5. QED
    BY <2>1, <2>2, <2>3, <2>4 DEF Emit
<1> DEFINE n == Len(sent')
           T == ring \o wire'
           h == Len(ring) + 1
<1>5. Stream = ring /\ Stream' = T
  BY <1>2, <1>3, <1>4, ConcatEmptySeq DEF Stream
<1>6. /\ sent' \in Seq(SentFrame) /\ wire' \in Seq(Symbol) /\ StreamOK(T, sent')
      /\ HeaderAt(T, h) /\ T[h].of = n /\ Extended(T, ring)
      /\ \A j : NewAt(T, ring, j) => T[j].of = n /\ j + 1 = h + T[j].at
  BY <1>2, <1>4, <1>5, FrameEmitted
<1>7. /\ n = Len(sent) + 1 /\ Len(sent) \in Nat /\ DOMAIN sent = 1 .. Len(sent)
      /\ DOMAIN sent' = 1 .. Len(sent) + 1 /\ sent'[Len(sent) + 1] = e
      /\ \A i \in DOMAIN sent : i \in DOMAIN sent' /\ sent'[i] = sent[i]
  <2>1. /\ Len(sent') = Len(sent) + 1 /\ Len(sent) \in Nat /\ DOMAIN sent = 1 .. Len(sent)
        /\ DOMAIN sent' = 1 .. Len(sent) + 1 /\ sent'[Len(sent) + 1] = e
    BY <1>2, <1>4, AppendFacts
  <2>2. \A i \in 1 .. Len(sent) : sent'[i] = sent[i]
    BY <1>2, <1>4, AppendFacts
  <2>3. QED
    BY <2>1, <2>2
<1> HIDE DEF n, T, h
<1>8. CutSets(cut, sent')
  <2>1. DOMAIN sent \subseteq DOMAIN sent'
    BY <1>7
  <2> DEFINE A == SUBSET DOMAIN sent
             B == SUBSET DOMAIN sent'
  <2>2. A \subseteq B
    BY <2>1
  <2> HIDE DEF A, B
  <2>3. cut \in [wait : A, line : A]
    BY <1>2 DEF CutSets, A
  <2>4. cut \in [wait : B, line : B]
    BY <2>2, <2>3
  <2>5. QED
    BY <2>4 DEF CutSets, B
<1>9. Sendable(sent')
  <2> SUFFICES ASSUME NEW m \in DOMAIN sent' PROVE Fits(Len(sent'[m].bytes)) /\ 0 < Len(sent'[m].bytes)
    BY DEF Sendable
  <2>1. m \in DOMAIN sent \/ m = Len(sent) + 1
    BY <1>7
  <2>2. CASE m \in DOMAIN sent
    BY <1>2, <1>7, <2>2 DEF Sendable
  <2>3. CASE m = Len(sent) + 1
    BY <1>4, <1>7, <2>3
  <2>4. QED
    BY <2>1, <2>2, <2>3
<1>10. StreamTypes'
  BY <1>2, <1>3, <1>6, <1>8, <1>9 DEF StreamTypes
<1>11. ASSUME Sound' PROVE Delivers(T, sent', delivered, cut)
  <2>1. Sound
    <3> SUFFICES ASSUME NEW m \in CutIn(cut) PROVE ~ SpellsMark(sent[m].bytes)
      BY DEF Sound
    <3>1. sent'[m] = sent[m] /\ m \in CutIn(cut')
      BY <1>2, <1>3, <1>7 DEF CutIn
    <3>2. ~ SpellsMark(sent'[m].bytes)
      BY <1>11, <3>1 DEF Sound
    <3>3. QED
      BY <3>1, <3>2
  <2>2. /\ Whole(ring, CutIn(cut))
        /\ Sent(delivered, sent) /\ Ascending(delivered) /\ Older(delivered, ring)
        /\ FramesLeft(sent, delivered, cut, ring)
    BY <1>5, <2>1 DEF StreamInv, Delivers
  <2>3. Whole(T, CutIn(cut))
    <3>1. \A j : NewAt(T, ring, j) /\ T[j].of > 0 =>
            \E i : HeaderAt(T, i) /\ T[i].of = T[j].of /\ j + 1 = i + T[j].at
      BY <1>6
    <3>2. QED
      BY <1>6, <2>2, <3>1, WholeExtended
  <2>4. Sent(delivered, sent')
    BY <1>7, <2>2 DEF Sent
  <2>5. Older(delivered, T)
    <3> SUFFICES ASSUME NEW x \in DOMAIN delivered, NEW i, HeaderAt(T, i)
                 PROVE  delivered[x].of < T[i].of
      BY DEF Older
    <3>1. CASE HeaderAt(ring, i) /\ T[i] = ring[i]
      BY <2>2, <3>1 DEF Older
    <3>2. CASE NewAt(T, ring, i)
      <4>1. delivered[x].of \in 1 .. Len(sent)
        BY <1>7, <2>2 DEF Sent
      <4>2. T[i].of = n
        BY <1>6, <3>2
      <4>3. QED
        BY <1>7, <4>1, <4>2
    <3>3. QED
      BY <1>6, <3>1, <3>2, HeaderExtended
  <2>6. FramesLeft(sent', delivered, cut, T)
    <3> SUFFICES ASSUME NEW m \in DOMAIN sent'
                 PROVE  Gone(m, sent', delivered, cut) \/ \E i : HeaderAt(T, i) /\ T[i].of = m
      BY DEF FramesLeft
    <3>1. CASE m = n
      BY <1>6, <3>1
    <3>2. CASE m \in DOMAIN sent
      <4>1. Gone(m, sent, delivered, cut) \/ \E i : HeaderAt(ring, i) /\ ring[i].of = m
        BY <2>2, <3>2 DEF FramesLeft
      <4>2. sent'[m] = sent[m]
        BY <1>7, <3>2
      <4>3. QED
        BY <1>6, <4>1, <4>2, HeaderExtended DEF Gone
    <3>3. QED
      BY <1>7, <3>1, <3>2
  <2>7. QED
    BY <2>2, <2>3, <2>4, <2>5, <2>6 DEF Delivers
<1>12. StreamOK(Stream', sent')
  BY <1>5, <1>6
<1>13. Sound' => Delivers(Stream', sent', delivered', cut')
  BY <1>3, <1>5, <1>11
<1>14. QED
  BY <1>10, <1>12, <1>13 DEF StreamInv

-----------------------------------------------------------------------------
(* What has to hold of the bytes that are taken from the front of a sound    *)
(* stream: what is given to the client is what was sent, in order and older *)
(* than what is left; what was accounted for still is, so are the frames   *)
(* whose headers go, and one of which a part is left is cut.               *)
Settles(k, d, c) ==
  /\ Sent(d, sent) /\ Ascending(d)
  /\ \A T : Dropped(T, Stream, k) => Older(d, T)
  /\ \A n \in DOMAIN sent : Gone(n, sent, delivered, cut) => Gone(n, sent, d, c)
  /\ \A i : HeaderAt(Stream, i) /\ i <= k => Gone(Stream[i].of, sent, d, c)
  /\ \A i, h : /\ At(Stream, i) /\ k < i /\ HeaderAt(Stream, h) /\ h <= k
              /\ Stream[h].of = Stream[i].of /\ i + 1 = h + Stream[i].at
              => Stream[i].of \in CutIn(c)

(* Bytes are taken from the front of the ring.                              *)
LEMMA StreamDrop ==
  ASSUME StreamInv, NEW k \in 0 .. Len(ring), ring_consume(k),
         UNCHANGED <<wire, sent, answers>>,
         delivered' \in Seq(Delivery), CutSets(cut', sent), CutIn(cut) \subseteq CutIn(cut'),
         Sound => Settles(k, delivered', cut')
  PROVE  StreamInv'
<1>1. /\ ring \in Seq(Symbol) /\ wire \in Seq(Symbol) /\ sent \in Seq(SentFrame)
      /\ answers \in Nat /\ Sendable(sent) /\ StreamOK(Stream, sent)
  BY StreamParts
<1>2. ring' \in Seq(Symbol) /\ Dropped(Stream', Stream, k) /\ k \in Nat
  BY <1>1, DropFromRing DEF ring_consume, Stream
<1>3. StreamOK(Stream', sent)
  BY <1>1, <1>2, StreamDropped
<1>4. StreamTypes'
  BY <1>1, <1>2 DEF StreamTypes
<1>5. ASSUME Sound' PROVE Delivers(Stream', sent, delivered', cut')
  <2>1. Sound
    <3> SUFFICES ASSUME NEW n \in CutIn(cut) PROVE ~ SpellsMark(sent[n].bytes)
      BY DEF Sound
    <3>1. n \in CutIn(cut')
      OBVIOUS
    <3>2. \A m \in CutIn(cut') : ~ SpellsMark(sent[m].bytes)
      BY <1>5 DEF Sound, CutIn
    <3>3. QED
      BY <3>1, <3>2
  <2>2. Whole(Stream, CutIn(cut)) /\ FramesLeft(sent, delivered, cut, Stream)
    BY <2>1 DEF StreamInv, Delivers
  <2>3. /\ Sent(delivered', sent) /\ Ascending(delivered')
        /\ \A T : Dropped(T, Stream, k) => Older(delivered', T)
        /\ \A n \in DOMAIN sent : Gone(n, sent, delivered, cut) => Gone(n, sent, delivered', cut')
        /\ \A i : HeaderAt(Stream, i) /\ i <= k => Gone(Stream[i].of, sent, delivered', cut')
        /\ \A i, h : /\ At(Stream, i) /\ k < i /\ HeaderAt(Stream, h) /\ h <= k
                    /\ Stream[h].of = Stream[i].of /\ i + 1 = h + Stream[i].at
                    => Stream[i].of \in CutIn(cut')
    BY <2>1 DEF Settles
  <2>4. \A i : At(Stream, i) => Stream[i].at \in Int
    BY <1>1, ProperFacts DEF StreamOK
  <2>5. Whole(Stream', CutIn(cut'))
    BY <1>2, <2>2, <2>3, <2>4, WholeDropped
  <2>6. FramesLeft(sent, delivered', cut', Stream')
    BY <1>2, <2>2, <2>3, FramesLeftDropped
  <2>7. QED
    BY <1>2, <2>3, <2>5, <2>6 DEF Delivers
<1>6. QED
  BY <1>3, <1>4, <1>5 DEF StreamInv

(* Which frames the bytes at the front of the ring are of.                  *)
LEMMA FrontFrames ==
  ASSUME StreamInv, NEW k \in 0 .. Len(ring)
  PROVE  /\ FramesOf(Upto(k)) \subseteq DOMAIN sent
         /\ \A i : HeaderAt(Stream, i) /\ i <= k => Stream[i].of \in FramesOf(Upto(k))
<1>1. /\ Len(ring) \in Nat /\ sent \in Seq(SentFrame) /\ StreamOK(Stream, sent)
      /\ Extended(Stream, ring)
  BY StreamParts
<1>2. ASSUME NEW i \in 1 .. k PROVE At(Stream, i) /\ Stream[i] = ring[i]
  <2>1. At(ring, i)
    BY <1>1, <1>2 DEF At
  <2>2. QED
    BY <1>1, <2>1 DEF Extended
<1>3. ASSUME NEW n \in FramesOf(Upto(k)) PROVE n \in DOMAIN sent
  <2>1. PICK i \in 1 .. k : n = ring[i].of /\ ring[i].of > 0
    BY <1>3 DEF FramesOf, Upto
  <2>2. Proper(Stream[i], sent) /\ Stream[i].of > 0 /\ Stream[i].of = n
    BY <1>1, <1>2, <2>1 DEF StreamOK
  <2>3. QED
    BY <1>1, <2>2, ProperFacts
<1>4. ASSUME NEW i, HeaderAt(Stream, i), i <= k PROVE Stream[i].of \in FramesOf(Upto(k))
  <2>1. i \in 1 .. k
    BY <1>1, <1>4 DEF HeaderAt, At
  <2>2. Stream[i].of > 0
    BY <1>4 DEF HeaderAt, IsHeader
  <2>3. ring[i].of > 0 /\ Stream[i] = ring[i]
    BY <1>2, <2>1, <2>2
  <2>4. QED
    BY <2>1, <2>3 DEF FramesOf, Upto
<1>5. QED
  BY <1>3, <1>4

(* A wait or the line loop takes bytes from the front of the ring: frames it *)
(* touches are cut.                                                        *)
LEMMA StreamCut ==
  ASSUME StreamInv, NEW k \in 0 .. Len(ring), ring_consume(k),
         UNCHANGED <<wire, sent, answers, delivered>>, NEW W, NEW L,
         W \subseteq DOMAIN sent, L \subseteq DOMAIN sent,
         FramesOf(Upto(k)) \subseteq W \cup L,
         cut.wait \subseteq W, cut.line \subseteq L, cut' = [wait |-> W, line |-> L]
  PROVE  StreamInv'
<1>1. CutSets(cut', sent)
  <2> DEFINE A == SUBSET DOMAIN sent
  <2>1. W \in A /\ L \in A
    OBVIOUS
  <2> HIDE DEF A
  <2>2. [wait |-> W, line |-> L] \in [wait : A, line : A]
    BY <2>1
  <2>3. QED
    BY <2>2 DEF CutSets, A
<1>2. cut'.wait = W /\ cut'.line = L
  OBVIOUS
<1>3. CutIn(cut') = W \cup L /\ CutIn(cut) \subseteq W \cup L
  BY <1>2 DEF CutIn
<1>4. \A i : HeaderAt(Stream, i) /\ i <= k => Stream[i].of \in CutIn(cut')
  BY <1>3, FrontFrames
<1>5. delivered' \in Seq(Delivery)
  BY StreamParts
<1>6. ASSUME Sound PROVE Settles(k, delivered', cut')
  <2>1. Sent(delivered, sent) /\ Ascending(delivered) /\ Older(delivered, Stream)
    BY <1>6 DEF StreamInv, Delivers
  <2>2. \A T : Dropped(T, Stream, k) => Older(delivered', T)
    BY <2>1, OlderDropped
  <2>3. \A n \in DOMAIN sent : Gone(n, sent, delivered, cut) => Gone(n, sent, delivered', cut')
    BY <1>3 DEF Gone
  <2>4. \A i : HeaderAt(Stream, i) /\ i <= k => Gone(Stream[i].of, sent, delivered', cut')
    BY <1>4 DEF Gone
  <2>5. QED
    BY <1>4, <2>1, <2>2, <2>3, <2>4 DEF Settles
<1>7. QED
  BY <1>1, <1>3, <1>5, <1>6, StreamDrop

(* A wait takes bytes from the front of the ring.                         *)
LEMMA WaitTakes ==
  ASSUME StreamInv, NEW needle, at_wait_for(needle)
  PROVE  \E k \in 0 .. Len(ring) :
           ring_consume(k) /\ cut' = [cut EXCEPT !.wait = @ \cup FramesOf(Upto(k))]
<1> DEFINE found == Min(Where(needle))
           ends == {i \in Where(<<NewLine>>) : i >= found}
           upto == IF ends = {} THEN Len(ring) ELSE Min(ends)
           k == upto - found + 1
<1>1. ring \in Seq(Symbol)
  BY StreamParts
<1>2. Len(ring) \in Nat /\ DOMAIN ring = 1 .. Len(ring)
  BY <1>1
<1>3. Where(needle) # {} /\ ring_consume(k) /\ cut' = [cut EXCEPT !.wait = @ \cup FramesOf(Upto(k))]
  BY DEF at_wait_for
<1>4. found \in Nat /\ 0 < found /\ found <= Len(ring)
  <2>1. Where(needle) \subseteq 1 .. Len(ring)
    BY <1>2 DEF Where
  <2>2. Where(needle) \in SUBSET Nat
    BY <2>1
  <2>3. found \in Where(needle)
    BY <1>3, <2>2, LeastIs
  <2>4. QED
    BY <1>2, <2>1, <2>3
<1> HIDE DEF found
<1>5. upto \in Nat /\ found <= upto /\ upto <= Len(ring)
  <2>1. ends \subseteq 1 .. Len(ring)
    BY <1>2 DEF Where
  <2>2. CASE ends = {}
    BY <1>2, <1>4, <2>2
  <2>3. CASE ends # {}
    <3>1. ends \in SUBSET Nat
      BY <2>1
    <3> DEFINE e == Min(ends)
    <3>2. e \in ends
      BY <2>3, <3>1, LeastIs
    <3>3. e \in Nat /\ e <= Len(ring) /\ e >= found
      BY <1>2, <2>1, <3>2
    <3>4. upto = e
      BY <2>3
    <3> HIDE DEF e, ends, upto
    <3>5. QED
      BY <1>4, <3>3, <3>4
  <2>4. QED
    BY <2>2, <2>3
<1> HIDE DEF upto
<1>6. k \in 0 .. Len(ring)
  BY <1>2, <1>4, <1>5
<1> HIDE DEF k
<1>7. QED
  BY <1>3, <1>6

(* A wait that finds its answer.                                            *)
LEMMA StreamWait ==
  ASSUME StreamInv, NEW needle, at_wait_for(needle), UNCHANGED <<wire, sent, answers, delivered>>
  PROVE  StreamInv'
<1>1. PICK k \in 0 .. Len(ring) :
        ring_consume(k) /\ cut' = [cut EXCEPT !.wait = @ \cup FramesOf(Upto(k))]
  BY WaitTakes
<1> DEFINE F == FramesOf(Upto(k))
           D == DOMAIN sent
           W == cut.wait \cup F
           L == cut.line
<1>2. F \subseteq D
  BY FrontFrames
<1>3. cut \in [wait : SUBSET D, line : SUBSET D]
  BY StreamParts DEF CutSets
<1> HIDE DEF D, F
<1>4. cut.wait \subseteq D /\ cut.line \subseteq D /\ cut' = [wait |-> W, line |-> L]
  <2>1. cut' = [cut EXCEPT !.wait = @ \cup F]
    BY <1>1 DEF F
  <2>2. QED
    BY <1>3, <2>1
<1>5. W \subseteq D /\ L \subseteq D /\ F \subseteq W \cup L /\ cut.wait \subseteq W /\ cut.line \subseteq L
  BY <1>2, <1>4
<1> HIDE DEF W, L
<1>6. QED
  BY <1>1, <1>4, <1>5, StreamCut DEF D, F

(* The line loop takes bytes from the front of the ring.                  *)
LEMMA LineTakes ==
  ASSUME StreamInv, LineRound
  PROVE  \E k \in 0 .. Len(ring) :
           /\ ring_consume(k)
           /\ cut' = [cut EXCEPT !.line = @ \cup (FramesOf(Upto(k)) \ cut.wait)]
<1> DEFINE k == Min({LineEnd, LineSize - 1})
<1>1. ring \in Seq(Symbol)
  BY StreamParts
<1>2. Len(ring) \in Nat /\ DOMAIN ring = 1 .. Len(ring)
  BY <1>1
<1>3. /\ LineEnd > 0 /\ ring_consume(k)
      /\ cut' = [cut EXCEPT !.line = @ \cup (FramesOf(Upto(k)) \ cut.wait)]
  BY DEF LineRound
<1>4. LineEnd \in Nat /\ LineEnd <= Len(ring)
  <2>1. Where(<<NewLine>>) \subseteq 1 .. Len(ring)
    BY <1>2 DEF Where
  <2>2. Where(<<NewLine>>) \in SUBSET Nat
    BY <2>1
  <2>3. CASE Where(<<NewLine>>) = {}
    BY <1>2, <2>3 DEF LineEnd
  <2>4. CASE Where(<<NewLine>>) # {}
    <3> DEFINE e == Min(Where(<<NewLine>>))
    <3>1. e \in Where(<<NewLine>>)
      BY <2>2, <2>4, LeastIs
    <3>2. LineEnd = e
      BY <2>4 DEF LineEnd
    <3> HIDE DEF e
    <3>3. QED
      BY <1>2, <2>1, <3>1, <3>2
  <2>5. QED
    BY <2>3, <2>4
<1>5. LineSize - 1 \in Nat
  BY ChannelAssumption
<1>6. k \in 0 .. Len(ring)
  <2> DEFINE a == LineEnd
             b == LineSize - 1
  <2> HIDE DEF a, b
  <2>1. {a, b} \in SUBSET Nat /\ {a, b} # {}
    BY <1>4, <1>5 DEF a, b
  <2>2. Min({a, b}) \in {a, b} /\ \A y \in {a, b} : Min({a, b}) <= y
    BY <2>1, LeastIs
  <2>3. Min({a, b}) \in Nat /\ Min({a, b}) <= a
    BY <2>1, <2>2
  <2>4. a \in Nat /\ a <= Len(ring)
    BY <1>4 DEF a
  <2>5. Min({a, b}) \in 0 .. Len(ring)
    BY <1>2, <2>3, <2>4
  <2>6. QED
    BY <2>5 DEF a, b
<1> HIDE DEF k
<1>7. QED
  BY <1>3, <1>6

(* A round of the line loop.                                                *)
LEMMA StreamLine ==
  ASSUME StreamInv, LineRound
  PROVE  StreamInv'
<1>1. PICK k \in 0 .. Len(ring) :
        /\ ring_consume(k)
        /\ cut' = [cut EXCEPT !.line = @ \cup (FramesOf(Upto(k)) \ cut.wait)]
  BY LineTakes
<1>2. UNCHANGED <<wire, sent, answers, delivered>>
  BY DEF LineRound, module
<1> DEFINE F == FramesOf(Upto(k))
           D == DOMAIN sent
           W == cut.wait
           L == cut.line \cup (F \ cut.wait)
<1>3. F \subseteq D
  BY FrontFrames
<1>4. cut \in [wait : SUBSET D, line : SUBSET D]
  BY StreamParts DEF CutSets
<1> HIDE DEF D, F
<1>5. cut.wait \subseteq D /\ cut.line \subseteq D /\ cut' = [wait |-> W, line |-> L]
  <2>1. cut' = [cut EXCEPT !.line = @ \cup (F \ cut.wait)]
    BY <1>1 DEF F
  <2>2. QED
    BY <1>4, <2>1
<1>6. W \subseteq D /\ L \subseteq D /\ F \subseteq W \cup L /\ cut.wait \subseteq W /\ cut.line \subseteq L
  BY <1>3, <1>5
<1> HIDE DEF W, L
<1>7. QED
  BY <1>1, <1>2, <1>5, <1>6, StreamCut DEF D, F

(* What the parser consumes of a sound stream is the first frame, all of it  *)
(* that is left, and what it hands on are its bytes.                       *)
LEMMA FrameFound ==
  ASSUME StreamInv, Sound, NEW h \in Headers, FrameAt(h)
  PROVE  LET n == ring[h.hit].of
             k == FrameEnd(h)
         IN  /\ HeaderAt(Stream, h.hit) /\ Stream[h.hit].of = n /\ n \in DOMAIN sent
             /\ h.says.link = 0 /\ h.says.len = Len(sent[n].bytes)
             /\ k \in 0 .. Len(ring) /\ h.hit <= k
             /\ \A i : HeaderAt(Stream, i) /\ i <= k => i = h.hit
             /\ \A i : At(Stream, i) /\ Stream[i].of = n /\ i + 1 = h.hit + Stream[i].at => i <= k
             /\ Bytewise(SubSeq(ring, FrameStart(h) + 1, FrameStart(h) + h.says.len)) = sent[n].bytes
<1> DEFINE hit == h.hit
           n == ring[hit].of
           bytes == sent[n].bytes
           d == Decimal[Len(bytes)]
           size == Size(sent, n)
           e == h.end
           v == h.says.len
           H == HeaderSize(bytes)
           k == e + v
           t == Bytewise(SubSeq(ring, e + 1, e + v))
<1>1. /\ ring \in Seq(Symbol) /\ Len(ring) \in Nat /\ Len(Stream) \in Nat
      /\ sent \in Seq(SentFrame) /\ StreamOK(Stream, sent) /\ Extended(Stream, ring)
  BY StreamParts
<1>2. /\ HeaderAt(Stream, hit) /\ Stream[hit].of = n /\ hit \in Nat /\ n \in DOMAIN sent
      /\ \A i : HeaderAt(Stream, i) /\ i <= Len(ring) => hit <= i \/ Len(ring) < i + Len(IpdText)
      /\ h.says = [link |-> 0, len |-> Len(bytes)]
      /\ e \in Nat /\ e <= Len(ring) /\ e + 1 = hit + H /\ size = H + Len(bytes)
  <2> DEFINE p == /\ HeaderAt(Stream, h.hit) /\ Stream[h.hit].of = ring[h.hit].of /\ h.hit \in Nat
                  /\ ring[h.hit].of \in DOMAIN sent
                  /\ \A i : HeaderAt(Stream, i) /\ i <= Len(ring) =>
                       h.hit <= i \/ Len(ring) < i + Len(IpdText)
                  /\ h.says = [link |-> 0, len |-> Len(sent[ring[h.hit].of].bytes)]
                  /\ h.end \in Nat /\ h.end <= Len(ring)
                  /\ h.end + 1 = h.hit + HeaderSize(sent[ring[h.hit].of].bytes)
                  /\ Size(sent, ring[h.hit].of) = HeaderSize(sent[ring[h.hit].of].bytes)
                                                  + Len(sent[ring[h.hit].of].bytes)
  <2>1. p
    BY HeaderFound
  <2>2. QED
    BY <2>1
<1>3. hit + Len(IpdText) <= e /\ Len(IpdText) \in Nat
  BY <1>1, HeadersType, MarkFacts
<1>4. e + v <= Len(ring)
  BY DEF FrameAt
<1>5. PartsAt(Stream, hit, bytes, d)
  BY <1>1, <1>2, HeaderParts
<1>6. /\ size \in Nat /\ hit + size <= Len(Stream) + 1
      /\ \A j \in Nat : j < size => Stream[hit + j].of = n /\ Stream[hit + j].at = j + 1
  <2>1. Block(Stream, size, n, hit)
    BY <1>1, <1>2 DEF StreamOK
  <2>2. QED
    BY <1>1, <1>2, <2>1, SizeFacts DEF Block
<1>7. h.says.link = 0 /\ v = Len(bytes) /\ v \in Nat /\ bytes \in Seq(Octets)
  BY <1>1, <1>2, FrameTypes
<1>8. Size(sent, n) = Len(FrameText(bytes))
  BY DEF Size
<1>9. FrameEnd(h) = k /\ FrameStart(h) = e
  BY DEF FrameEnd, FrameStart
<1>10. HeaderSize(bytes) = Len(IpdText) + (Len(d) + 1)
  BY DEF HeaderSize
<1>11. \A j \in Nat : 0 < j /\ j <= v => Stream[(hit + H) + j - 1].value = bytes[j]
  BY <1>5, <1>7, <1>10 DEF PartsAt
<1> HIDE DEF hit, n, bytes, d, size, e, v, H
<1>12. k \in 0 .. Len(ring) /\ k \in Nat /\ hit <= k /\ k + 1 = hit + size /\ H \in Nat
  <2>1. H \in Int
    <3>1. Len(d) \in Nat
      BY <1>5 DEF PartsAt
    <3>2. QED
      BY <1>3, <1>10, <3>1 DEF H
  <2> DEFINE B == Len(ring)
             L == Len(IpdText)
  <2>2. /\ B \in Nat /\ L \in Nat /\ hit \in Nat /\ e \in Nat /\ v \in Nat /\ H \in Int
        /\ e + v <= B /\ e + 1 = hit + H /\ size = H + v /\ hit + L <= e
    BY <1>1, <1>2, <1>3, <1>4, <1>7, <2>1
  <2> HIDE DEF B, L
  <2>3. k \in 0 .. B /\ k \in Nat /\ hit <= k /\ k + 1 = hit + size /\ H \in Nat
    BY <2>2
  <2>4. QED
    BY <2>3 DEF B
<1> HIDE DEF k
<1>13. ASSUME NEW i, HeaderAt(Stream, i), i <= k PROVE i = hit
  <2>1. i \in Nat /\ IsHeader(Stream[i])
    BY <1>13 DEF HeaderAt, At
  <2>2. i <= Len(ring)
    BY <1>1, <1>12, <1>13, <2>1
  <2>3. hit <= i
    <3>1. hit <= i \/ Len(ring) < i + Len(IpdText)
      BY <1>2, <1>13, <2>2
    <3>2. hit + Len(IpdText) <= Len(ring)
      BY <1>1, <1>2, <1>3
    <3>3. QED
      BY <1>1, <1>2, <1>3, <2>1, <3>1, <3>2
  <2>4. PICK j \in Nat : i = hit + j
    <3>1. i - hit \in Nat /\ i = hit + (i - hit)
      BY <1>2, <2>1, <2>3
    <3>2. QED
      BY <3>1
  <2>5. j < size
    BY <1>2, <1>6, <1>12, <1>13, <2>4
  <2>6. Stream[i].at = j + 1
    BY <1>6, <2>4, <2>5
  <2>7. Stream[i].at = 1
    BY <2>1 DEF IsHeader
  <2>8. j = 0
    BY <2>6, <2>7
  <2>9. QED
    BY <1>2, <2>4, <2>8
<1>14. ASSUME NEW i, At(Stream, i), Stream[i].of = n, i + 1 = hit + Stream[i].at PROVE i <= k
  <2>1. i \in Nat /\ Proper(Stream[i], sent)
    BY <1>1, <1>14 DEF At, StreamOK
  <2>2. n > 0
    BY <1>2 DEF HeaderAt, IsHeader
  <2>3. Stream[i].at \in Nat /\ Stream[i].at <= Len(FrameText(sent[Stream[i].of].bytes))
    <3>1. Stream[i].at \in Nat
      BY <1>1, <2>1, ProperFacts
    <3>2. InFrame(Stream[i], FrameText(sent[Stream[i].of].bytes))
      BY <1>14, <2>1, <2>2 DEF Proper
    <3>3. QED
      BY <3>1, <3>2 DEF InFrame
  <2>4. Stream[i].at <= size
    BY <1>8, <1>14, <2>3 DEF size, bytes
  <2>5. QED
    BY <1>2, <1>6, <1>12, <1>14, <2>1, <2>3, <2>4
<1>15. t = bytes
  <2>1. /\ t \in Seq(Octets) /\ Len(t) = v /\ \A j \in 1 .. v : t[j] = ring[e + j].value
    <3>1. ring \in Seq(Symbol) /\ e \in Nat /\ v \in Nat /\ e + v <= Len(ring)
      BY <1>1, <1>2, <1>4, <1>7
    <3>2. QED
      BY <3>1, PartBytes
  <2> HIDE DEF t
  <2>2. ASSUME NEW j \in 1 .. v PROVE t[j] = bytes[j]
    <3>1. j \in Nat /\ 0 < j /\ j <= v /\ (hit + H) + j - 1 = e + j /\ e + j \in Nat /\ 0 < e + j
          /\ e + j <= Len(ring)
      BY <1>1, <1>2, <1>4, <1>7, <1>12
    <3>2. At(ring, e + j)
      BY <3>1 DEF At
    <3>3. Stream[e + j] = ring[e + j]
      BY <1>1, <3>2 DEF Extended
    <3>4. QED
      BY <1>11, <2>1, <3>1, <3>3
  <2>3. QED
    BY <1>7, <2>1, <2>2, SeqEqual
<1>16. QED
  BY <1>2, <1>7, <1>9, <1>12, <1>13, <1>14, <1>15 DEF hit, n, bytes, e, v

(* The parser cannot read a header: none that the module wrote.             *)
LEMMA StreamByte ==
  ASSUME StreamInv, SkipByte
  PROVE  StreamInv'
<1>1. PICK h \in Headers : ~ Readable(h)
  BY DEF SkipByte
<1>2. ring_consume(1) /\ UNCHANGED <<wire, sent, answers, delivered, cut>>
  BY DEF SkipByte, module, history
<1>3. 1 \in 0 .. Len(ring) /\ ring \in Seq(Symbol)
  <2>1. ring \in Seq(Symbol) /\ Len(ring) \in Nat
    BY StreamParts
  <2>2. 1 <= Len(ring)
    BY <2>1, HeadersType
  <2>3. QED
    BY <2>1, <2>2
<1>4. ASSUME Sound PROVE FALSE
  <2> DEFINE n == ring[h.hit].of
             v == Len(sent[n].bytes)
  <2>1. h.says = [link |-> 0, len |-> v] /\ n \in DOMAIN sent
    BY <1>4, HeaderFound
  <2>2. v \in Nat /\ 0 < v
    BY <2>1, StreamParts, FrameTypes DEF Sendable
  <2> HIDE DEF v
  <2>3. h.says.link = 0 /\ h.says.len = v
    BY <2>1
  <2>4. QED
    BY <1>1, <2>2, <2>3 DEF Readable
<1>5. /\ delivered' \in Seq(Delivery) /\ CutSets(cut', sent) /\ CutIn(cut) \subseteq CutIn(cut')
  BY <1>2, StreamParts DEF CutIn
<1>6. QED
  BY <1>2, <1>3, <1>4, <1>5, StreamDrop

(* What the parser consumes is in the ring.                                 *)
LEMMA FrameInRing ==
  ASSUME StreamInv, NEW h \in Headers, FrameAt(h)
  PROVE  /\ FrameEnd(h) \in 0 .. Len(ring)
         /\ Bytewise(SubSeq(ring, FrameStart(h) + 1, FrameStart(h) + h.says.len)) \in Seq(Octets)
         /\ Len(Bytewise(SubSeq(ring, FrameStart(h) + 1, FrameStart(h) + h.says.len))) = h.says.len
<1> DEFINE e == h.end
           v == h.says.len
<1>1. ring \in Seq(Symbol) /\ Len(ring) \in Nat
  BY StreamParts
<1>2. e \in Nat /\ v \in Nat
  BY <1>1, HeadersType
<1>3. e + v <= Len(ring)
  BY DEF FrameAt
<1>4. FrameEnd(h) = e + v /\ FrameStart(h) = e
  BY DEF FrameEnd, FrameStart
<1> HIDE DEF e, v
<1>5. e + v \in 0 .. Len(ring)
  BY <1>1, <1>2, <1>3
<1>6. /\ Bytewise(SubSeq(ring, e + 1, e + v)) \in Seq(Octets)
      /\ Len(Bytewise(SubSeq(ring, e + 1, e + v))) = v
  BY <1>1, <1>2, <1>3, PartBytes
<1>7. QED
  BY <1>4, <1>5, <1>6 DEF v

(* The parser drops a frame: in a sound stream, one that is too long.        *)
LEMMA StreamSkip ==
  ASSUME StreamInv, SkipFrame
  PROVE  StreamInv'
<1>1. PICK h \in Headers :
        /\ FrameAt(h) /\ (TooLong(h.says.len) \/ h.says.link # 0)
        /\ ring_consume(FrameEnd(h))
  BY DEF SkipFrame
<1>2. UNCHANGED <<wire, sent, answers, delivered, cut>>
  BY DEF SkipFrame, module, history
<1> DEFINE k == FrameEnd(h)
<1>3. k \in 0 .. Len(ring)
  BY <1>1, FrameInRing
<1>4. ASSUME Sound PROVE Settles(k, delivered', cut')
  <2> DEFINE n == ring[h.hit].of
  <2>1. /\ HeaderAt(Stream, h.hit) /\ Stream[h.hit].of = n /\ n \in DOMAIN sent
        /\ h.says.link = 0 /\ h.says.len = Len(sent[n].bytes)
        /\ \A i : HeaderAt(Stream, i) /\ i <= k => i = h.hit
        /\ \A i : At(Stream, i) /\ Stream[i].of = n /\ i + 1 = h.hit + Stream[i].at => i <= k
    BY <1>1, <1>4, FrameFound
  <2> HIDE DEF n, k
  <2>2. Sent(delivered, sent) /\ Ascending(delivered) /\ Older(delivered, Stream)
    BY <1>4 DEF StreamInv, Delivers
  <2>3. \A T : Dropped(T, Stream, k) => Older(delivered', T)
    BY <1>2, <2>2, OlderDropped
  <2>4. Gone(n, sent, delivered', cut')
    BY <1>1, <2>1 DEF Gone
  <2>5. \A i : HeaderAt(Stream, i) /\ i <= k => Gone(Stream[i].of, sent, delivered', cut')
    BY <2>1, <2>4
  <2>6. ASSUME NEW i, NEW j, At(Stream, i), k < i, HeaderAt(Stream, j), j <= k,
               Stream[j].of = Stream[i].of, i + 1 = j + Stream[i].at
        PROVE  FALSE
    <3>1. i <= k
      BY <2>1, <2>6
    <3>2. i \in Nat /\ k \in Nat
      BY <1>3, <2>6 DEF At
    <3>3. QED
      BY <2>6, <3>1, <3>2
  <2>7. QED
    BY <1>2, <2>2, <2>3, <2>5, <2>6 DEF Settles
<1>5. /\ delivered' \in Seq(Delivery) /\ CutSets(cut', sent) /\ CutIn(cut) \subseteq CutIn(cut')
  BY <1>2, StreamParts DEF CutIn
<1> HIDE DEF k
<1>6. ring_consume(k)
  BY <1>1 DEF k
<1>7. QED
  BY <1>2, <1>3, <1>4, <1>5, <1>6, StreamDrop

(* The parser delivers a frame.                                             *)
LEMMA StreamTake ==
  ASSUME StreamInv, TakeFrame
  PROVE  StreamInv'
<1>1. PICK h \in Headers :
        /\ FrameAt(h) /\ ring_consume(FrameEnd(h))
        /\ rx' = Bytewise(SubSeq(ring, FrameStart(h) + 1, FrameStart(h) + h.says.len))
        /\ delivered' = Append(delivered, [of |-> ring[h.hit].of, bytes |-> rx'])
  BY DEF TakeFrame
<1> DEFINE n == ring[h.hit].of
           k == FrameEnd(h)
           bytes == Bytewise(SubSeq(ring, FrameStart(h) + 1, FrameStart(h) + h.says.len))
           e == [of |-> n, bytes |-> bytes]
           d == Append(delivered, e)
           l == Len(delivered)
<1>2. k \in 0 .. Len(ring) /\ bytes \in Seq(Octets)
  BY <1>1, FrameInRing
<1>3. ring_consume(k) /\ delivered' = d /\ UNCHANGED <<wire, sent, answers, cut>>
  BY <1>1 DEF TakeFrame, module
<1>4. /\ delivered \in Seq(Delivery) /\ CutSets(cut, sent) /\ sent \in Seq(SentFrame)
      /\ StreamOK(Stream, sent) /\ ring \in Seq(Symbol)
  BY StreamParts
<1>5. n \in Int
  <2>1. h.hit \in DOMAIN ring
    <3>1. At(ring, h.hit)
      BY <1>4, HeadersFacts
    <3>2. QED
      BY <1>4, <3>1 DEF At
  <2>2. ring[h.hit] \in Symbol
    BY <1>4, <2>1
  <2> DEFINE O == Octets
             x == ring[h.hit]
  <2> HIDE DEF O, x
  <2>3. x \in [value : O, of : Int, at : Nat]
    BY <2>2 DEF Symbol, O, x
  <2>4. x.of \in Int
    BY <2>3
  <2>5. QED
    BY <2>4 DEF x
<1> HIDE DEF n, bytes
<1>6. e \in Delivery /\ e.of = n /\ e.bytes = bytes
  <2> DEFINE P == Seq(Octets)
  <2>1. bytes \in P
    BY <1>2
  <2> HIDE DEF P
  <2>2. e \in [of : Int, bytes : P]
    BY <1>5, <2>1
  <2>3. QED
    BY <2>2 DEF Delivery, P
<1> HIDE DEF e
<1>7. /\ d \in Seq(Delivery) /\ DOMAIN d = 1 .. l + 1 /\ d[l + 1] = e /\ l \in Nat
      /\ \A x \in DOMAIN d : (x \in DOMAIN delivered /\ d[x] = delivered[x]) \/ x = l + 1
      /\ \A x \in DOMAIN delivered : x \in DOMAIN d /\ d[x] = delivered[x]
      /\ DOMAIN delivered = 1 .. l
  <2>1. DOMAIN delivered = 1 .. l /\ l \in Nat
    BY <1>4
  <2>2. d \in Seq(Delivery) /\ DOMAIN d = 1 .. l + 1 /\ d[l + 1] = e
    BY <1>4, <1>6, AppendFacts
  <2>3. \A x \in 1 .. l : d[x] = delivered[x]
    BY <1>4, <1>6, AppendFacts
  <2> HIDE DEF d, l
  <2>4. \A x \in 1 .. l + 1 : x \in 1 .. l \/ x = l + 1
    BY <2>1
  <2>5. \A x \in 1 .. l : x \in 1 .. l + 1
    BY <2>1
  <2>6. QED
    BY <2>1, <2>2, <2>3, <2>4, <2>5
<1> HIDE DEF d, l, k
<1>8. ASSUME Sound PROVE Settles(k, d, cut)
  <2>0. Sent(delivered, sent) /\ Ascending(delivered) /\ Older(delivered, Stream)
    BY <1>8 DEF StreamInv, Delivers
  <2>1. /\ HeaderAt(Stream, h.hit) /\ Stream[h.hit].of = n /\ n \in DOMAIN sent /\ h.hit <= k
        /\ \A i : HeaderAt(Stream, i) /\ i <= k => i = h.hit
        /\ \A i : At(Stream, i) /\ Stream[i].of = n /\ i + 1 = h.hit + Stream[i].at => i <= k
        /\ bytes = sent[n].bytes
    BY <1>1, <1>8, FrameFound DEF n, k, bytes
  <2>2. Sent(d, sent)
    BY <1>6, <1>7, <2>0, <2>1 DEF Sent
  <2>3. Ascending(d)
    <3> SUFFICES ASSUME NEW x \in DOMAIN d, NEW y \in DOMAIN d, x < y
                 PROVE  d[x].of < d[y].of
      BY DEF Ascending
    <3>1. x \in DOMAIN delivered /\ d[x] = delivered[x]
      <4>1. x # l + 1
        BY <1>7
      <4>2. QED
        BY <1>7, <4>1
    <3>2. CASE y \in DOMAIN delivered /\ d[y] = delivered[y]
      BY <2>0, <3>1, <3>2 DEF Ascending
    <3>3. CASE y = l + 1
      BY <1>6, <1>7, <2>0, <2>1, <3>1, <3>3 DEF Older
    <3>4. QED
      BY <1>7, <3>2, <3>3
  <2>4. ASSUME NEW T, Dropped(T, Stream, k) PROVE Older(d, T)
    <3> SUFFICES ASSUME NEW x \in DOMAIN d, NEW i, HeaderAt(T, i)
                 PROVE  d[x].of < T[i].of
      BY DEF Older
    <3>1. HeaderAt(Stream, i + k) /\ T[i] = Stream[i + k] /\ k < i + k
      BY <2>4, HeaderDropped
    <3>2. CASE x \in DOMAIN delivered /\ d[x] = delivered[x]
      BY <2>0, <3>1, <3>2 DEF Older
    <3>3. CASE x = l + 1
      <4>1. h.hit < i + k
        <5>1. i + k \in Nat /\ h.hit \in Nat /\ k \in Nat
          BY <1>2, <2>1, <3>1 DEF HeaderAt, At
        <5>2. QED
          BY <2>1, <3>1, <5>1
      <4>2. Stream[h.hit].of < Stream[i + k].of
        BY <1>4, <2>1, <3>1, <4>1 DEF StreamOK
      <4>3. QED
        BY <1>6, <1>7, <2>1, <3>1, <3>3, <4>2
    <3>4. QED
      BY <1>7, <3>2, <3>3
  <2>5. \A m \in DOMAIN sent : Gone(m, sent, delivered, cut) => Gone(m, sent, d, cut)
    BY <1>7 DEF Gone
  <2>6. \A i : HeaderAt(Stream, i) /\ i <= k => Gone(Stream[i].of, sent, d, cut)
    <3>1. l + 1 \in DOMAIN d /\ d[l + 1].of = n
      BY <1>6, <1>7
    <3>2. Gone(n, sent, d, cut)
      BY <3>1 DEF Gone
    <3>3. QED
      BY <2>1, <3>2
  <2>7. ASSUME NEW i, NEW j, At(Stream, i), k < i, HeaderAt(Stream, j), j <= k,
               Stream[j].of = Stream[i].of, i + 1 = j + Stream[i].at
        PROVE  FALSE
    <3>1. i <= k
      BY <2>1, <2>7
    <3>2. i \in Nat /\ k \in Nat
      BY <1>2, <2>7 DEF At
    <3>3. QED
      BY <2>7, <3>1, <3>2
  <2>8. QED
    BY <2>2, <2>3, <2>4, <2>5, <2>6, <2>7 DEF Settles
<1>9. CutIn(cut) \subseteq CutIn(cut') /\ CutSets(cut', sent) /\ delivered' \in Seq(Delivery)
  BY <1>3, <1>4, <1>7 DEF CutIn
<1>10. Sound => Settles(k, delivered', cut')
  BY <1>3, <1>8
<1>11. ring_consume(k)
  BY <1>3
<1>12. QED
  BY <1>2, <1>3, <1>9, <1>10, <1>11, StreamDrop

(* The lines of the module are answers, and so is what follows one.         *)
LEMMA AnswerLines ==
  ASSUME NEW t \in {OkText, RecvText, SendOkText, ClosedText}
  PROVE  AnswerText(Line(t)) /\ 0 < Len(Line(t)) /\ Len(Line(t)) \in Nat
<1>1. /\ t \in Seq(Octets) /\ Len(t) \in Nat /\ 0 < Len(t)
      /\ \A i \in Nat : 0 < i /\ i <= Len(t) => t[i] # IpdText[1]
      /\ \A k \in DOMAIN IpdText : IpdText[k] # t[1]
  BY AnswerFacts
<1> DEFINE s == Line(t)
<1>2. t \in Seq(Octets) /\ NewLine \in Octets /\ NewLine # IpdText[1]
  BY <1>1, SpecialBytes, MarkFacts
<1>3. /\ s \in Seq(Octets) /\ Len(s) = Len(t) + 1 /\ s[Len(t) + 1] = NewLine
      /\ \A i \in 1 .. Len(t) : s[i] = t[i]
  BY <1>2, AppendFacts DEF Line
<1> HIDE DEF s
<1>4. ASSUME NEW k \in Nat, 0 < k, k <= Len(s) PROVE s[k] # IpdText[1]
  <2>1. k \in 1 .. Len(t) \/ k = Len(t) + 1
    BY <1>1, <1>3, <1>4
  <2>2. QED
    BY <1>1, <1>2, <1>3, <2>1
<1>5. s[1] = t[1]
  BY <1>1, <1>3
<1>6. AnswerText(s)
  BY <1>1, <1>3, <1>4, <1>5 DEF AnswerText
<1>7. QED
  BY <1>1, <1>3, <1>6 DEF s

(* An answer text with more such bytes behind it is one.                    *)
LEMMA AnswersJoin ==
  ASSUME NEW a, AnswerText(a), 0 < Len(a), NEW b \in Seq(Octets),
         \A k \in Nat : 0 < k /\ k <= Len(b) => b[k] # IpdText[1]
  PROVE  AnswerText(a \o b)
<1> DEFINE c == a \o b
<1>1. a \in Seq(Octets) /\ b \in Seq(Octets)
  BY DEF AnswerText
<1>2. /\ c \in Seq(Octets) /\ Len(a) \in Nat /\ Len(b) \in Nat /\ Len(c) = Len(a) + Len(b)
      /\ \A i \in Nat : 0 < i /\ i <= Len(a) => c[i] = a[i]
      /\ \A i \in Nat : 0 < i /\ i <= Len(b) => c[Len(a) + i] = b[i]
  BY <1>1, ConcatFacts
<1> HIDE DEF c
<1>3. ASSUME NEW k \in Nat, 0 < k, k <= Len(c) PROVE c[k] # IpdText[1]
  <2>1. CASE k <= Len(a)
    BY <1>2, <1>3, <2>1 DEF AnswerText
  <2>2. CASE Len(a) < k
    <3>1. PICK j \in Nat : 0 < j /\ j <= Len(b) /\ k = Len(a) + j
      <4>1. k - Len(a) \in Nat /\ 0 < k - Len(a) /\ k - Len(a) <= Len(b) /\ k = Len(a) + (k - Len(a))
        BY <1>2, <1>3, <2>2
      <4>2. QED
        BY <4>1
    <3>2. QED
      BY <1>2, <3>1
  <2>3. QED
    BY <1>2, <2>1, <2>2
<1>4. 1 \in Nat /\ 0 < 1 /\ 1 <= Len(a)
  BY <1>2
<1>5. c[1] = a[1]
  BY <1>2, <1>4
<1>6. QED
  BY <1>2, <1>3, <1>5 DEF AnswerText, c

(* The module asks for data.                                                *)
LEMMA StreamPrompts ==
  ASSUME StreamInv, PromptForData
  PROVE  StreamInv'
<1>1. answers \in Nat
  BY StreamParts
<1> DEFINE n == -answers'
           text == Line(OkText) \o <<Prompt>>
<1>2. answers' \in Nat /\ n \in Int /\ ~ (n > 0)
  BY <1>1 DEF PromptForData
<1>3. Emit(text, n) /\ UNCHANGED <<ring, sent, delivered, cut>>
  BY DEF PromptForData
<1>4. AnswerText(text)
  <2>1. <<Prompt>> \in Seq(Octets) /\ Len(<<Prompt>>) = 1 /\ <<Prompt>>[1] = Prompt
    BY SpecialBytes, OneFacts
  <2>2. Prompt # IpdText[1]
    BY MarkFacts
  <2> DEFINE p == <<Prompt>>
  <2>3. p \in Seq(Octets) /\ Len(p) = 1 /\ p[1] = Prompt
    BY <2>1
  <2> HIDE DEF p
  <2>4. \A k \in Nat : 0 < k /\ k <= Len(p) => p[k] # IpdText[1]
    <3>1. \A k \in Nat : 0 < k /\ k <= 1 => k = 1
      OBVIOUS
    <3>2. QED
      BY <2>2, <2>3, <3>1
  <2>5. AnswerText(Line(OkText)) /\ 0 < Len(Line(OkText))
    BY AnswerLines
  <2>6. AnswerText(Line(OkText) \o p)
    BY <2>3, <2>4, <2>5, AnswersJoin
  <2>7. QED
    BY <2>6 DEF p
<1> HIDE DEF n, text
<1>5. QED
  BY <1>2, <1>3, <1>4, StreamAnswer

(* The module confirms data.                                                *)
LEMMA StreamConfirms ==
  ASSUME StreamInv, ConfirmData
  PROVE  StreamInv'
<1>1. answers \in Nat
  BY StreamParts
<1> DEFINE n == -answers'
           a == Line(RecvText)
           b == Line(SendOkText)
<1>2. answers' \in Nat /\ n \in Int /\ ~ (n > 0)
  BY <1>1 DEF ConfirmData
<1>3. Emit(a \o b, n) /\ UNCHANGED <<ring, sent, delivered, cut>>
  BY DEF ConfirmData
<1>4. AnswerText(a) /\ 0 < Len(a) /\ AnswerText(b)
  BY AnswerLines
<1> HIDE DEF n, a, b
<1>5. AnswerText(a \o b)
  <2>1. b \in Seq(Octets) /\ \A k \in Nat : 0 < k /\ k <= Len(b) => b[k] # IpdText[1]
    BY <1>4 DEF AnswerText
  <2>2. QED
    BY <1>4, <2>1, AnswersJoin
<1>6. QED
  BY <1>2, <1>3, <1>5, StreamAnswer

(* The module says that the link is closed.                                 *)
LEMMA StreamCloses ==
  ASSUME StreamInv, LinkCloses
  PROVE  StreamInv'
<1>1. answers' \in Nat /\ UNCHANGED <<ring, sent, delivered, cut>>
  BY StreamParts DEF LinkCloses, history
<1>2. Emit(Line(ClosedText), 0) /\ 0 \in Int /\ ~ (0 > 0)
  BY DEF LinkCloses
<1>3. AnswerText(Line(ClosedText))
  BY AnswerLines
<1>4. QED
  BY <1>1, <1>2, <1>3, StreamAnswer

(* Nothing is in the stream at first.                                       *)
LEMMA StreamInit ==
  ASSUME Init
  PROVE  StreamInv
<1>1. /\ wire = << >> /\ ring = << >> /\ sent = << >> /\ delivered = << >> /\ answers = 0
      /\ cut = [wait |-> {}, line |-> {}]
  BY DEF Init
<1>2. Stream = << >> /\ Len(Stream) = 0
  <2>1. Stream = << >>
    BY <1>1, ConcatEmptySeq, EmptySeq DEF Stream
  <2>2. QED
    BY <2>1, EmptySeq
<1>3. \A i : ~ At(Stream, i) /\ ~ HeaderAt(Stream, i)
  BY <1>2 DEF At, HeaderAt
<1>4. /\ StreamOK(Stream, sent) /\ Older(delivered, Stream)
      /\ Whole(Stream, CutIn(cut))
  BY <1>3 DEF StreamOK, Older, Whole
<1>5. DOMAIN sent = {} /\ DOMAIN delivered = {}
  BY <1>1
<1>6. /\ Sent(delivered, sent) /\ Ascending(delivered) /\ FramesLeft(sent, delivered, cut, Stream)
      /\ Sendable(sent)
  BY <1>5 DEF Sent, Ascending, FramesLeft, Sendable
<1>7. CutSets(cut, sent)
  <2> DEFINE A == SUBSET DOMAIN sent
  <2>1. {} \in A
    OBVIOUS
  <2> HIDE DEF A
  <2>2. [wait |-> {}, line |-> {}] \in [wait : A, line : A]
    BY <2>1
  <2>3. QED
    BY <1>1, <2>2 DEF CutSets, A
<1>8. StreamTypes
  BY <1>1, <1>6, <1>7, EmptySeq DEF StreamTypes
<1>9. QED
  BY <1>4, <1>6, <1>8 DEF StreamInv, Delivers

(* A packet handled and a request leave the stream alone, and so do the      *)
(* rounds that find nothing.                                               *)
LEMMA StreamNext ==
  ASSUME StreamInv, [Next]_vars
  PROVE  StreamInv'
<1> USE DEF module, history, client
<1>1. CASE Loop
  BY <1>1, StreamStill DEF Loop
<1>2. CASE Request
  BY <1>2, StreamStill DEF Request
<1>3. CASE PromptSeen
  <2>1. at_wait_for(<<Prompt>>) /\ UNCHANGED <<wire, sent, answers, delivered>>
    BY <1>3 DEF PromptSeen
  <2>2. QED
    BY <2>1, StreamWait
<1>4. CASE SendOkSeen
  <2>1. at_wait_for(SendOkText) /\ UNCHANGED <<wire, sent, answers, delivered>>
    BY <1>4 DEF SendOkSeen
  <2>2. QED
    BY <2>1, StreamWait
<1>5. CASE WaitTimesOut
  BY <1>5, StreamStill DEF WaitTimesOut
<1>6. CASE NoFrame
  BY <1>6, StreamStill DEF NoFrame
<1>7. CASE SkipFrame
  BY <1>7, StreamSkip
<1>8. CASE TakeFrame
  BY <1>8, StreamTake
<1>9. CASE RxDone
  BY <1>9, StreamStill DEF RxDone
<1>10. CASE RxPacket
  BY <1>10, StreamStill DEF RxPacket
<1>11. CASE LineRound
  BY <1>11, StreamLine
<1>12. CASE LinesDone
  BY <1>12, StreamStill DEF LinesDone
<1>13. CASE PromptForData
  BY <1>13, StreamPrompts
<1>14. CASE ConfirmData
  BY <1>14, StreamConfirms
<1>15. CASE ForwardFrame
  BY <1>15, StreamFrame
<1>16. CASE LinkCloses
  BY <1>16, StreamCloses
<1>17. CASE Interrupt
  BY <1>17, StreamInterrupt
<1>18. CASE UNCHANGED vars
  BY <1>18, StreamStill DEF vars
<1>19. CASE SkipByte
  BY <1>19, StreamByte
<1>20. QED
  BY <1>1, <1>2, <1>3, <1>4, <1>5, <1>6, <1>7, <1>8, <1>9, <1>10, <1>11, <1>12, <1>13, <1>14,
     <1>15, <1>16, <1>17, <1>18, <1>19 DEF Next, mqtt_task, Module

(* The stream of the module stays in order: its bytes are those of the       *)
(* frames and answers written, one behind the other, wherever the first    *)
(* byte of a frame stands its whole frame follows, and until a frame that  *)
(* spells the mark is cut every other byte of a frame that has not been    *)
(* cut has its first one before it, and what was delivered is what was     *)
(* sent, in order, with nothing forgotten.                                 *)
THEOREM StreamInvariant == Spec => []StreamInv
<1>1. Init => StreamInv
  BY StreamInit
<1>2. StreamInv /\ [Next]_vars => StreamInv'
  BY StreamNext
<1>3. QED
  BY <1>1, <1>2, PTL DEF Spec

(* FramesIntact: whatever the waits and the line loop take from the ring,    *)
(* parse_ipd_frames gives the client frames of the broker, whole, in their *)
(* order and each at most once, until a frame that spells "+IPD," is cut.   *)
THEOREM FramesAreIntact == Spec => []FramesIntact
<1>1. StreamInv => FramesIntact
  BY DEF StreamInv, Delivers, Sent, Ascending, FramesIntact
<1>2. QED
  BY <1>1, StreamInvariant, PTL

(* A frame that is left in a sound stream is in one piece.                  *)
LEMMA PieceOfBlock ==
  ASSUME StreamInv, Sound, NEW n \in DOMAIN sent, n \notin CutIn(cut),
         NEW i, HeaderAt(Stream, i), Stream[i].of = n
  PROVE  InOnePiece(n)
<1> DEFINE text == FrameText(sent[n].bytes)
           frame == Sending(text, n)
           size == Size(sent, n)
           places == {k \in DOMAIN Stream : Stream[k].of = n}
<1>1. /\ Stream \in Seq(Symbol) /\ Len(Stream) \in Nat
      /\ sent \in Seq(SentFrame) /\ StreamOK(Stream, sent)
  BY StreamParts
<1>2. /\ i \in Nat /\ 0 < i /\ n \in Nat /\ n > 0
      /\ size \in Nat /\ i + size <= Len(Stream) + 1
      /\ \A k \in Nat : k < size =>
           /\ At(Stream, i + k) /\ Stream[i + k].of = n /\ Stream[i + k].at = k + 1
           /\ Stream[i + k] \in Symbol /\ Stream[i + k].value = text[k + 1]
  BY <1>1, HeaderBytes
<1>3. text \in Seq(Octets) /\ Len(text) = size
  <2>1. sent[n].bytes \in Seq(Octets)
    BY <1>1, FrameTypes
  <2>2. QED
    BY <2>1, FrameTextFacts DEF Framed, Size
<1>4. /\ frame \in Seq(Symbol) /\ Len(frame) = size
      /\ \A k \in Nat : 0 < k /\ k <= size =>
           frame[k] \in Symbol /\ frame[k].value = text[k] /\ frame[k].of = n /\ frame[k].at = k
  BY <1>2, <1>3, SendingFacts
<1>5. \A s, t \in Symbol : s.value = t.value /\ s.of = t.of /\ s.at = t.at => s = t
  <2> DEFINE O == Octets
  <2> HIDE DEF O
  <2>1. \A s, t \in [value : O, of : Int, at : Nat] :
          s.value = t.value /\ s.of = t.of /\ s.at = t.at => s = t
    OBVIOUS
  <2>2. QED
    BY <2>1 DEF Symbol, O
<1>6. 0 < size
  BY <1>1, SizeFacts
<1>7. ASSUME NEW j, HeaderAt(Stream, j), Stream[j].of = n PROVE j = i
  <2>1. j \in Nat
    BY <1>7 DEF HeaderAt, At
  <2>2. ~ (j < i) /\ ~ (i < j)
    <3>1. ~ (n < n)
      BY <1>2
    <3>2. QED
      BY <1>1, <1>7, <3>1 DEF StreamOK
  <2>3. QED
    BY <1>2, <2>1, <2>2
<1>8. ASSUME NEW k, At(Stream, k), Stream[k].of = n PROVE k \in i .. i + size - 1
  <2>1. PICK j : HeaderAt(Stream, j) /\ Stream[j].of = n /\ k + 1 = j + Stream[k].at
    <3>1. Whole(Stream, CutIn(cut))
      BY DEF StreamInv, Delivers
    <3>2. QED
      BY <1>2, <1>8, <3>1 DEF Whole
  <2>2. k + 1 = i + Stream[k].at
    BY <1>7, <2>1
  <2>3. InFrame(Stream[k], text)
    BY <1>1, <1>2, <1>8 DEF StreamOK, Proper
  <2>4. Stream[k].at \in Nat
    <3>1. Proper(Stream[k], sent)
      BY <1>1, <1>8 DEF StreamOK
    <3>2. QED
      BY <1>1, <3>1, ProperFacts
  <2>5. 0 < Stream[k].at /\ Stream[k].at <= size /\ k \in Nat
    BY <1>3, <1>8, <2>3 DEF InFrame, At
  <2>6. QED
    BY <1>2, <2>2, <2>4, <2>5
<1> HIDE DEF text, frame, size
<1>9. places = i .. i + size - 1
  <2>1. ASSUME NEW k \in i .. i + size - 1 PROVE k \in places
    <3>1. PICK j \in Nat : k = i + j /\ j < size
      <4>1. k - i \in Nat /\ k = i + (k - i) /\ k - i < size
        BY <1>2, <2>1
      <4>2. QED
        BY <4>1
    <3>2. At(Stream, k) /\ Stream[k].of = n
      BY <1>2, <3>1
    <3>3. k \in DOMAIN Stream
      BY <1>1, <3>2 DEF At
    <3>4. QED
      BY <3>2, <3>3
  <2>2. ASSUME NEW k \in places PROVE k \in i .. i + size - 1
    <3>1. k \in 1 .. Len(Stream) /\ Stream[k].of = n
      BY <1>1, <2>2
    <3>2. At(Stream, k)
      BY <1>1, <3>1 DEF At
    <3>3. QED
      BY <1>8, <3>1, <3>2
  <2>3. QED
    BY <2>1, <2>2
<1>10. i \in places
  BY <1>2, <1>6, <1>9
<1>11. SubSeq(Stream, i, i + size - 1) = frame
  <2>1. PICK p \in Nat : p + 1 = i
    <3>1. i - 1 \in Nat /\ (i - 1) + 1 = i
      BY <1>2
    <3>2. QED
      BY <3>1
  <2>2. i + size - 1 = p + size /\ p + size <= Len(Stream)
    BY <1>1, <1>2, <2>1
  <2>3. ASSUME NEW k \in Nat, 0 < k, k <= size PROVE Stream[p + k] = frame[k]
    <3>1. PICK m \in Nat : m + 1 = k
      <4>1. k - 1 \in Nat /\ (k - 1) + 1 = k
        BY <2>3
      <4>2. QED
        BY <4>1
    <3>2. m < size /\ p + k = i + m
      BY <1>2, <2>1, <2>3, <3>1
    <3>3. /\ Stream[i + m].of = n /\ Stream[i + m].at = k
          /\ Stream[i + m] \in Symbol /\ Stream[i + m].value = text[k]
      BY <1>2, <3>1, <3>2
    <3>4. frame[k] \in Symbol /\ frame[k].value = text[k] /\ frame[k].of = n /\ frame[k].at = k
      BY <1>4, <2>3
    <3>5. QED
      BY <1>5, <3>2, <3>3, <3>4
  <2>4. SubSeq(Stream, p + 1, p + Len(frame)) = frame
    <3>1. /\ Stream \in Seq(Symbol) /\ frame \in Seq(Symbol) /\ p + Len(frame) <= Len(Stream)
          /\ \A k \in Nat : 0 < k /\ k <= Len(frame) => Stream[p + k] = frame[k]
      BY <1>1, <1>4, <2>2, <2>3
    <3>2. QED
      BY <3>1, PartIs
  <2>5. QED
    BY <1>4, <2>1, <2>2, <2>4
<1>12. places = i .. i + Len(frame) - 1 /\ SubSeq(Stream, i, i + Len(frame) - 1) = frame
  BY <1>4, <1>9, <1>11
<1>13. QED
  BY <1>10, <1>12 DEF InOnePiece, Stream, frame, text

(* FramesKept: no frame is forgotten.  Until a frame that spells "+IPD," is   *)
(* cut, one that no wait and no line loop cut, that fits ipd_buf and has   *)
(* not been given to the client is still there, in one piece, in the ring  *)
(* or on its way into it.                                                  *)
THEOREM FramesAreKept == Spec => []FramesKept
<1>1. StreamInv => FramesKept
  <2> SUFFICES ASSUME StreamInv, Sound, NEW n \in DOMAIN sent,
                      ~ Gone(n, sent, delivered, cut)
               PROVE  InOnePiece(n)
    BY DEF FramesKept, Gone
  <2>1. FramesLeft(sent, delivered, cut, Stream) /\ n \notin CutIn(cut)
    BY DEF StreamInv, Delivers, Gone
  <2>2. PICK i : HeaderAt(Stream, i) /\ Stream[i].of = n
    BY <2>1 DEF FramesLeft
  <2>3. QED
    BY <2>1, <2>2, PieceOfBlock
<1>2. QED
  BY <1>1, StreamInvariant, PTL

-----------------------------------------------------------------------------
(* What has been cut stays cut, and the frames sent keep their bytes.       *)
LEMMA SoundBefore ==
  ASSUME StreamInv, [Next]_vars, Sound'
  PROVE  Sound
<1> USE DEF module, history, client
<1>1. CutIn(cut) \subseteq DOMAIN sent /\ CutSets(cut, sent) /\ sent \in Seq(SentFrame)
  BY StreamParts
<1>2. CutIn(cut) \subseteq CutIn(cut')
  <2> DEFINE D == SUBSET DOMAIN sent
  <2>1. cut \in [wait : D, line : D]
    BY <1>1 DEF CutSets
  <2> HIDE DEF D
  <2>2. CASE PromptSeen \/ SendOkSeen
    <3>1. \E needle : at_wait_for(needle)
      BY <2>2 DEF PromptSeen, SendOkSeen
    <3>2. PICK k \in 0 .. Len(ring) : cut' = [cut EXCEPT !.wait = @ \cup FramesOf(Upto(k))]
      BY <3>1, WaitTakes
    <3>3. cut'.wait = cut.wait \cup FramesOf(Upto(k)) /\ cut'.line = cut.line
      BY <2>1, <3>2
    <3>4. QED
      BY <3>3 DEF CutIn
  <2>3. CASE LineRound
    <3>1. PICK k \in 0 .. Len(ring) :
            cut' = [cut EXCEPT !.line = @ \cup (FramesOf(Upto(k)) \ cut.wait)]
      BY <2>3, LineTakes
    <3>2. cut'.line = cut.line \cup (FramesOf(Upto(k)) \ cut.wait) /\ cut'.wait = cut.wait
      BY <2>1, <3>1
    <3>3. QED
      BY <3>2 DEF CutIn
  <2>4. CASE ~ (PromptSeen \/ SendOkSeen \/ LineRound)
    <3>1. cut' = cut
      BY <2>4 DEF Next, mqtt_task, Module, Loop, Request, WaitTimesOut, NoFrame, SkipByte, SkipFrame,
                  TakeFrame, RxDone, RxPacket, LinesDone, PromptForData, ConfirmData, ForwardFrame,
                  LinkCloses, Interrupt, vars
    <3>2. QED
      BY <3>1
  <2>5. QED
    BY <2>2, <2>3, <2>4
<1>3. ASSUME NEW n \in DOMAIN sent PROVE sent'[n] = sent[n]
  <2>1. CASE ForwardFrame
    <3>1. PICK f \in Frames : sent' = Append(sent, [messages |-> f, bytes |-> Bytes(f)])
      BY <2>1 DEF ForwardFrame
    <3> DEFINE e == [messages |-> f, bytes |-> Bytes(f)]
    <3>2. e \in SentFrame
      BY FrameTyped
    <3> HIDE DEF e
    <3>3. \A i \in 1 .. Len(sent) : Append(sent, e)[i] = sent[i]
      BY <1>1, <3>2, AppendFacts
    <3>4. n \in 1 .. Len(sent)
      BY <1>1
    <3>5. QED
      BY <3>1, <3>3, <3>4 DEF e
  <2>2. CASE ~ ForwardFrame
    <3>1. sent' = sent
      BY <2>2 DEF Next, mqtt_task, Module, Loop, Request, PromptSeen, SendOkSeen, WaitTimesOut, NoFrame,
                  SkipByte, SkipFrame, TakeFrame, RxDone, RxPacket, LineRound, LinesDone,
                  PromptForData, ConfirmData, LinkCloses, Interrupt, vars
    <3>2. QED
      BY <3>1
  <2>3. QED
    BY <2>1, <2>2
<1>4. ASSUME NEW n \in CutIn(cut) PROVE ~ SpellsMark(sent[n].bytes)
  <2>1. n \in CutIn(cut') /\ sent'[n] = sent[n]
    BY <1>1, <1>2, <1>3, <1>4
  <2>2. ~ SpellsMark(sent'[n].bytes)
    BY <2>1 DEF Sound
  <2>3. QED
    BY <2>1, <2>2
<1>5. QED
  BY <1>4 DEF Sound

-----------------------------------------------------------------------------
(* Types of the client and of the module's state.                          *)
Modes == {"command", "prompting", "data", "sending"}
Places == {"idle", "parse", "line", "rx", "prompt", "sendok"}
Callers == {"idle", "rx"}

ModuleTypes == mode \in Modes /\ want \in Nat /\ up \in BOOLEAN
SendTypes == pc \in Places /\ packet \in Seq(Octets) /\ back \in Callers
FrameType(r) == r \in Seq(Octets) /\ Len(r) <= IpdSize
CountTypes ==
  /\ sends \in 0 .. MaxSends /\ s_next_packet_id \in 1 .. U16Max
  /\ Len(sent) <= MaxFrames

ClientTypes == ModuleTypes /\ SendTypes /\ FrameType(rx) /\ CountTypes

(* The type invariant in the parts the steps below keep.                    *)
LEMMA TypesAreClientTypes ==
  ASSUME StreamInv
  PROVE  TypeOK <=> ClientTypes
<1>1. cut.wait \cup cut.line \subseteq DOMAIN sent
  <2>1. CutSets(cut, sent)
    BY StreamParts
  <2> DEFINE A == DOMAIN sent
  <2> HIDE DEF A
  <2>2. cut \in [wait : SUBSET A, line : SUBSET A]
    BY <2>1 DEF CutSets, A
  <2>3. cut.wait \subseteq A /\ cut.line \subseteq A
    BY <2>2
  <2>4. QED
    BY <2>3 DEF A
<1>2. QED
  BY <1>1, Zenon DEF TypeOK, ClientTypes, ModuleTypes, SendTypes, FrameType, CountTypes, Modes, Places, Callers

(* A module in data mode never wants less than nothing.                     *)
LEMMA TakeDataTypes ==
  ASSUME ModuleTypes, NEW bytes, Len(bytes) \in Nat, TakeData(bytes)
  PROVE  mode' \in Modes /\ want' \in Nat
<1>1. CASE Len(bytes) < want
  BY <1>1 DEF TakeData, ModuleTypes
<1>2. CASE ~ (Len(bytes) < want)
  BY <1>2 DEF TakeData, Modes
<1>3. QED
  BY <1>1, <1>2

(* esp8266_tcp_send, from the loop or from inside the callback.             *)
LEMMA SendingTypes ==
  ASSUME ModuleTypes, NEW bytes \in Seq(Octets), NEW caller \in Callers, tcp_send(bytes, caller),
         up' = up
  PROVE  ModuleTypes' /\ SendTypes'
<1>1. pc' \in Places /\ packet' \in Seq(Octets) /\ back' \in Callers
  BY DEF tcp_send, Places
<1>2. Len(CommandLine) \in Nat
  <2>1. CommandLine \in [1 .. 16 -> Nat] /\ 16 \in Nat
    BY DEF CommandLine
  <2>2. Len(CommandLine) = 16
    BY <2>1, FunctionFacts
  <2>3. QED
    BY <2>1, <2>2
<1>3. mode' \in Modes /\ want' \in Nat
  <2>1. CASE mode = "data"
    BY <1>2, <2>1, TakeDataTypes DEF tcp_send
  <2>2. CASE mode = "command" /\ up
    <3>1. mode' = "prompting" /\ want' = Len(bytes)
      BY <2>2 DEF tcp_send
    <3>2. Len(bytes) \in Nat
      OBVIOUS
    <3>3. QED
      BY <3>1, <3>2 DEF Modes
  <2>3. CASE mode # "data" /\ ~ (mode = "command" /\ up)
    BY <2>3 DEF tcp_send, ModuleTypes
  <2>4. QED
    BY <2>1, <2>2, <2>3
<1>4. QED
  BY <1>1, <1>3 DEF ModuleTypes, SendTypes

(* What the module sends, and the waits, change few of these.               *)
LEMMA StillTypes ==
  ASSUME ClientTypes,
         UNCHANGED <<mode, want, up, packet, back, rx, sends, s_next_packet_id, sent>>,
         pc' \in Places
  PROVE  ClientTypes'
  BY DEF ClientTypes, ModuleTypes, SendTypes, FrameType, CountTypes

(* Steps of the module.                                                     *)
LEMMA ModuleStepTypes ==
  ASSUME ClientTypes, StreamInv, Module
  PROVE  ClientTypes'
<1> USE DEF client, history
<1>1. CASE PromptForData
  BY <1>1 DEF PromptForData, ClientTypes, ModuleTypes, SendTypes, FrameType, CountTypes, Modes
<1>2. CASE ConfirmData
  BY <1>2 DEF ConfirmData, ClientTypes, ModuleTypes, SendTypes, FrameType, CountTypes, Modes
<1>3. CASE ForwardFrame
  <2>1. Len(sent') <= MaxFrames
    <3>1. sent \in Seq(SentFrame) /\ Len(sent) < MaxFrames /\ MaxFrames \in Nat
      BY <1>3, ChannelAssumption DEF ForwardFrame, StreamInv, StreamTypes
    <3>2. PICK f \in Frames : sent' = Append(sent, [messages |-> f, bytes |-> Bytes(f)])
      BY <1>3 DEF ForwardFrame
    <3> DEFINE e == [messages |-> f, bytes |-> Bytes(f)]
    <3>3. e \in SentFrame
      BY FrameTyped
    <3> HIDE DEF e
    <3>4. Len(sent') = Len(sent) + 1 /\ Len(sent) \in Nat
      BY <3>1, <3>2, <3>3, AppendFacts DEF e
    <3>5. QED
      BY <3>1, <3>4
  <2>2. UNCHANGED <<mode, want, up, client>>
    BY <1>3 DEF ForwardFrame
  <2>3. QED
    BY <2>1, <2>2 DEF ClientTypes, ModuleTypes, SendTypes, FrameType, CountTypes
<1>4. CASE LinkCloses
  BY <1>4 DEF LinkCloses, ClientTypes, ModuleTypes, SendTypes, FrameType, CountTypes, Modes
<1>5. QED
  BY <1>1, <1>2, <1>3, <1>4 DEF Module

(* The waits of esp8266_tcp_send.                                           *)
LEMMA WaitTypes ==
  ASSUME ClientTypes, PromptSeen \/ SendOkSeen \/ WaitTimesOut
  PROVE  ClientTypes'
<1> USE DEF module, history
<1>1. CASE PromptSeen
  <2>1. UNCHANGED <<up, packet, back, rx, sends, s_next_packet_id, sent>> /\ pc' = "sendok"
    BY <1>1 DEF PromptSeen
  <2>2. ModuleTypes /\ packet \in Seq(Octets)
    BY DEF ClientTypes, SendTypes
  <2>3. mode' \in Modes /\ want' \in Nat
    <3>1. CASE mode = "data"
      <4>1. TakeData(packet)
        BY <1>1, <3>1 DEF PromptSeen
      <4>2. Len(packet) \in Nat
        BY <2>2
      <4>3. QED
        BY <2>2, <4>1, <4>2, TakeDataTypes
    <3>2. CASE mode # "data"
      BY <1>1, <2>2, <3>2 DEF PromptSeen, ModuleTypes
    <3>3. QED
      BY <3>1, <3>2
  <2>4. QED
    BY <2>1, <2>3 DEF ClientTypes, ModuleTypes, SendTypes, FrameType, CountTypes, Places
<1>2. CASE SendOkSeen
  <2>1. pc' \in Places
    BY <1>2 DEF SendOkSeen, ClientTypes, SendTypes, Places, Callers
  <2>2. QED
    BY <1>2, <2>1, StillTypes DEF SendOkSeen
<1>3. CASE WaitTimesOut
  <2>1. pc' \in Places
    BY <1>3 DEF WaitTimesOut, ClientTypes, SendTypes, Places, Callers
  <2>2. QED
    BY <1>3, <2>1, StillTypes DEF WaitTimesOut
<1>4. QED
  BY <1>1, <1>2, <1>3

(* The parser: what it takes fits ipd_buf.                                  *)
LEMMA ParserTypes ==
  ASSUME ClientTypes, StreamInv, Loop \/ NoFrame \/ SkipByte \/ SkipFrame \/ TakeFrame
  PROVE  ClientTypes'
<1> USE DEF module, history, client
<1>1. CASE Loop
  BY <1>1, StillTypes DEF Loop, Places
<1>2. CASE NoFrame
  BY <1>2, StillTypes DEF NoFrame, Places
<1>3. CASE SkipFrame
  <2>1. pc' \in Places
    BY <1>3 DEF SkipFrame, ClientTypes, SendTypes
  <2>2. QED
    BY <1>3, <2>1, StillTypes DEF SkipFrame
<1>4. CASE SkipByte
  <2>1. pc' \in Places
    BY <1>4 DEF SkipByte, ClientTypes, SendTypes
  <2>2. QED
    BY <1>4, <2>1, StillTypes DEF SkipByte
<1>5. CASE TakeFrame
  <2>1. PICK h \in Headers :
          /\ FrameAt(h) /\ ~ TooLong(h.says.len)
          /\ rx' = Bytewise(SubSeq(ring, FrameStart(h) + 1, FrameStart(h) + h.says.len))
    BY <1>5 DEF TakeFrame
  <2> DEFINE dlen == h.says.len
  <2>2. rx' \in Seq(Octets) /\ Len(rx') = dlen
    BY <2>1, FrameInRing
  <2>3. dlen \in Nat
    BY HeadersType, StreamParts
  <2>4. ~ (dlen > IpdSize) /\ IpdSize \in Nat
    BY <2>1, ChannelAssumption DEF TooLong
  <2> HIDE DEF dlen
  <2>5. FrameType(rx')
    BY <2>2, <2>3, <2>4 DEF FrameType
  <2>6. UNCHANGED <<mode, want, up, packet, back, sends, s_next_packet_id, sent>> /\ pc' = "rx"
    BY <1>5 DEF TakeFrame
  <2>7. QED
    BY <2>5, <2>6 DEF ClientTypes, ModuleTypes, SendTypes, CountTypes, Places
<1>6. QED
  BY <1>1, <1>2, <1>3, <1>4, <1>5

(* The line loop.                                                           *)
LEMMA LineTypes ==
  ASSUME ClientTypes, LineRound \/ LinesDone
  PROVE  ClientTypes'
<1> USE DEF module, history
<1>1. CASE LineRound
  <2>1. UNCHANGED <<mode, want, up, packet, back, rx, sends, s_next_packet_id, sent>>
    BY <1>1 DEF LineRound
  <2>2. pc' \in Places
    BY <1>1 DEF LineRound, ClientTypes, SendTypes
  <2>3. QED
    BY <2>1, <2>2, StillTypes
<1>2. CASE LinesDone
  BY <1>2, StillTypes DEF LinesDone, Places
<1>3. QED
  BY <1>1, <1>2

(* handle_rx and the callback, which may send an acknowledgement.           *)
LEMMA HandlingTypes ==
  ASSUME ClientTypes, RxDone \/ RxPacket
  PROVE  ClientTypes'
<1> USE DEF module, history
<1>1. CASE RxDone
  BY <1>1, StillTypes DEF RxDone, Places
<1>2. CASE RxPacket
  <2> DEFINE first == FirstPacket(rx)
             m == IF first.type = PUBLISH THEN handle_publish(first.bytes) ELSE NoMessage
  <2>1. /\ rx' = SubSeq(rx, Len(first.bytes) + 1, Len(rx))
        /\ IF NeedsAck(m) THEN tcp_send(build_puback(m.pid), "rx")
                          ELSE UNCHANGED <<pc, packet, back, mode, want, uplink>>
    BY <1>2 DEF RxPacket
  <2>2. UNCHANGED <<up, sends, s_next_packet_id, sent>>
    BY <1>2 DEF RxPacket
  <2>3. rx \in Seq(Octets) /\ Len(rx) <= IpdSize /\ IpdSize \in Nat /\ ModuleTypes /\ SendTypes
    BY ChannelAssumption DEF ClientTypes, FrameType
  <2>4. first.bytes \in Seq(Octets) /\ Len(first.bytes) \in 0 .. Len(rx)
    BY <2>3, FirstPacketType
  <2>5. m.pid \in U16
    <3>1. handle_publish(first.bytes).pid \in U16
      BY <2>4, HandledType
    <3>2. NoMessage.pid \in U16
      BY U16Is DEF NoMessage, Fits
    <3>3. QED
      BY <3>1, <3>2
  <2> HIDE DEF m
  <2>6. FrameType(rx')
    <3> DEFINE k == Len(first.bytes)
    <3> HIDE DEF k
    <3>1. SubSeq(rx, k + 1, Len(rx)) \in Seq(Octets) /\ Len(SubSeq(rx, k + 1, Len(rx))) = Len(rx) - k
      BY <2>3, <2>4, DropFacts DEF k
    <3>2. Len(rx) - k <= IpdSize
      BY <2>3, <2>4 DEF k
    <3>3. QED
      BY <2>1, <3>1, <3>2 DEF FrameType, k
  <2>7. ModuleTypes' /\ SendTypes'
    <3>1. CASE NeedsAck(m)
      <4>1. tcp_send(build_puback(m.pid), "rx")
        BY <2>1, <3>1
      <4>2. build_puback(m.pid) \in Seq(Octets) /\ "rx" \in Callers
        BY <2>5, PubackFacts DEF Callers
      <4>3. QED
        BY <2>2, <2>3, <4>1, <4>2, SendingTypes
    <3>2. CASE ~ NeedsAck(m)
      BY <2>1, <2>2, <2>3, <3>2 DEF ModuleTypes, SendTypes
    <3>3. QED
      BY <3>1, <3>2
  <2>8. QED
    BY <2>2, <2>6, <2>7 DEF ClientTypes, CountTypes
<1>3. QED
  BY <1>1, <1>2

(* A request: packet ids go from 1 to the largest and back to 1.            *)
LEMMA RequestTypes ==
  ASSUME ClientTypes, Request
  PROVE  ClientTypes'
<1>1. PICK r \in Requests :
        /\ s_next_packet_id' = IF TakesPacketId(r) THEN 1 + (s_next_packet_id % U16Max)
                                                   ELSE s_next_packet_id
        /\ IF Build(r, s_next_packet_id) = << >>
           THEN UNCHANGED <<pc, packet, back, mode, want, uplink>>
           ELSE tcp_send(Build(r, s_next_packet_id), "idle")
  BY DEF Request
<1>2. sends' = sends + 1 /\ sends < MaxSends /\ UNCHANGED <<up, rx, sent>>
  BY DEF Request
<1>3. ModuleTypes /\ SendTypes /\ FrameType(rx) /\ CountTypes
  BY DEF ClientTypes
<1>4. MaxSends \in Nat /\ U16Max \in Nat \ {0}
  BY ChannelAssumption, U16Is
<1>5. s_next_packet_id \in 1 .. U16Max
  BY <1>3 DEF CountTypes
<1>6. s_next_packet_id' \in 1 .. U16Max
  BY <1>1, <1>4, <1>5
<1>7. sends' \in 0 .. MaxSends
  BY <1>2, <1>3, <1>4 DEF CountTypes
<1>8. Build(r, s_next_packet_id) \in Seq(Octets)
  <2>1. s_next_packet_id \in U16
    BY <1>4, <1>5 DEF U16
  <2>2. QED
    BY <2>1, BuildType DEF OtherPacket
<1>9. ModuleTypes' /\ SendTypes'
  <2> DEFINE b == Build(r, s_next_packet_id)
  <2> HIDE DEF b
  <2>1. CASE b = << >>
    BY <1>1, <1>2, <1>3, <2>1 DEF ModuleTypes, SendTypes, b
  <2>2. CASE b # << >>
    <3>1. tcp_send(b, "idle") /\ "idle" \in Callers /\ b \in Seq(Octets)
      BY <1>1, <1>8, <2>2 DEF b, Callers
    <3>2. QED
      BY <1>2, <1>3, <3>1, SendingTypes
  <2>3. QED
    BY <2>1, <2>2
<1>10. QED
  BY <1>2, <1>3, <1>6, <1>7, <1>9 DEF ClientTypes, CountTypes, FrameType

(* The initial state has these types.                                       *)
LEMMA TypesInit ==
  ASSUME Init
  PROVE  ClientTypes
<1>1. /\ 0 \in 0 .. MaxSends /\ 1 \in 1 .. U16Max /\ 0 <= IpdSize /\ 0 <= MaxFrames
  BY ChannelAssumption, U16Is
<1>2. << >> \in Seq(Octets) /\ Len(<< >>) = 0
  BY EmptySeq
<1>3. QED
  BY <1>1, <1>2 DEF Init, ClientTypes, ModuleTypes, SendTypes, FrameType, CountTypes,
                    Modes, Places, Callers

(* Every step keeps these types.                                            *)
LEMMA TypesNext ==
  ASSUME ClientTypes, StreamInv, [Next]_vars
  PROVE  ClientTypes'
<1>1. CASE Interrupt
  <2>1. pc' \in Places
    BY <1>1 DEF Interrupt, ClientTypes, SendTypes, client
  <2>2. QED
    BY <1>1, <2>1, StillTypes DEF Interrupt, client, history
<1>2. CASE UNCHANGED vars
  <2>1. pc' \in Places
    BY <1>2 DEF vars, ClientTypes, SendTypes, client
  <2>2. QED
    BY <1>2, <2>1, StillTypes DEF vars, client, history, module
<1>3. QED
  BY <1>1, <1>2, ModuleStepTypes, WaitTypes, ParserTypes, LineTypes, HandlingTypes, RequestTypes
     DEF Next, mqtt_task

(* Types: the frame being handled fits ipd_buf and packet ids are never 0,   *)
(* whatever mqtt_task sends and the broker answers.                        *)
THEOREM ChannelTypes == Spec => []TypeOK
<1>1. Init => ClientTypes
  BY TypesInit
<1>2. ClientTypes /\ StreamInv /\ [Next]_vars => ClientTypes'
  BY TypesNext
<1>3. ClientTypes /\ StreamInv => TypeOK
  BY TypesAreClientTypes
<1>4. QED
  BY <1>1, <1>2, <1>3, StreamInvariant, PTL DEF Spec

-----------------------------------------------------------------------------
(* What is written is read back.                                           *)
Field(n, w) == mqtt_encode_len(n) \o w
Read(n, k, w) ==
  /\ EndsAt(Field(n, w), k) /\ Len(mqtt_encode_len(n)) = k
  /\ Decoded(Field(n, w), k).value = n

(* The field of a number and what follows are bytes.                        *)
LEMMA FieldType ==
  ASSUME NEW n \in Nat, NEW w \in Seq(Octets)
  PROVE  Field(n, w) \in Seq(Octets) /\ Len(mqtt_encode_len(n)) \in Nat \ {0}
<1>1. mqtt_encode_len(n) \in Seq(Octets) /\ mqtt_encode_len(n) # << >>
  BY EncodeType
<1> DEFINE e == mqtt_encode_len(n)
<1> HIDE DEF e
<1>2. e \in Seq(Octets) /\ e # << >>
  BY <1>1 DEF e
<1>3. e \o w \in Seq(Octets) /\ Len(e) \in Nat
  BY <1>2, ConcatType
<1>4. Len(e) # 0
  BY <1>2, EmptySeq
<1>5. QED
  BY <1>3, <1>4 DEF Field, e

(* A number of one digit is read back.                                      *)
LEMMA ReadOne ==
  ASSUME NEW n \in Nat, n < LenBase, NEW w \in Seq(Octets)
  PROVE  Read(n, 1, w)
<1> DEFINE s == Field(n, w)
<1>1. /\ Len(mqtt_encode_len(n)) = 1 /\ s[1] = n /\ Len(s) = 1 + Len(w)
  BY EncodeStep DEF LastDigit, Field
<1>2. s \in Seq(Octets) /\ Len(s) \in Nat /\ Len(w) \in Nat
  BY FieldType
<1> HIDE DEF s
<1>3. EndsAt(s, 1)
  BY <1>1, <1>2 DEF EndsAt
<1>4. n % LenBase = n
  BY DigitFacts
<1>5. DigitOf(s, 1, 1) = n /\ DigitOf(s, 1, 2) = 0 /\ DigitOf(s, 1, 3) = 0 /\ DigitOf(s, 1, 4) = 0
  BY <1>1, <1>4 DEF DigitOf
<1>6. Decoded(s, 1).value = n
  <2>1. Decoded(s, 1).value = n + LenBase * (0 + LenBase * (0 + LenBase * 0))
    BY <1>5 DEF Decoded
  <2>2. QED
    BY <2>1, BaseFacts
<1>7. QED
  BY <1>1, <1>3, <1>6 DEF Read, s

(* With one digit more in front.                                            *)
LEMMA ReadMore ==
  ASSUME NEW n \in Nat, n >= LenBase, NEW w \in Seq(Octets), NEW k \in 1 .. 3,
         Read(n \div LenBase, k, w)
  PROVE  Read(n, k + 1, w)
<1> DEFINE q == n \div LenBase
           r == n % LenBase
           s == Field(q, w)
           t == Field(n, w)
<1>1. q \in Nat /\ r \in Nat /\ r < LenBase /\ n = LenBase * q + r
  BY SmallerQuotient
<1>2. EndsAt(s, k) /\ Len(mqtt_encode_len(q)) = k /\ Decoded(s, k).value = q
  BY DEF Read
<1>3. /\ Len(mqtt_encode_len(n)) = k + 1 /\ Len(t) = Len(s) + 1 /\ t[1] = r + LenBase
      /\ \A i \in 1 .. Len(s) : t[i + 1] = s[i]
  BY <1>2, EncodeStep DEF MoreDigits, Field
<1>4. s \in Seq(Octets) /\ t \in Seq(Octets)
  BY <1>1, FieldType
<1>5. Len(s) \in Nat
  BY <1>4
<1> HIDE DEF q, r, s, t
<1>6. r % LenBase = r /\ (r + LenBase) % LenBase = r /\ ~ (r + LenBase < LenBase)
  BY <1>1, DigitFacts
<1>7. \A i \in Nat : 0 < i /\ i <= k => t[i + 1] = s[i]
  <2>1. k \in Nat /\ k <= Len(s)
    BY <1>2 DEF EndsAt
  <2>2. \A i \in Nat : 0 < i /\ i <= k => i \in 1 .. Len(s)
    BY <1>5, <2>1
  <2>3. QED
    BY <1>3, <2>2
<1>8. EndsAt(t, k + 1)
  <2>1. k + 1 \in Nat /\ 0 < k + 1 /\ k + 1 <= 4 /\ k + 1 <= Len(t)
    BY <1>2, <1>3, <1>5 DEF EndsAt
  <2>2. t[k + 1] < LenBase
    BY <1>2, <1>7 DEF EndsAt
  <2>3. ASSUME NEW j \in Nat, 0 < j, j < k + 1 PROVE ~ (t[j] < LenBase)
    <3>1. CASE j = 1
      BY <1>3, <1>6, <3>1
    <3>2. CASE j # 1
      <4>1. PICK i \in Nat : i = j - 1 /\ j = i + 1 /\ 0 < i /\ i < k /\ i <= k
        <5>1. j - 1 \in Nat /\ j = j - 1 + 1 /\ 0 < j - 1 /\ j - 1 < k /\ j - 1 <= k
          BY <2>3, <3>2
        <5>2. QED
          BY <5>1
      <4>2. ~ (s[i] < LenBase)
        BY <1>2, <4>1 DEF EndsAt
      <4>3. QED
        BY <1>7, <4>1, <4>2
    <3>3. QED
      BY <3>1, <3>2
  <2>4. QED
    BY <2>1, <2>2, <2>3 DEF EndsAt
<1>9. DigitOf(t, k + 1, 1) = r
  BY <1>3, <1>6 DEF DigitOf
<1>10. ASSUME NEW i \in Nat, 0 < i PROVE DigitOf(t, k + 1, i + 1) = DigitOf(s, k, i)
  <2>1. i + 1 <= k + 1 <=> i <= k
    OBVIOUS
  <2>2. i <= k => t[i + 1] = s[i]
    BY <1>7, <1>10
  <2>3. QED
    BY <2>1, <2>2 DEF DigitOf
<1> DEFINE a == DigitOf(s, k, 1)
           b == DigitOf(s, k, 2)
           c == DigitOf(s, k, 3)
           d == DigitOf(s, k, 4)
<1>11. DigitOf(t, k + 1, 2) = a /\ DigitOf(t, k + 1, 3) = b /\ DigitOf(t, k + 1, 4) = c
  <2>1. /\ DigitOf(t, k + 1, 1 + 1) = a /\ DigitOf(t, k + 1, 2 + 1) = b
        /\ DigitOf(t, k + 1, 3 + 1) = c
    BY <1>10
  <2>2. QED
    BY <2>1
<1>12. d = 0
  BY DEF DigitOf
<1>13. a \in Nat /\ b \in Nat /\ c \in Nat
  <2>1. ASSUME NEW i \in Nat, 0 < i PROVE DigitOf(s, k, i) \in Nat
    <3>1. CASE i <= k
      <4>1. i \in 1 .. Len(s)
        BY <1>2, <1>5, <2>1, <3>1 DEF EndsAt
      <4>2. s[i] \in Nat
        BY <1>4, <4>1, OctetIs
      <4>3. QED
        BY <3>1, <4>2, SmallerQuotient DEF DigitOf
    <3>2. CASE ~ (i <= k)
      BY <3>2 DEF DigitOf
    <3>3. QED
      BY <3>1, <3>2
  <2>2. QED
    BY <2>1
<1>14. q = a + LenBase * (b + LenBase * (c + LenBase * d))
  BY <1>2 DEF Decoded
<1>15. Decoded(t, k + 1).value = r + LenBase * (a + LenBase * (b + LenBase * c))
  BY <1>9, <1>11 DEF Decoded
<1> HIDE DEF a, b, c, d
<1>16. c + LenBase * d = c
  BY <1>12, <1>13, BaseFacts
<1>17. Decoded(t, k + 1).value = r + LenBase * q
  BY <1>14, <1>15, <1>16
<1>18. r + LenBase * q = n
  <2> DEFINE x == LenBase * q
  <2>1. x \in Nat
    BY <1>1, BaseFacts
  <2> HIDE DEF x
  <2>2. QED
    BY <1>1, <2>1 DEF x
<1>19. QED
  BY <1>3, <1>8, <1>17, <1>18 DEF Read, t

(* A quotient of a number below a product.                                  *)
LEMMA QuotientBelow ==
  ASSUME NEW n \in Nat, NEW x \in Nat, n < LenBase * x
  PROVE  n \div LenBase < x
<1> DEFINE q == n \div LenBase
           r == n % LenBase
<1>1. q \in Nat /\ r \in Nat /\ n = LenBase * q + r
  BY SmallerQuotient
<1> HIDE DEF q, r
<1>2. SUFFICES ASSUME ~ (q < x) PROVE FALSE
  BY DEF q
<1>3. PICK d \in Nat : q = x + d
  <2>1. q - x \in Nat /\ q = x + (q - x)
    BY <1>1, <1>2
  <2>2. QED
    BY <2>1
<1>4. LenBase * q = LenBase * x + LenBase * d
  BY <1>3, BaseFacts
<1>5. LenBase * x \in Nat /\ LenBase * d \in Nat
  BY <1>3, BaseFacts
<1>6. QED
  BY <1>1, <1>4, <1>5

(* mqtt_decode_len reads back what mqtt_encode_len wrote, whatever follows,  *)
(* for every length of at most four digits.                                *)
THEOREM LengthsReadBackAll ==
  ASSUME NEW n \in Nat, n < LenBase * (LenBase * (LenBase * LenBase)), NEW w \in Seq(Octets)
  PROVE  mqtt_decode_len(mqtt_encode_len(n) \o w)
           = [ok |-> TRUE, value |-> n, bytes |-> Len(mqtt_encode_len(n))]
<1> DEFINE b == LenBase
           bb == LenBase * LenBase
           bbb == LenBase * (LenBase * LenBase)
<1>1. b \in Nat /\ bb \in Nat /\ bbb \in Nat
  <2>1. LenBase \in Nat
    BY BaseFacts
  <2>2. \A x \in Nat : LenBase * x \in Nat
    BY <2>1
  <2>3. QED
    BY <2>1, <2>2
<1>2. ASSUME NEW m \in Nat, m < bb PROVE \E k \in 1 .. 2 : Read(m, k, w)
  <2>1. CASE m < LenBase
    BY <2>1, ReadOne
  <2>2. CASE ~ (m < LenBase)
    <3> DEFINE q == m \div LenBase
    <3>1. q \in Nat /\ q < LenBase /\ m >= LenBase
      BY <1>1, <1>2, <2>2, QuotientBelow, SmallerQuotient
    <3>2. Read(q, 1, w)
      BY <3>1, ReadOne
    <3> HIDE DEF q
    <3>3. Read(m, 1 + 1, w)
      <4>1. 1 \in 1 .. 3
        OBVIOUS
      <4>2. QED
        BY <3>1, <3>2, <4>1, ReadMore DEF q
    <3>4. QED
      BY <3>3
  <2>3. QED
    BY <2>1, <2>2
<1>3. ASSUME NEW m \in Nat, m < bbb PROVE \E k \in 1 .. 3 : Read(m, k, w)
  <2>1. CASE m < LenBase
    BY <2>1, ReadOne
  <2>2. CASE ~ (m < LenBase)
    <3> DEFINE q == m \div LenBase
    <3>1. q \in Nat /\ q < bb /\ m >= LenBase
      BY <1>1, <1>3, <2>2, QuotientBelow, SmallerQuotient
    <3> HIDE DEF q, bb
    <3>2. PICK k \in 1 .. 2 : Read(q, k, w)
      BY <1>2, <3>1
    <3>3. Read(m, k + 1, w)
      <4>1. k \in 1 .. 3
        OBVIOUS
      <4>2. QED
        BY <3>1, <3>2, <4>1, ReadMore DEF q
    <3>4. k + 1 \in 1 .. 3
      OBVIOUS
    <3>5. QED
      BY <3>3, <3>4
  <2>3. QED
    BY <2>1, <2>2
<1>4. \E k \in 1 .. 4 : Read(n, k, w)
  <2>1. CASE n < LenBase
    BY <2>1, ReadOne
  <2>2. CASE ~ (n < LenBase)
    <3> DEFINE q == n \div LenBase
    <3>1. q \in Nat /\ q < bbb /\ n >= LenBase
      BY <1>1, <2>2, QuotientBelow, SmallerQuotient
    <3> HIDE DEF q, bb, bbb
    <3>2. PICK k \in 1 .. 3 : Read(q, k, w)
      BY <1>3, <3>1
    <3>3. Read(n, k + 1, w)
      BY <3>1, <3>2, ReadMore DEF q
    <3>4. k + 1 \in 1 .. 4
      OBVIOUS
    <3>5. QED
      BY <3>3, <3>4
  <2>3. QED
    BY <2>1, <2>2
<1>5. PICK k \in 1 .. 4 : Read(n, k, w)
  BY <1>4
<1>6. EndsAt(Field(n, w), k) /\ Len(mqtt_encode_len(n)) = k /\ Decoded(Field(n, w), k).value = n
  BY <1>5 DEF Read
<1>7. mqtt_decode_len(Field(n, w)) = Decoded(Field(n, w), k)
  BY <1>6, FieldType, DecodeAt
<1>8. Decoded(Field(n, w), k) = [ok |-> TRUE, value |-> n, bytes |-> k]
  <2>1. Decoded(Field(n, w), k)
          = [ok |-> TRUE, bytes |-> k, value |-> Decoded(Field(n, w), k).value]
    BY DEF Decoded
  <2>2. QED
    BY <1>6, <2>1
<1>9. QED
  BY <1>6, <1>7, <1>8 DEF Field

(* A packet in front of anything is cut off whole, and taken apart it has    *)
(* the header and the body it was made of.                                 *)
LEMMA WholePacket ==
  ASSUME NEW h \in Octets, NEW body \in Seq(Octets), NEW w \in Seq(Octets),
         Len(body) < LenBase * (LenBase * (LenBase * LenBase))
  PROVE  LET p == Made(h, body)
             k == Len(mqtt_encode_len(Len(body)))
         IN  /\ p \in Seq(Octets) /\ p[1] = h /\ k \in Nat \ {0}
             /\ Len(p) = 1 + k + Len(body) /\ Len(body) \in Nat
             /\ mqtt_decode_len(Tail(p \o w)) = [ok |-> TRUE, value |-> Len(body), bytes |-> k]
             /\ SubSeq(p, 2 + k, Len(p)) = body
             /\ FirstPacket(p \o w) = [ok |-> TRUE, type |-> h \div 16, bytes |-> p]
<1> DEFINE n == Len(body)
           e == mqtt_encode_len(n)
           k == Len(e)
           d == <<h>>
           p == Made(h, body)
           s == p \o w
<1>1. n \in Nat /\ e \in Seq(Octets) /\ k \in Nat \ {0}
  <2>1. n \in Nat /\ << >> \in Seq(Octets)
    BY EmptySeq
  <2>2. QED
    BY <2>1, EncodeType, FieldType
<1>2. mqtt_decode_len(e \o (body \o w)) = [ok |-> TRUE, value |-> n, bytes |-> k]
  <2>1. body \o w \in Seq(Octets)
    BY ConcatType
  <2>2. QED
    BY <1>1, <2>1, LengthsReadBackAll
<1>3. d \in Seq(Octets) /\ Len(d) = 1
  BY OneFacts
<1>4. p = (d \o e) \o body
  BY DEF Made
<1> HIDE DEF n, e, d, k
<1> DEFINE f == d \o e
<1>5. f \in Seq(Octets) /\ Len(f) = 1 + k
  BY <1>1, <1>3, ConcatType DEF k
<1>6. p \in Seq(Octets) /\ Len(p) = 1 + k + n
  <2> HIDE DEF f, p
  <2>1. p = f \o body
    BY <1>4 DEF f
  <2>2. QED
    BY <1>5, <2>1, ConcatType DEF n
<1>7. SubSeq(p, 2 + k, Len(p)) = body
  <2> HIDE DEF f, p
  <2>1. p = f \o body
    BY <1>4 DEF f
  <2>2. SubSeq(f \o body, Len(f) + 1, Len(f \o body)) = body
    BY <1>5, CutFacts
  <2>3. Len(f) + 1 = 2 + k
    BY <1>1, <1>5
  <2>4. QED
    BY <2>1, <2>2, <2>3
<1> DEFINE x == e \o (body \o w)
<1>8. x \in Seq(Octets) /\ s = d \o x
  <2>1. body \o w \in Seq(Octets) /\ e \o body \in Seq(Octets)
    BY <1>1, ConcatType
  <2>2. e \o (body \o w) \in Seq(Octets)
    BY <1>1, <2>1, ConcatType
  <2>3. Associates(d, e, body)
    BY <1>1, <1>3, Associate
  <2>4. Associates(d, e \o body, w)
    BY <1>3, <2>1, Associate
  <2>5. Associates(e, body, w)
    BY <1>1, Associate
  <2>6. QED
    BY <1>4, <2>2, <2>3, <2>4, <2>5 DEF Associates
<1> HIDE DEF f, p, x
<1>9. s[1] = h /\ Tail(s) = x /\ s \in Seq(Octets)
  <2>1. (<<h>> \o x)[1] = h /\ Tail(<<h>> \o x) = x /\ <<h>> \o x \in Seq(Octets)
    BY <1>8, FrontFacts
  <2> HIDE DEF s
  <2>2. QED
    BY <1>8, <2>1 DEF d
<1>10. p[1] = h
  <2>1. s[1] = p[1]
    <3>1. p \in Seq(Octets) /\ 1 \in Nat /\ 0 < 1 /\ 1 <= Len(p)
      BY <1>1, <1>6
    <3>2. QED
      BY <3>1, ConcatFacts
  <2>2. QED
    BY <1>9, <2>1
<1>11. Len(s) = 1 + k + n + Len(w) /\ Len(w) \in Nat /\ SubSeq(s, 1, Len(p)) = p
  <2>1. Len(s) = Len(p) + Len(w) /\ Len(w) \in Nat
    BY <1>6, ConcatType
  <2>2. SubSeq(s, 1, Len(p)) = p
    BY <1>6, CutFacts
  <2>3. QED
    BY <1>6, <2>1, <2>2
<1> HIDE DEF s
<1>12. mqtt_decode_len(Tail(s)) = [ok |-> TRUE, value |-> n, bytes |-> k]
  BY <1>2, <1>9 DEF x
<1>13. FirstPacket(s) = [ok |-> TRUE, type |-> h \div 16, bytes |-> p]
  <2> DEFINE len == mqtt_decode_len(Tail(s))
  <2>1. len.ok = TRUE /\ len.value = n /\ len.bytes = k
    BY <1>12
  <2> HIDE DEF len
  <2>2. 1 + len.bytes + len.value = Len(p)
    BY <1>6, <2>1
  <2>3. ~ (Len(s) < 2 \/ ~ len.ok \/ Len(p) > Len(s))
    BY <1>1, <1>6, <1>11, <2>1
  <2>4. FirstPacket(s) = [ok |-> TRUE, type |-> s[1] \div 16, bytes |-> SubSeq(s, 1, Len(p))]
    BY <2>2, <2>3 DEF FirstPacket, len
  <2>5. QED
    BY <1>9, <1>11, <2>4
<1>14. QED
  BY <1>1, <1>6, <1>7, <1>10, <1>12, <1>13 DEF s, p, k, e, n

(* What mqtt_task sends is one whole packet to whoever takes the stream of   *)
(* its sends apart as handle_rx does, for every request and packet id that   *)
(* fit the buffer, whatever is sent behind it.                             *)
THEOREM RequestsAreWhole ==
  ASSUME NEW r \in Requests, NEW pid \in U16, NEW w \in Seq(Octets), Build(r, pid) # << >>
  PROVE  FirstPacket(Build(r, pid) \o w)
           = [ok |-> TRUE, type |-> Build(r, pid)[1] \div 16, bytes |-> Build(r, pid)]
<1> DEFINE p == Build(r, pid)
<1>1. OtherPacket(p) /\ p # << >>
  BY BuildType
<1> HIDE DEF p
<1>2. PICK h \in Octets, body \in Seq(Octets) : MadeOf(p, h, body)
  BY <1>1 DEF OtherPacket, WellMade
<1>3. p = Made(h, body) /\ Len(body) < LenBase * (LenBase * (LenBase * LenBase))
  BY <1>2 DEF MadeOf
<1>4. p[1] = h /\ FirstPacket(p \o w) = [ok |-> TRUE, type |-> h \div 16, bytes |-> p]
  BY <1>3, WholePacket
<1>5. QED
  BY <1>4 DEF p

(* The body of a PUBLISH: topic with its length, packet id and payload.      *)
IdPart(m) == IF m.qos > 0 THEN write_u16(m.pid) ELSE << >>
PublishBody(m) == Text(m.topic) \o IdPart(m) \o m.payload
PublishHeader(m) == 16 * PUBLISH + 2 * m.qos

(* Where handle_publish looks for them, it finds topic, length and rest.     *)
LEMMA PublishParts ==
  ASSUME NEW m \in Messages
  PROVE  LET body == PublishBody(m)
             n == Len(m.topic)
             y == IdPart(m) \o m.payload
         IN  /\ n \in Nat /\ body \in Seq(Octets) /\ Len(body) = 2 + n + Len(y)
             /\ y \in Seq(Octets) /\ Len(y) \in Nat /\ read_u16(body) = n
             /\ SubSeq(body, 3, 2 + n) = m.topic
             /\ SubSeq(body, 3 + n, Len(body)) = y
<1> DEFINE t == m.topic
           n == Len(t)
           u == write_u16(n)
           i == IdPart(m)
           z == m.payload
           y == i \o z
           body == PublishBody(m)
<1>1. t \in Seq(Octets) /\ z \in Seq(Octets) /\ m.qos \in 0 .. 2 /\ m.pid \in U16
  BY MessageFacts
<1>2. i \in Seq(Octets)
  <2>1. m.pid \in Nat /\ Fits(m.pid)
    BY <1>1, U16Is
  <2>2. write_u16(m.pid) \in Seq(Octets) /\ << >> \in Seq(Octets)
    BY <2>1, U16Facts, EmptySeq
  <2>3. QED
    BY <2>2 DEF IdPart
<1>3. n \in Nat /\ Fits(n)
  <2>1. ~ (OutCap < 6 + Len(body))
    <3>1. Packed(m) # << >>
      BY MessageFacts
    <3>2. Packed(m) = Packet(PUBLISH, 2 * m.qos, body)
      BY DEF Packed, build_publish, PublishBody, IdPart
    <3>3. QED
      BY <3>1, <3>2 DEF Packet
  <2> HIDE DEF i
  <2>2. Len(body) = 2 + n + Len(i) + Len(z)
    BY <1>1, <1>2, BodyType DEF PublishBody, i
  <2>3. n \in Nat /\ Len(i) \in Nat /\ Len(z) \in Nat
    BY <1>1, <1>2
  <2> HIDE DEF n, z, body
  <2>4. n <= OutCap
    BY <2>1, <2>2, <2>3, OutCapFacts
  <2>5. QED
    BY <2>3, <2>4, OutCapFacts, U16Is DEF Fits
<1>4. /\ u \in Seq(Octets) /\ Len(u) = 2 /\ 256 * u[1] + u[2] = n
  BY <1>3, U16Facts
<1> HIDE DEF i, z, u, t
<1>5. body = ((u \o t) \o i) \o z
  BY DEF PublishBody, Text, i, z, u, t, n
<1>6. /\ u \o t \in Seq(Octets) /\ Len(u \o t) = 2 + n /\ y \in Seq(Octets) /\ Len(y) \in Nat
      /\ t \o y \in Seq(Octets)
  <2>1. u \o t \in Seq(Octets) /\ Len(u \o t) = Len(u) + Len(t)
    BY <1>1, <1>4, ConcatType DEF t
  <2>2. y \in Seq(Octets)
    BY <1>1, <1>2, ConcatType DEF z
  <2>3. t \in Seq(Octets)
    BY <1>1 DEF t
  <2> HIDE DEF y
  <2>4. t \o y \in Seq(Octets) /\ Len(y) \in Nat
    BY <2>2, <2>3, ConcatType
  <2>5. QED
    BY <1>4, <2>1, <2>2, <2>4
<1> DEFINE a == u \o t
<1>7. body = a \o y
  <2>1. Associates(a, i, z)
    BY <1>1, <1>2, <1>6, Associate DEF z
  <2>2. QED
    BY <1>5, <2>1 DEF Associates
<1>8. body = u \o (t \o y)
  <2>1. Associates(u, t, y)
    BY <1>1, <1>4, <1>6, Associate DEF t
  <2>2. QED
    BY <1>7, <2>1 DEF Associates
<1> HIDE DEF body, y, a, n
<1>9. body \in Seq(Octets) /\ Len(body) = 2 + n + Len(y)
  BY <1>6, <1>7, ConcatType DEF a
<1>10. SubSeq(body, 3, 2 + n) = t
  <2>1. SubSeq(u \o (t \o y), Len(u) + 1, Len(u) + Len(t)) = t
    BY <1>1, <1>4, <1>6, MiddleFacts DEF t
  <2>2. Len(u) + 1 = 3 /\ Len(u) + Len(t) = 2 + n
    BY <1>4 DEF n
  <2>3. QED
    BY <1>8, <2>1, <2>2
<1>11. SubSeq(body, 3 + n, Len(body)) = y
  <2>1. SubSeq(a \o y, Len(a) + 1, Len(a \o y)) = y
    BY <1>6, CutFacts DEF a
  <2>2. Len(a) + 1 = 3 + n
    BY <1>3, <1>6 DEF a, n
  <2>3. QED
    BY <1>7, <2>1, <2>2
<1>12. read_u16(body) = n
  <2> DEFINE x == t \o y
  <2>1. u \in Seq(Octets) /\ x \in Seq(Octets)
    BY <1>4, <1>6
  <2> HIDE DEF x
  <2>2. \A j \in Nat : 0 < j /\ j <= Len(u) => (u \o x)[j] = u[j]
    BY <2>1, ConcatFacts
  <2>3. (u \o x)[1] = u[1] /\ (u \o x)[2] = u[2]
    <3>1. 1 \in Nat /\ 2 \in Nat /\ 0 < 1 /\ 0 < 2 /\ 1 <= Len(u) /\ 2 <= Len(u)
      BY <1>4
    <3>2. QED
      BY <2>2, <3>1
  <2>4. body[1] = u[1] /\ body[2] = u[2]
    BY <1>8, <2>3 DEF x
  <2>5. QED
    BY <1>4, <2>4 DEF read_u16
<1>13. QED
  BY <1>3, <1>6, <1>9, <1>10, <1>11, <1>12 DEF body, y, n, t, i, z

(* The header byte of a PUBLISH tells its type and its QoS.                 *)
LEMMA HeaderByte ==
  ASSUME NEW qos \in 0 .. 2, NEW h, h = 16 * PUBLISH + 2 * qos
  PROVE  h \in Octets /\ h \div 16 = PUBLISH /\ ((h % 16) \div 2) % 4 = qos
<1>1. h \in Nat /\ h <= 255 /\ h \div 16 = PUBLISH
  BY DEF PUBLISH
<1>2. ((h % 16) \div 2) % 4 = qos
  BY DEF PUBLISH
<1>3. QED
  BY <1>1, <1>2, OctetFacts

(* What the broker packs, handle_rx cuts off whole and handle_publish takes  *)
(* apart into the message it was, whatever follows in the frame.           *)
THEOREM PublishReadBack ==
  ASSUME NEW m \in Messages, NEW w \in Seq(Octets)
  PROVE  /\ FirstPacket(Packed(m) \o w) = [ok |-> TRUE, type |-> PUBLISH, bytes |-> Packed(m)]
         /\ handle_publish(Packed(m)) = m
<1> DEFINE h == PublishHeader(m)
           body == PublishBody(m)
           n == Len(m.topic)
           i == IdPart(m)
           z == m.payload
           y == i \o z
           k == Len(mqtt_encode_len(Len(body)))
           p == Packed(m)
<1>1. /\ m \in [topic : Seq(Octets), payload : Seq(Octets), qos : 0 .. 2, pid : U16]
      /\ n < TopicSize /\ m.qos \in 0 .. 2 /\ m.pid \in U16 /\ (m.qos = 0 => m.pid = 0)
      /\ z \in Seq(Octets)
  BY MessageFacts
<1>2. /\ n \in Nat /\ body \in Seq(Octets) /\ Len(body) = 2 + n + Len(y)
      /\ y \in Seq(Octets) /\ Len(y) \in Nat /\ read_u16(body) = n
      /\ SubSeq(body, 3, 2 + n) = m.topic /\ SubSeq(body, 3 + n, Len(body)) = y
  BY PublishParts
<1>3. p = Made(h, body) /\ ~ (OutCap < 6 + Len(body))
  <2>1. p # << >>
    BY MessageFacts
  <2>2. p = Packet(PUBLISH, 2 * m.qos, body)
    BY DEF Packed, build_publish, PublishBody, IdPart
  <2>3. QED
    BY <2>1, <2>2 DEF Packet, Made, PublishHeader
<1>4. h \in Octets /\ h \div 16 = PUBLISH /\ ((h % 16) \div 2) % 4 = m.qos
  BY <1>1, HeaderByte DEF PublishHeader
<1>5. Len(body) < LenBase * (LenBase * (LenBase * LenBase))
  <2>1. Len(body) \in Nat
    <3>1. body \in Seq(Octets)
      BY <1>2
    <3> HIDE DEF body
    <3>2. QED
      BY <3>1
  <2> HIDE DEF body
  <2>2. QED
    BY <1>3, <2>1, LengthFits
<1> HIDE DEF h, body, n, y, z, i, p, k
<1>6. ASSUME NEW v \in Seq(Octets)
      PROVE  /\ p \in Seq(Octets) /\ p[1] = h /\ k \in Nat \ {0}
             /\ Len(p) = 1 + k + Len(body)
             /\ mqtt_decode_len(Tail(p \o v)) = [ok |-> TRUE, value |-> Len(body), bytes |-> k]
             /\ SubSeq(p, 2 + k, Len(p)) = body
             /\ FirstPacket(p \o v) = [ok |-> TRUE, type |-> h \div 16, bytes |-> p]
  <2>1. h \in Octets /\ body \in Seq(Octets) /\ v \in Seq(Octets)
    BY <1>2, <1>4, <1>6
  <2>2. /\ Made(h, body) \in Seq(Octets) /\ Made(h, body)[1] = h /\ k \in Nat \ {0}
        /\ Len(Made(h, body)) = 1 + k + Len(body)
        /\ mqtt_decode_len(Tail(Made(h, body) \o v))
             = [ok |-> TRUE, value |-> Len(body), bytes |-> k]
        /\ SubSeq(Made(h, body), 2 + k, Len(Made(h, body))) = body
        /\ FirstPacket(Made(h, body) \o v)
             = [ok |-> TRUE, type |-> h \div 16, bytes |-> Made(h, body)]
    BY <1>5, <2>1, WholePacket DEF k
  <2>3. QED
    BY <1>3, <2>2
<1>7. FirstPacket(p \o w) = [ok |-> TRUE, type |-> PUBLISH, bytes |-> p]
  BY <1>4, <1>6
<1>8. /\ p \in Seq(Octets) /\ p[1] = h /\ k \in Nat \ {0}
      /\ Len(p) = 1 + k + Len(body) /\ SubSeq(p, 2 + k, Len(p)) = body
  BY <1>6
<1>9. mqtt_decode_len(Tail(p)) = [ok |-> TRUE, value |-> Len(body), bytes |-> k]
  <2>1. << >> \in Seq(Octets)
    BY EmptySeq
  <2>2. p \o << >> = p
    BY <1>8, ConcatEmptySeq
  <2>3. QED
    BY <1>6, <2>1, <2>2
<1>10. /\ m.qos > 0 => Len(y) >= 2 /\ read_u16(y) = m.pid /\ SubSeq(y, 3, Len(y)) = z
       /\ ~ (m.qos > 0) => y = z
  <2>1. ASSUME m.qos > 0
        PROVE  Len(y) >= 2 /\ read_u16(y) = m.pid /\ SubSeq(y, 3, Len(y)) = z
    <3>1. i = write_u16(m.pid) /\ m.pid \in Nat /\ Fits(m.pid)
      BY <1>1, <2>1, U16Is DEF IdPart, i
    <3>2. i \in Seq(Octets) /\ Len(i) = 2 /\ 256 * i[1] + i[2] = m.pid
      BY <3>1, U16Facts
    <3>3. /\ Len(i \o z) = Len(i) + Len(z) /\ Len(z) \in Nat
          /\ \A j \in Nat : 0 < j /\ j <= Len(i) => (i \o z)[j] = i[j]
      <4>1. i \in Seq(Octets) /\ z \in Seq(Octets)
        BY <1>1, <3>2
      <4>2. QED
        BY <4>1, ConcatFacts
    <3>4. SubSeq(i \o z, Len(i) + 1, Len(i \o z)) = z
      <4>1. i \in Seq(Octets) /\ z \in Seq(Octets)
        BY <1>1, <3>2
      <4>2. QED
        BY <4>1, CutFacts
    <3>5. (i \o z)[1] = i[1] /\ (i \o z)[2] = i[2]
      <4>1. 1 \in Nat /\ 2 \in Nat /\ 0 < 1 /\ 0 < 2 /\ 1 <= Len(i) /\ 2 <= Len(i)
        BY <3>2
      <4>2. QED
        BY <3>3, <4>1
    <3>6. y = i \o z
      BY DEF y
    <3>7. read_u16(y) = m.pid
      BY <3>2, <3>5, <3>6 DEF read_u16
    <3>8. QED
      BY <3>2, <3>3, <3>4, <3>6, <3>7
  <2>2. ASSUME ~ (m.qos > 0) PROVE y = z
    <3>1. i = << >>
      BY <2>2 DEF IdPart, i
    <3>2. << >> \o z = z
      BY <1>1, ConcatEmptySeq
    <3>3. QED
      BY <3>1, <3>2 DEF y
  <2>3. QED
    BY <2>1, <2>2
<1>11. handle_publish(p)
         = [topic |-> m.topic, qos |-> m.qos,
            payload |-> IF m.qos > 0 THEN SubSeq(y, 3, Len(y)) ELSE y,
            pid |-> IF m.qos > 0 THEN read_u16(y) ELSE 0]
  <2> DEFINE len == mqtt_decode_len(Tail(p))
             qos == ((p[1] % 16) \div 2) % 4
             b == SubSeq(p, 2 + len.bytes, Len(p))
             named == read_u16(b)
             tn == IF named >= TopicSize THEN TopicSize - 1 ELSE named
             rest == SubSeq(b, 3 + tn, Len(b))
  <2>1. b = body /\ qos = m.qos
    BY <1>4, <1>8, <1>9
  <2>2. named = n
    BY <1>2, <2>1
  <2>3. tn = n
    BY <1>1, <1>2, <2>2, CodecAssumption
  <2>4. rest = y /\ SubSeq(b, 3, 2 + tn) = m.topic
    BY <1>2, <2>1, <2>3
  <2>5. ~ (Len(p) < 4 \/ Len(b) < 2)
    <3>1. Len(body) \in Nat /\ Len(body) >= 2
      BY <1>2
    <3>2. ~ (Len(p) < 4 \/ Len(body) < 2)
      BY <1>8, <3>1
    <3> HIDE DEF b
    <3>3. QED
      BY <2>1, <3>2
  <2>6. ~ (2 + named > Len(b) \/ NoRoomForId(qos, rest))
    <3>1. ~ (2 + n > Len(body))
      BY <1>2
    <3>2. ~ (m.qos > 0 /\ Len(y) < 2)
      BY <1>2, <1>10
    <3>3. QED
      BY <2>1, <2>2, <2>4, <3>1, <3>2 DEF NoRoomForId
  <2>7. handle_publish(p)
          = [topic |-> SubSeq(b, 3, 2 + tn), qos |-> qos,
             payload |-> IF qos > 0 THEN SubSeq(rest, 3, Len(rest)) ELSE rest,
             pid |-> IF qos > 0 THEN read_u16(rest) ELSE 0]
    BY <2>5, <2>6 DEF handle_publish
  <2> HIDE DEF b, qos, tn, rest, named
  <2>8. QED
    BY <2>1, <2>4, <2>7
<1>12. handle_publish(p) = m
  <2>1. handle_publish(p) = [topic |-> m.topic, qos |-> m.qos, payload |-> z, pid |-> m.pid]
    <3>1. CASE m.qos > 0
      BY <1>10, <1>11, <3>1
    <3>2. CASE ~ (m.qos > 0)
      <4>1. m.pid = 0
        BY <1>1, <3>2
      <4>2. QED
        BY <1>10, <1>11, <3>2, <4>1
    <3>3. QED
      BY <3>1, <3>2
  <2>2. m = [topic |-> m.topic, qos |-> m.qos, payload |-> m.payload, pid |-> m.pid]
    <3> DEFINE Q == Seq(Octets)
               R == 0 .. 2
    <3>1. m \in [topic : Q, payload : Q, qos : R, pid : U16]
      BY <1>1
    <3> HIDE DEF Q, R
    <3>2. QED
      BY <3>1
  <2>3. QED
    BY <2>1, <2>2 DEF z
<1>13. QED
  BY <1>7, <1>12 DEF p

-----------------------------------------------------------------------------
(* The bytes of a frame begin with its first packet.                        *)
LEMMA BytesFirst ==
  ASSUME NEW f \in Seq(Messages), f # << >>
  PROVE  /\ f[1] \in Messages /\ Tail(f) \in Seq(Messages)
         /\ Packed(f[1]) \in Seq(Octets) /\ Bytes(Tail(f)) \in Seq(Octets)
         /\ Bytes(f) = Packed(f[1]) \o Bytes(Tail(f))
<1> DEFINE g == [i \in DOMAIN f |-> Packed(f[i])]
           t == Tail(f)
           h == [i \in DOMAIN t |-> Packed(t[i])]
           Q == Seq(Octets)
<1>1. /\ f[1] \in Messages /\ t \in Seq(Messages) /\ 1 \in DOMAIN f
      /\ DOMAIN t = 1 .. Len(f) - 1 /\ Len(f) \in Nat \ {0} /\ DOMAIN f = 1 .. Len(f)
      /\ \A i \in DOMAIN t : i + 1 \in DOMAIN f /\ t[i] = f[i + 1]
  BY TakeFacts
<1>2. g \in Seq(Seq(Octets)) /\ Bytes(f) = FlattenSeq(g)
  BY BytesType DEF Bytes
<1>3. Bytes(t) \in Seq(Octets) /\ Bytes(t) = FlattenSeq(h)
  BY <1>1, BytesType DEF Bytes
<1>4. Packed(f[1]) \in Seq(Octets)
  BY <1>1, MessageFacts
<1> HIDE DEF t, Q
<1>5. g[1] = Packed(f[1]) /\ DOMAIN g = 1 .. Len(f)
  BY <1>1
<1>6. \A i \in DOMAIN t : g[i + 1] = h[i]
  BY <1>1
<1>7. DOMAIN h = 1 .. Len(f) - 1
  BY <1>1
<1> HIDE DEF g
<1>8. g \in Seq(Q) /\ g # << >>
  BY <1>1, <1>2, <1>5 DEF Q
<1>9. /\ Tail(g) \in Seq(Q) /\ DOMAIN Tail(g) = 1 .. Len(g) - 1 /\ Len(g) = Len(f)
      /\ \A i \in DOMAIN Tail(g) : Tail(g)[i] = g[i + 1]
  BY <1>1, <1>5, <1>8, TakeFacts
<1> DEFINE u == Tail(g)
<1>10. u = h
  <2>1. DOMAIN u = 1 .. Len(f) - 1 /\ \A i \in DOMAIN u : u[i] = h[i]
    BY <1>1, <1>6, <1>9
  <2>2. u \in Seq(Q)
    BY <1>9
  <2> HIDE DEF u
  <2>3. u = [i \in 1 .. Len(f) - 1 |-> u[i]]
    BY <2>1, <2>2
  <2>4. h = [i \in 1 .. Len(f) - 1 |-> h[i]]
    BY <1>7
  <2> HIDE DEF h
  <2>5. QED
    BY <2>1, <2>3, <2>4
<1> HIDE DEF u
<1>11. FlattenSeq(g) = g[1] \o FlattenSeq(Tail(g))
  BY <1>2, <1>8, FlattenFirst
<1>12. QED
  BY <1>1, <1>2, <1>3, <1>4, <1>5, <1>10, <1>11 DEF t, u

(* What moves from the front of one sequence to the end of another.         *)
LEMMA MoveFirst ==
  ASSUME NEW S, NEW a \in Seq(S), NEW b \in Seq(S), b # << >>
  PROVE  /\ Append(a, b[1]) \in Seq(S) /\ Tail(b) \in Seq(S) /\ b[1] \in S
         /\ Append(a, b[1]) \o Tail(b) = a \o b
<1>1. b[1] \in S /\ Tail(b) \in Seq(S)
  BY TakeFacts
<1> DEFINE d == <<b[1]>>
           t == Tail(b)
<1>2. d \in Seq(S)
  BY <1>1, OneFacts
<1>3. Append(a, b[1]) = a \o d /\ Append(a, b[1]) \in Seq(S)
  BY <1>1
<1>4. d \o t = b
  OBVIOUS
<1>5. Associates(a, d, t)
  BY <1>1, <1>2, Associate
<1>6. QED
  BY <1>1, <1>3, <1>4, <1>5 DEF Associates

(* While a frame is being handled, what is left of it is its last messages.  *)
Handling == pc = "rx" \/ (pc \in {"prompt", "sendok"} /\ back = "rx")
Pending(rest) ==
  /\ messages \o rest = FlattenSeq(Given)
  /\ rx = Bytes(rest)
  /\ ~ Handling => rest = << >>
FramesMade == \A n \in DOMAIN sent : sent[n].bytes = Bytes(sent[n].messages)

Handled ==
  /\ messages \in Seq(Messages) /\ FramesMade
  /\ \E rest \in Seq(Messages) : Pending(rest)

HandledInv == FramesMade /\ (Sound => Handled)

(* Messages by frame have the type to be joined.                            *)
LEMMA GivenType ==
  ASSUME StreamInv, Sound
  PROVE  Given \in Seq(Seq(Messages)) /\ DOMAIN Given = DOMAIN delivered
<1>1. delivered \in Seq(Delivery) /\ sent \in Seq(SentFrame) /\ Sent(delivered, sent)
  BY DEF StreamInv, StreamTypes, Delivers
<1> DEFINE Q == Seq(Messages)
           n == Len(delivered)
<1>2. n \in Nat /\ DOMAIN delivered = 1 .. n
  BY <1>1
<1>3. \A i \in DOMAIN delivered : sent[delivered[i].of].messages \in Q
  BY <1>1, FrameTypes DEF Sent
<1> HIDE DEF Q, n
<1>4. Given \in [1 .. n -> Q]
  BY <1>2, <1>3 DEF Given
<1>5. Given \in Seq(Q)
  BY <1>2, <1>4, FunctionFacts
<1>6. QED
  BY <1>5 DEF Q, Given

(* A step that touches none of it, and neither begins nor ends the handling  *)
(* of a frame.                                                             *)
LEMMA HandledStill ==
  ASSUME Handled, UNCHANGED <<messages, delivered, sent, rx>>, Handling => Handling'
  PROVE  Handled'
<1>1. Given' = Given
  BY DEF Given
<1>2. PICK rest \in Seq(Messages) : Pending(rest)
  BY DEF Handled
<1>3. Pending(rest)'
  BY <1>1, <1>2 DEF Pending
<1>4. messages' \in Seq(Messages) /\ FramesMade'
  BY DEF Handled, FramesMade
<1>5. QED
  BY <1>3, <1>4 DEF Handled

(* The parser hands over the next frame: all its messages are to come.      *)
LEMMA HandledTake ==
  ASSUME StreamInv, Sound, Handled, TakeFrame
  PROVE  /\ Handled'
         /\ messages = FlattenSeq(Given) /\ UNCHANGED <<sent, messages>>
         /\ \E n \in DOMAIN sent, e \in Delivery, rest \in Seq(Messages) :
              /\ delivered' = Append(delivered, e) /\ e.of = n
              /\ rest = sent[n].messages /\ Pending(rest)'
<1>1. PICK h \in Headers :
        /\ FrameAt(h)
        /\ rx' = Bytewise(SubSeq(ring, FrameStart(h) + 1, FrameStart(h) + h.says.len))
        /\ delivered' = Append(delivered, [of |-> ring[h.hit].of, bytes |-> rx'])
  BY DEF TakeFrame
<1> DEFINE n == ring[h.hit].of
           bytes == sent[n].bytes
           e == [of |-> n, bytes |-> bytes]
           l == Len(delivered)
<1>2. n \in DOMAIN sent /\ rx' = bytes
  BY <1>1, FrameFound
<1>3. delivered' = Append(delivered, e)
  BY <1>1, <1>2
<1>4. UNCHANGED <<sent, messages>> /\ pc = "parse" /\ pc' = "rx"
  BY DEF TakeFrame
<1>5. /\ delivered \in Seq(Delivery) /\ sent \in Seq(SentFrame) /\ Sent(delivered, sent)
      /\ messages \in Seq(Messages) /\ FramesMade
  BY DEF StreamInv, StreamTypes, Delivers, Handled
<1>6. bytes \in Seq(Octets) /\ sent[n].messages \in Seq(Messages) /\ bytes = Bytes(sent[n].messages)
  BY <1>2, <1>5, FrameTypes DEF FramesMade
<1>7. PICK rest \in Seq(Messages) : rest = sent[n].messages
  BY <1>6
<1> HIDE DEF n, bytes
<1>8. e \in Delivery /\ e.of = n
  <2> DEFINE P == Seq(Octets)
  <2> HIDE DEF P
  <2>1. n \in Nat /\ bytes \in P
    BY <1>2, <1>5, <1>6 DEF P
  <2>2. e \in [of : Nat, bytes : P] /\ e.of = n
    BY <2>1
  <2>3. QED
    BY <2>2 DEF Delivery, P
<1> HIDE DEF e
<1>9. Given' = Append(Given, rest)
  <2>1. /\ DOMAIN delivered' = 1 .. l + 1 /\ delivered'[l + 1] = e /\ l \in Nat
        /\ DOMAIN delivered = 1 .. l /\ \A i \in 1 .. l : delivered'[i] = delivered[i]
    <3>1. DOMAIN delivered = 1 .. l /\ l \in Nat
      BY <1>5
    <3>2. QED
      BY <1>3, <1>5, <1>8, <3>1, AppendFacts
  <2> HIDE DEF l
  <2> DEFINE Q == Seq(Messages)
             u == Given'
             v == Append(Given, rest)
  <2>2. Given \in Seq(Q) /\ DOMAIN Given = 1 .. l
    BY <2>1, GivenType
  <2>3. rest \in Q
    OBVIOUS
  <2> HIDE DEF Q
  <2>4. Len(Given) = l
    BY <2>1, <2>2
  <2>5. /\ DOMAIN v = 1 .. l + 1 /\ v[l + 1] = rest
        /\ \A i \in 1 .. l : v[i] = Given[i] /\ v \in Seq(Q)
    BY <2>2, <2>3, <2>4, AppendFacts
  <2>6. v \in Seq(Q)
    BY <2>2, <2>3, AppendFacts
  <2> HIDE DEF v
  <2>7. u = [i \in 1 .. l + 1 |-> sent[delivered'[i].of].messages]
    BY <1>4, <2>1 DEF Given
  <2>8. ASSUME NEW i \in 1 .. l + 1 PROVE sent[delivered'[i].of].messages = v[i]
    <3>1. CASE i = l + 1
      BY <1>8, <1>7, <2>1, <2>5, <3>1
    <3>2. CASE i # l + 1
      <4>1. i \in 1 .. l
        BY <2>1, <3>2
      <4>2. Given[i] = sent[delivered[i].of].messages
        BY <2>1, <4>1 DEF Given
      <4>3. QED
        BY <2>1, <2>5, <4>1, <4>2
    <3>3. QED
      BY <3>1, <3>2
  <2>9. v = [i \in 1 .. l + 1 |-> v[i]]
    BY <2>5, <2>6
  <2>10. u = v
    BY <2>7, <2>8, <2>9
  <2>11. QED
    BY <2>10 DEF v
<1>10. messages = FlattenSeq(Given)
  <2>1. PICK old \in Seq(Messages) : Pending(old)
    BY DEF Handled
  <2>2. messages \o << >> = FlattenSeq(Given)
    BY <1>4, <2>1 DEF Pending, Handling
  <2>3. QED
    BY <1>5, <2>2, ConcatEmptySeq
<1>11. FlattenSeq(Given') = messages \o rest
  <2>1. Given \in Seq(Seq(Messages)) /\ rest \in Seq(Messages)
    BY GivenType
  <2>2. QED
    BY <1>9, <1>10, <2>1, FlattenAppend
<1>12. Pending(rest)'
  <2>1. messages' \o rest = FlattenSeq(Given')
    BY <1>4, <1>11
  <2>2. rx' = Bytes(rest)
    BY <1>2, <1>6, <1>7
  <2>3. Handling'
    BY <1>4 DEF Handling
  <2>4. QED
    BY <2>1, <2>2, <2>3 DEF Pending
<1>13. Handled'
  <2>1. rest \in Seq(Messages) /\ messages' \in Seq(Messages) /\ FramesMade'
    BY <1>4, <1>5 DEF FramesMade
  <2>2. QED
    BY <1>12, <2>1 DEF Handled
<1>14. QED
  BY <1>2, <1>3, <1>4, <1>7, <1>8, <1>10, <1>12, <1>13

(* handle_rx takes the next message from the frame and gives it to the       *)
(* callback.                                                               *)
LEMMA HandledPacket ==
  ASSUME Handled, RxPacket
  PROVE  /\ Handled'
         /\ \E m \in Messages :
              /\ messages' = Append(messages, m)
              /\ IF NeedsAck(m) THEN tcp_send(build_puback(m.pid), "rx")
                 ELSE UNCHANGED <<pc, packet, back, mode, want, uplink>>
         /\ UNCHANGED <<sent, delivered>>
         /\ \E rest \in Seq(Messages) :
              /\ rest # << >> /\ Pending(rest) /\ messages' = Append(messages, rest[1])
              /\ Tail(rest) \in Seq(Messages) /\ messages' \o Tail(rest) = FlattenSeq(Given')
<1>1. PICK rest \in Seq(Messages) : Pending(rest)
  BY DEF Handled
<1> DEFINE first == FirstPacket(rx)
           got == IF first.type = PUBLISH THEN handle_publish(first.bytes) ELSE NoMessage
<1>2. /\ pc = "rx" /\ first.ok
      /\ rx' = SubSeq(rx, Len(first.bytes) + 1, Len(rx))
      /\ messages' = IF got = NoMessage THEN messages ELSE Append(messages, got)
      /\ IF NeedsAck(got) THEN tcp_send(build_puback(got.pid), "rx")
                          ELSE UNCHANGED <<pc, packet, back, mode, want, uplink>>
      /\ UNCHANGED <<sent, delivered>>
  BY DEF RxPacket
<1>3. rest # << >>
  <2> SUFFICES ASSUME rest = << >> PROVE FALSE
    OBVIOUS
  <2>1. rx = << >>
    <3>1. [i \in DOMAIN rest |-> Packed(rest[i])] = << >>
      OBVIOUS
    <3>2. QED
      BY <1>1, <3>1, FlattenAppend DEF Pending, Bytes, FlattenSeq
  <2>2. Len(rx) < 2
    BY <2>1, EmptySeq
  <2>3. first = [ok |-> FALSE, type |-> 0, bytes |-> << >>]
    BY <2>2 DEF FirstPacket
  <2>4. QED
    BY <1>2, <2>3
<1> DEFINE m == rest[1]
           t == Tail(rest)
           p == Packed(m)
           w == Bytes(t)
<1>4. m \in Messages /\ t \in Seq(Messages) /\ p \in Seq(Octets) /\ w \in Seq(Octets) /\ rx = p \o w
  BY <1>1, <1>3, BytesFirst DEF Pending
<1>5. first = [ok |-> TRUE, type |-> PUBLISH, bytes |-> p] /\ handle_publish(p) = m
  <2> HIDE DEF m, t, w
  <2>1. QED
    BY <1>4, PublishReadBack
<1>6. m # NoMessage
  <2>1. m.qos \in 0 .. 2
    BY <1>4, MessageFacts
  <2> HIDE DEF m
  <2>2. NoMessage.qos = -1
    BY DEF NoMessage
  <2>3. QED
    BY <2>1, <2>2
<1> HIDE DEF m, t, p, w, first
<1>7. got = m
  BY <1>5
<1> HIDE DEF got
<1>8. messages' = Append(messages, m)
  BY <1>2, <1>6, <1>7
<1>9. rx' = w
  <2>1. SubSeq(p \o w, Len(p) + 1, Len(p \o w)) = w
    BY <1>4, CutFacts
  <2>2. first.bytes = p
    BY <1>5
  <2>3. QED
    BY <1>2, <1>4, <2>1, <2>2
<1>10. messages' \in Seq(Messages) /\ messages' \o t = messages \o rest
  <2>1. messages \in Seq(Messages)
    BY DEF Handled
  <2>2. QED
    BY <1>3, <1>8, <2>1, MoveFirst DEF m, t
<1>11. Given' = Given
  BY <1>2 DEF Given
<1>12. Handling'
  <2>1. CASE NeedsAck(got)
    <3>1. pc' = "prompt" /\ back' = "rx"
      BY <1>2, <2>1 DEF tcp_send
    <3>2. QED
      BY <3>1 DEF Handling
  <2>2. CASE ~ NeedsAck(got)
    BY <1>2, <2>2 DEF Handling
  <2>3. QED
    BY <2>1, <2>2
<1>13. messages' \o t = FlattenSeq(Given') /\ rx' = Bytes(t)
  BY <1>1, <1>9, <1>10, <1>11 DEF Pending, w
<1>14. FramesMade'
  BY <1>2 DEF Handled, FramesMade
<1>15. Handled'
  <2>1. \E r \in Seq(Messages) : messages' \o r = FlattenSeq(Given') /\ rx' = Bytes(r)
                                 /\ (~ Handling' => r = << >>)
    BY <1>4, <1>12, <1>13
  <2>2. QED
    BY <1>10, <1>14, <2>1 DEF Handled, Pending
<1>16. /\ Pending(rest) /\ messages' = Append(messages, rest[1])
       /\ Tail(rest) \in Seq(Messages) /\ messages' \o Tail(rest) = FlattenSeq(Given')
  BY <1>1, <1>4, <1>8, <1>13 DEF m, t
<1>17. QED
  BY <1>2, <1>3, <1>4, <1>7, <1>8, <1>15, <1>16

(* handle_rx is done with the frame when nothing of it is left.             *)
LEMMA HandledDone ==
  ASSUME Handled, RxDone
  PROVE  Handled'
<1>1. PICK rest \in Seq(Messages) : Pending(rest)
  BY DEF Handled
<1>2. UNCHANGED <<messages, delivered, sent, rx>> /\ ~ FirstPacket(rx).ok
  BY DEF RxDone, history
<1>3. rest = << >>
  <2> SUFFICES ASSUME rest # << >> PROVE FALSE
    OBVIOUS
  <2> DEFINE m == rest[1]
             w == Bytes(Tail(rest))
  <2>1. m \in Messages /\ w \in Seq(Octets) /\ rx = Packed(m) \o w
    BY <1>1, BytesFirst DEF Pending
  <2> HIDE DEF m, w
  <2>2. FirstPacket(rx) = [ok |-> TRUE, type |-> PUBLISH, bytes |-> Packed(m)]
    BY <2>1, PublishReadBack
  <2>3. QED
    BY <1>2, <2>2
<1>4. Pending(rest)'
  <2>1. Given' = Given
    BY <1>2 DEF Given
  <2>2. QED
    BY <1>1, <1>2, <1>3, <2>1 DEF Pending
<1>5. messages' \in Seq(Messages) /\ FramesMade'
  BY <1>2 DEF Handled, FramesMade
<1>6. QED
  BY <1>4, <1>5 DEF Handled

(* What the broker packs is what a frame has.                               *)
LEMMA FramesMadeNext ==
  ASSUME StreamInv, FramesMade, [Next]_vars
  PROVE  FramesMade'
<1>1. CASE ForwardFrame
  <2>1. PICK f \in Frames : sent' = Append(sent, [messages |-> f, bytes |-> Bytes(f)])
    BY <1>1 DEF ForwardFrame
  <2>2. sent \in Seq(SentFrame)
    BY StreamParts
  <2> DEFINE e == [messages |-> f, bytes |-> Bytes(f)]
  <2>3. e \in SentFrame /\ e.bytes = Bytes(e.messages)
    BY FrameTyped
  <2> HIDE DEF e
  <2>4. /\ DOMAIN sent' = 1 .. Len(sent) + 1 /\ sent'[Len(sent) + 1] = e
        /\ \A n \in 1 .. Len(sent) : sent'[n] = sent[n]
    BY <2>1, <2>2, <2>3, AppendFacts DEF e
  <2>5. DOMAIN sent = 1 .. Len(sent) /\ Len(sent) \in Nat
    BY <2>2
  <2> SUFFICES ASSUME NEW n \in DOMAIN sent' PROVE sent'[n].bytes = Bytes(sent'[n].messages)
    BY DEF FramesMade, Bytes, Packed
  <2>6. n \in DOMAIN sent \/ n = Len(sent) + 1
    BY <2>4, <2>5
  <2>7. QED
    BY <2>3, <2>4, <2>5, <2>6 DEF FramesMade
<1>2. CASE ~ ForwardFrame
  <2>1. sent' = sent
    BY <1>2 DEF Next, mqtt_task, Module, Loop, Request, PromptSeen, SendOkSeen, WaitTimesOut, NoFrame,
                SkipByte, SkipFrame, TakeFrame, RxDone, RxPacket, LineRound, LinesDone,
                PromptForData, ConfirmData, LinkCloses, Interrupt, vars, history
  <2>2. QED
    BY <2>1 DEF FramesMade
<1>3. QED
  BY <1>1, <1>2

(* The broker sends one frame more.                                         *)
LEMMA HandledForward ==
  ASSUME StreamInv, Sound, Handled, ForwardFrame
  PROVE  Handled' /\ Given' = Given
<1>1. PICK f \in Frames : sent' = Append(sent, [messages |-> f, bytes |-> Bytes(f)])
  BY DEF ForwardFrame
<1>2. UNCHANGED <<messages, delivered, rx, pc, back>>
  BY DEF ForwardFrame, client
<1>3. sent \in Seq(SentFrame) /\ Sent(delivered, sent) /\ FramesMade
  BY DEF StreamInv, StreamTypes, Delivers, Handled
<1> DEFINE e == [messages |-> f, bytes |-> Bytes(f)]
<1>4. e \in SentFrame /\ e.bytes = Bytes(e.messages)
  BY FrameTyped
<1> HIDE DEF e
<1>5. /\ DOMAIN sent' = 1 .. Len(sent) + 1 /\ sent'[Len(sent) + 1] = e
      /\ \A n \in 1 .. Len(sent) : sent'[n] = sent[n]
  BY <1>1, <1>3, <1>4, AppendFacts DEF e
<1>6. DOMAIN sent = 1 .. Len(sent) /\ Len(sent) \in Nat
  BY <1>3
<1>7. FramesMade'
  BY <1>3, FramesMadeNext DEF Next, Module
<1>8. Given' = Given
  <2>1. \A i \in DOMAIN delivered : sent'[delivered[i].of] = sent[delivered[i].of]
    BY <1>3, <1>5, <1>6 DEF Sent
  <2>2. QED
    BY <1>2, <2>1 DEF Given
<1>9. PICK rest \in Seq(Messages) : Pending(rest)
  BY DEF Handled
<1>10. Pending(rest)'
  BY <1>2, <1>8, <1>9 DEF Pending, Handling
<1>11. messages' \in Seq(Messages)
  BY <1>2 DEF Handled
<1>12. QED
  BY <1>7, <1>8, <1>10, <1>11 DEF Handled

(* Every step keeps what is left of a frame in step with what was given.    *)
LEMMA HandledNext ==
  ASSUME StreamInv, Sound, Handled, [Next]_vars
  PROVE  Handled'
<1> USE DEF module, history, client
<1>1. CASE Loop
  BY <1>1, HandledStill DEF Loop, Handling
<1>2. CASE Request
  <2>1. UNCHANGED <<messages, delivered, sent, rx>> /\ ~ Handling
    BY <1>2 DEF Request, Handling
  <2>2. QED
    BY <2>1, HandledStill
<1>3. CASE PromptSeen
  <2>1. UNCHANGED <<messages, delivered, sent, rx>>
    BY <1>3 DEF PromptSeen
  <2>2. pc = "prompt" /\ pc' = "sendok" /\ back' = back
    BY <1>3 DEF PromptSeen
  <2>3. QED
    BY <2>1, <2>2, HandledStill DEF Handling
<1>4. CASE SendOkSeen
  <2>1. UNCHANGED <<messages, delivered, sent, rx>>
    BY <1>4 DEF SendOkSeen
  <2>2. pc = "sendok" /\ pc' = back
    BY <1>4 DEF SendOkSeen
  <2>3. QED
    BY <2>1, <2>2, HandledStill DEF Handling
<1>5. CASE WaitTimesOut
  <2>1. UNCHANGED <<messages, delivered, sent, rx>>
    BY <1>5 DEF WaitTimesOut
  <2>2. pc \in {"prompt", "sendok"} /\ pc' = back
    BY <1>5 DEF WaitTimesOut
  <2>3. QED
    BY <2>1, <2>2, HandledStill DEF Handling
<1>6. CASE NoFrame
  BY <1>6, HandledStill DEF NoFrame, Handling
<1>7. CASE SkipFrame
  BY <1>7, HandledStill DEF SkipFrame, Handling
<1>8. CASE TakeFrame
  BY <1>8, HandledTake
<1>9. CASE RxDone
  BY <1>9, HandledDone
<1>10. CASE RxPacket
  BY <1>10, HandledPacket
<1>11. CASE LineRound
  BY <1>11, HandledStill DEF LineRound, Handling
<1>12. CASE LinesDone
  BY <1>12, HandledStill DEF LinesDone, Handling
<1>13. CASE PromptForData
  BY <1>13, HandledStill DEF PromptForData, Handling
<1>14. CASE ConfirmData
  BY <1>14, HandledStill DEF ConfirmData, Handling
<1>15. CASE ForwardFrame
  BY <1>15, HandledForward
<1>16. CASE LinkCloses
  BY <1>16, HandledStill DEF LinkCloses, Handling
<1>17. CASE Interrupt
  BY <1>17, HandledStill DEF Interrupt, Handling
<1>18. CASE UNCHANGED vars
  BY <1>18, HandledStill DEF vars, Handling
<1>19. CASE SkipByte
  BY <1>19, HandledStill DEF SkipByte, Handling
<1>20. QED
  BY <1>1, <1>2, <1>3, <1>4, <1>5, <1>6, <1>7, <1>8, <1>9, <1>10, <1>11, <1>12, <1>13, <1>14,
     <1>15, <1>16, <1>17, <1>18, <1>19 DEF Next, mqtt_task, Module

(* At first there is nothing to handle.                                     *)
LEMMA HandledInit ==
  ASSUME Init
  PROVE  Handled
<1>1. /\ sent = << >> /\ delivered = << >> /\ messages = << >> /\ rx = << >> /\ pc = "idle"
  BY DEF Init
<1>2. << >> \in Seq(Messages) /\ << >> \o << >> = << >>
  <2>1. << >> \in Seq(Messages)
    BY EmptySeq
  <2>2. QED
    BY <2>1, ConcatEmptySeq
<1>3. Given = << >> /\ Bytes(<< >>) = << >>
  <2>1. FlattenSeq(<< >>) = << >>
    BY DEF FlattenSeq
  <2>2. [i \in DOMAIN << >> |-> Packed(<< >>[i])] = << >>
    OBVIOUS
  <2>3. QED
    BY <1>1, <2>1, <2>2 DEF Given, Bytes
<1>4. FlattenSeq(Given) = << >>
  BY <1>3 DEF FlattenSeq
<1>5. Pending(<< >>)
  BY <1>1, <1>2, <1>3, <1>4 DEF Pending
<1>6. FramesMade
  BY <1>1 DEF FramesMade
<1>7. QED
  BY <1>1, <1>2, <1>5, <1>6 DEF Handled

(* Until a frame that spells the mark is cut, what is left of the frame in   *)
(* handling is always its last messages.                                   *)
THEOREM HandledInvariant == Spec => []HandledInv
<1>1. Init => HandledInv
  BY HandledInit DEF HandledInv, Handled
<1>2. StreamInv /\ HandledInv /\ [Next]_vars => HandledInv'
  <2> SUFFICES ASSUME StreamInv, HandledInv, [Next]_vars PROVE HandledInv'
    OBVIOUS
  <2>1. FramesMade'
    BY FramesMadeNext DEF HandledInv
  <2>2. ASSUME Sound' PROVE Handled'
    BY <2>2, SoundBefore, HandledNext DEF HandledInv
  <2>3. QED
    BY <2>1, <2>2 DEF HandledInv
<1>3. QED
  BY <1>1, <1>2, StreamInvariant, PTL DEF Spec

(* PacketsHandled: between two frames, the callback has got every message of *)
(* every frame delivered, as it was sent, once and in order, although       *)
(* acknowledgements were sent, and waited for, in between, until a frame    *)
(* that spells the mark is cut.                                            *)
THEOREM PacketsAreHandled == Spec => []PacketsHandled
<1>1. HandledInv => PacketsHandled
  <2> SUFFICES ASSUME HandledInv, Sound, pc \in {"idle", "parse", "line"}
               PROVE  messages = FlattenSeq(Given)
    BY DEF PacketsHandled, Given
  <2>1. PICK rest \in Seq(Messages) : Pending(rest)
    BY DEF HandledInv, Handled
  <2>2. rest = << >>
    BY <2>1 DEF Pending, Handling
  <2>3. messages \o << >> = messages
    BY ConcatEmptySeq DEF HandledInv, Handled
  <2>4. QED
    BY <2>1, <2>2, <2>3 DEF Pending
<1>2. QED
  BY <1>1, HandledInvariant, PTL

-----------------------------------------------------------------------------
(* Acknowledgements: those that went up whole, those that are owed, and one  *)
(* that waits for the prompt.                                              *)
IsAck(u) == Len(u) = 4 /\ u[1] = 16 * PUBACK
GoneUp(taken, u) == {k \in DOMAIN taken : taken[k] = u}
Asks(m, u) == m.qos = 1 /\ build_puback(m.pid) = u
Owed(handled, u) == {k \in DOMAIN handled : Asks(handled[k], u)}
Due(u) == IF pc = "prompt" /\ packet = u THEN 1 ELSE 0

(* After a frame that spells the mark is cut, the callback may be given what  *)
(* no broker sent: then its messages are just some sequence.               *)
IsSequence(s) == \E S : s \in Seq(S)

AckShape == packet # << >> /\ packet[1] = 16 * PUBACK => Len(packet) = 4
AckInv ==
  /\ uplink \in Seq(Seq(Octets)) /\ IsSequence(messages) /\ AckShape
  /\ \A u \in Seq(Octets) :
       IsAck(u) => Cardinality(GoneUp(uplink, u)) + Due(u) <= Cardinality(Owed(messages, u))

(* One element more, counted or not.                                        *)
LEMMA CountMore ==
  ASSUME NEW n \in Nat, NEW A \in SUBSET (1 .. n)
  PROVE  /\ Cardinality(A) \in Nat
         /\ Cardinality(A \cup {n + 1}) = Cardinality(A) + 1
<1>1. IsFiniteSet(1 .. n)
  BY FS_Interval
<1>2. IsFiniteSet(A)
  BY <1>1, FS_Subset
<1>3. Cardinality(A) \in Nat
  BY <1>2, FS_CardinalityType
<1>4. n + 1 \notin A
  OBVIOUS
<1>5. QED
  BY <1>2, <1>3, <1>4, FS_AddElement

(* One more packet has gone up.                                             *)
LEMMA GoneUpMore ==
  ASSUME NEW s \in Seq(Seq(Octets)), NEW v \in Seq(Octets), NEW u
  PROVE  /\ Cardinality(GoneUp(s, u)) \in Nat
         /\ Cardinality(GoneUp(Append(s, v), u))
              = Cardinality(GoneUp(s, u)) + (IF v = u THEN 1 ELSE 0)
<1> DEFINE Q == Seq(Octets)
           n == Len(s)
           t == Append(s, v)
           A == GoneUp(s, u)
           B == GoneUp(t, u)
<1>1. s \in Seq(Q) /\ v \in Q
  OBVIOUS
<1> HIDE DEF Q
<1>2. n \in Nat /\ DOMAIN s = 1 .. n
  BY <1>1
<1>3. DOMAIN t = 1 .. n + 1 /\ t[n + 1] = v /\ \A i \in 1 .. n : t[i] = s[i]
  BY <1>1, AppendFacts
<1> HIDE DEF n, t
<1>4. A \in SUBSET (1 .. n)
  BY <1>2 DEF GoneUp
<1>5. B = IF v = u THEN A \cup {n + 1} ELSE A
  <2>1. \A i \in 1 .. n + 1 : i \in 1 .. n \/ i = n + 1
    BY <1>2
  <2>2. n + 1 \in 1 .. n + 1 /\ \A i \in 1 .. n : i \in 1 .. n + 1
    BY <1>2
  <2>3. QED
    BY <1>2, <1>3, <2>1, <2>2 DEF GoneUp
<1> HIDE DEF A, B
<1>6. Cardinality(A) \in Nat /\ Cardinality(A \cup {n + 1}) = Cardinality(A) + 1
  BY <1>2, <1>4, CountMore
<1>7. Cardinality(B) = Cardinality(A) + (IF v = u THEN 1 ELSE 0)
  BY <1>5, <1>6
<1>8. QED
  BY <1>6, <1>7 DEF A, B, t

(* One more message was given to the callback.                              *)
LEMMA OwedMore ==
  ASSUME NEW s, IsSequence(s), NEW m, NEW u
  PROVE  /\ Cardinality(Owed(s, u)) \in Nat /\ IsSequence(Append(s, m))
         /\ Cardinality(Owed(Append(s, m), u))
              = Cardinality(Owed(s, u)) + (IF Asks(m, u) THEN 1 ELSE 0)
<1>0. PICK S : s \in Seq(S) /\ m \in S
  <2>1. PICK R : s \in Seq(R)
    BY DEF IsSequence
  <2>2. Len(s) \in Nat /\ s \in [1 .. Len(s) -> R \cup {m}]
    BY <2>1
  <2>3. s \in Seq(R \cup {m})
    BY <2>2, FunctionFacts
  <2>4. QED
    BY <2>3
<1> DEFINE n == Len(s)
           t == Append(s, m)
           A == Owed(s, u)
           B == Owed(t, u)
<1>1. n \in Nat /\ DOMAIN s = 1 .. n
  BY <1>0
<1>2. DOMAIN t = 1 .. n + 1 /\ t[n + 1] = m /\ \A i \in 1 .. n : t[i] = s[i]
  BY <1>0, AppendFacts
<1> HIDE DEF n, t
<1>3. A \in SUBSET (1 .. n)
  BY <1>1 DEF Owed
<1>4. B = IF Asks(m, u) THEN A \cup {n + 1} ELSE A
  <2>1. \A i \in 1 .. n + 1 : i \in 1 .. n \/ i = n + 1
    BY <1>1
  <2>2. n + 1 \in 1 .. n + 1 /\ \A i \in 1 .. n : i \in 1 .. n + 1
    BY <1>1
  <2>3. QED
    BY <1>1, <1>2, <2>1, <2>2 DEF Owed
<1> HIDE DEF A, B
<1>5. Cardinality(A) \in Nat /\ Cardinality(A \cup {n + 1}) = Cardinality(A) + 1
  BY <1>1, <1>3, CountMore
<1>6. Cardinality(B) = Cardinality(A) + (IF Asks(m, u) THEN 1 ELSE 0)
  BY <1>4, <1>5
<1>7. IsSequence(Append(s, m))
  BY <1>0, AppendFacts DEF IsSequence
<1>8. QED
  BY <1>5, <1>6, <1>7 DEF A, B, t

(* The counts are numbers.                                                  *)
LEMMA CountTypesOK ==
  ASSUME NEW s \in Seq(Seq(Octets)), NEW t, IsSequence(t), NEW u
  PROVE  Cardinality(GoneUp(s, u)) \in Nat /\ Cardinality(Owed(t, u)) \in Nat
<1>1. << >> \in Seq(Octets)
  BY EmptySeq
<1>2. Cardinality(GoneUp(s, u)) \in Nat
  BY <1>1, GoneUpMore
<1>3. Cardinality(Owed(t, u)) \in Nat
  BY OwedMore
<1>4. QED
  BY <1>2, <1>3

(* What a module in data mode takes is bytes or the front of them.          *)
LEMMA TakesFront ==
  ASSUME want \in Nat, NEW bytes \in Seq(Octets), TakeData(bytes)
  PROVE  \E v \in Seq(Octets) :
           /\ uplink' = Append(uplink, v)
           /\ IsAck(v) => /\ bytes # << >> /\ bytes[1] = 16 * PUBACK
                          /\ Len(bytes) = 4 => v = bytes
<1>1. Len(bytes) \in Nat
  OBVIOUS
<1>2. CASE Len(bytes) < want
  <2>1. uplink' = Append(uplink, bytes)
    BY <1>2 DEF TakeData
  <2>2. IsAck(bytes) => bytes # << >> /\ bytes[1] = 16 * PUBACK
    <3>1. Len(<< >>) = 0
      BY EmptySeq
    <3>2. Len(bytes) = 4 => bytes # << >>
      BY <3>1
    <3>3. QED
      BY <3>2 DEF IsAck
  <2>3. QED
    BY <2>1, <2>2
<1>3. CASE ~ (Len(bytes) < want)
  <2> DEFINE v == SubSeq(bytes, 1, want)
  <2>1. uplink' = Append(uplink, v)
    BY <1>3 DEF TakeData
  <2>2. want <= Len(bytes)
    BY <1>1, <1>3
  <2>3. \A i \in 1 .. want : bytes[i] \in Octets
    BY <1>1, <2>2
  <2>4. /\ v \in Seq(Octets) /\ Len(v) = IF 1 <= want THEN want - 1 + 1 ELSE 0
        /\ \A i \in 1 .. want - 1 + 1 : v[i] = bytes[1 + i - 1]
    BY <2>3, SubSeqProperties
  <2> HIDE DEF v
  <2>5. Len(v) = want
    BY <2>4
  <2>6. ASSUME IsAck(v)
        PROVE  bytes # << >> /\ bytes[1] = 16 * PUBACK /\ (Len(bytes) = 4 => v = bytes)
    <3>1. want = 4 /\ v[1] = 16 * PUBACK
      BY <2>5, <2>6 DEF IsAck
    <3>2. v[1] = bytes[1]
      <4>1. 1 \in 1 .. want - 1 + 1 /\ 1 + 1 - 1 = 1
        BY <3>1
      <4>2. QED
        BY <2>4, <4>1
    <3>3. bytes # << >>
      BY <1>1, <2>2, <3>1, EmptySeq
    <3>4. Len(bytes) = 4 => v = bytes
      <4>1. SUFFICES ASSUME Len(bytes) = 4 PROVE v = bytes
        OBVIOUS
      <4>2. SubSeq(bytes, 0 + 1, 0 + Len(bytes)) = bytes
        <5>1. 0 \in Nat /\ 0 + Len(bytes) <= Len(bytes)
          BY <1>1
        <5>2. \A i \in Nat : 0 < i /\ i <= Len(bytes) => bytes[0 + i] = bytes[i]
          OBVIOUS
        <5>3. QED
          BY <5>1, <5>2, PartIs
      <4>3. 0 + 1 = 1 /\ 0 + Len(bytes) = want
        BY <3>1, <4>1
      <4>4. QED
        BY <4>2, <4>3 DEF v
    <3>5. QED
      BY <3>1, <3>2, <3>3, <3>4
  <2>7. QED
    BY <2>1, <2>4, <2>6
<1>4. QED
  BY <1>2, <1>3

(* A send up to the wait for the prompt adds no acknowledgement to what went *)
(* up: the most a module in data mode takes is the line of the command.     *)
LEMMA SendGoesUp ==
  ASSUME want \in Nat, uplink \in Seq(Seq(Octets)), NEW bytes, NEW caller, tcp_send(bytes, caller)
  PROVE  /\ uplink' \in Seq(Seq(Octets))
         /\ \A u : IsAck(u) => Cardinality(GoneUp(uplink', u)) = Cardinality(GoneUp(uplink, u))
<1>1. CASE mode = "data"
  <2>1. TakeData(CommandLine)
    BY <1>1 DEF tcp_send
  <2>2. CommandLine \in Seq(Octets) /\ Len(CommandLine) = 16 /\ CommandLine[1] # 16 * PUBACK
    <3>1. 65 \in Octets /\ 65 # 16 * PUBACK
      BY OctetFacts DEF PUBACK
    <3>2. CommandLine \in [1 .. 16 -> Octets] /\ CommandLine[1] = 65 /\ 16 \in Nat
      BY <3>1 DEF CommandLine
    <3>3. PICK n \in Nat : n = 16
      BY <3>2
    <3>4. CommandLine \in [1 .. n -> Octets]
      BY <3>2, <3>3
    <3>5. CommandLine \in Seq(Octets) /\ Len(CommandLine) = n
      BY <3>4, FunctionFacts
    <3>6. QED
      BY <3>1, <3>2, <3>3, <3>5
  <2>3. PICK v \in Seq(Octets) : uplink' = Append(uplink, v) /\ ~ IsAck(v)
    BY <2>1, <2>2, TakesFront
  <2>4. uplink' \in Seq(Seq(Octets))
    <3> DEFINE Q == Seq(Octets)
    <3>1. uplink \in Seq(Q) /\ v \in Q
      OBVIOUS
    <3> HIDE DEF Q
    <3>2. Append(uplink, v) \in Seq(Q)
      BY <3>1, AppendFacts
    <3>3. QED
      BY <2>3, <3>2 DEF Q
  <2>5. ASSUME NEW u, IsAck(u)
        PROVE  Cardinality(GoneUp(uplink', u)) = Cardinality(GoneUp(uplink, u))
    <3>1. v # u
      BY <2>3, <2>5
    <3>2. /\ Cardinality(GoneUp(uplink, u)) \in Nat
          /\ Cardinality(GoneUp(uplink', u)) = Cardinality(GoneUp(uplink, u)) + 0
      BY <2>3, <3>1, GoneUpMore
    <3>3. QED
      BY <3>2
  <2>6. QED
    BY <2>4, <2>5
<1>2. CASE mode # "data"
  BY <1>2 DEF tcp_send
<1>3. QED
  BY <1>1, <1>2

(* A step that neither takes data nor hands over a message, and starts no    *)
(* wait for the prompt.                                                    *)
LEMMA AckStill ==
  ASSUME AckInv, UNCHANGED <<uplink, messages, packet>>, pc' = "prompt" => pc = "prompt"
  PROVE  AckInv'
<1>1. uplink' \in Seq(Seq(Octets)) /\ AckShape' /\ IsSequence(messages')
  BY DEF AckInv, AckShape
<1>2. ASSUME NEW u \in Seq(Octets), IsAck(u)
      PROVE  Cardinality(GoneUp(uplink', u)) + Due(u)' <= Cardinality(Owed(messages', u))
  <2> DEFINE a == Cardinality(GoneUp(uplink, u))
             b == Cardinality(Owed(messages, u))
  <2>1. a + Due(u) <= b
    BY <1>2 DEF AckInv
  <2>2. a \in Nat /\ b \in Nat
    <3>1. uplink \in Seq(Seq(Octets)) /\ IsSequence(messages)
      BY DEF AckInv
    <3>2. QED
      BY <3>1, CountTypesOK
  <2> HIDE DEF a, b
  <2>3. Due(u)' <= Due(u) /\ Due(u) \in Nat /\ Due(u)' \in Nat
    BY DEF Due
  <2>4. a + Due(u)' <= b
    BY <2>1, <2>2, <2>3
  <2>5. QED
    BY <2>4 DEF a, b
<1>3. QED
  BY <1>1, <1>2 DEF AckInv

(* The callback gets a message and, at QoS 1, an acknowledgement is begun.   *)
LEMMA AckPacket ==
  ASSUME AckInv, ClientTypes, RxPacket
  PROVE  AckInv'
<1> DEFINE first == FirstPacket(rx)
           m == IF first.type = PUBLISH THEN handle_publish(first.bytes) ELSE NoMessage
<1>1. /\ messages' = IF m = NoMessage THEN messages ELSE Append(messages, m)
      /\ IF NeedsAck(m) THEN tcp_send(build_puback(m.pid), "rx")
         ELSE UNCHANGED <<pc, packet, back, mode, want, uplink>>
  BY DEF RxPacket
<1>4. m.pid \in U16
  <2>1. rx \in Seq(Octets)
    BY DEF ClientTypes, FrameType
  <2>2. first.bytes \in Seq(Octets)
    BY <2>1, FirstPacketType
  <2>3. handle_publish(first.bytes).pid \in U16
    BY <2>2, HandledType
  <2>4. NoMessage.pid \in U16
    BY U16Is DEF NoMessage, Fits
  <2>5. QED
    BY <2>3, <2>4
<1> HIDE DEF m
<1>2. pc = "rx"
  BY DEF RxPacket
<1>3. /\ uplink \in Seq(Seq(Octets)) /\ IsSequence(messages) /\ AckShape /\ want \in Nat
  BY DEF AckInv, ClientTypes, ModuleTypes
<1>5. CASE m = NoMessage
  <2>1. ~ NeedsAck(m)
    <3>1. m.qos = -1
      BY <1>5 DEF NoMessage
    <3>2. QED
      BY <3>1 DEF NeedsAck
  <2>2. UNCHANGED <<uplink, messages, packet, pc>>
    BY <1>1, <1>5, <2>1
  <2>3. QED
    BY <2>2, AckStill
<1>6. CASE m # NoMessage
  <2>1. messages' = Append(messages, m) /\ IsSequence(messages')
    <3>1. messages' = Append(messages, m)
      BY <1>1, <1>6
    <3>2. QED
      BY <1>3, <3>1, OwedMore
  <2>2. ASSUME NEW u \in Seq(Octets), IsAck(u)
        PROVE  /\ Cardinality(GoneUp(uplink, u)) \in Nat /\ Cardinality(Owed(messages, u)) \in Nat
               /\ Cardinality(GoneUp(uplink, u)) <= Cardinality(Owed(messages, u))
               /\ Cardinality(Owed(messages', u))
                    = Cardinality(Owed(messages, u)) + (IF Asks(m, u) THEN 1 ELSE 0)
    <3> DEFINE a == Cardinality(GoneUp(uplink, u))
               b == Cardinality(Owed(messages, u))
    <3>1. a \in Nat /\ b \in Nat
      BY <1>3, CountTypesOK
    <3>2. a + Due(u) <= b
      BY <2>2 DEF AckInv
    <3>3. Due(u) = 0
      BY <1>2 DEF Due
    <3>4. Cardinality(Owed(Append(messages, m), u)) = b + (IF Asks(m, u) THEN 1 ELSE 0)
      BY <1>3, OwedMore
    <3> HIDE DEF a, b
    <3>5. a <= b
      BY <3>1, <3>2, <3>3
    <3>6. QED
      BY <2>1, <3>1, <3>4, <3>5 DEF a, b
  <2>3. CASE NeedsAck(m)
    <3>1. tcp_send(build_puback(m.pid), "rx") /\ m.qos = 1
      BY <1>1, <2>3 DEF NeedsAck
    <3>2. pc' = "prompt" /\ packet' = build_puback(m.pid)
      BY <3>1 DEF tcp_send
    <3>3. /\ uplink' \in Seq(Seq(Octets))
          /\ \A u : IsAck(u) => Cardinality(GoneUp(uplink', u)) = Cardinality(GoneUp(uplink, u))
      BY <1>3, <3>1, SendGoesUp
    <3>4. Len(packet') = 4
      BY <1>4, <3>2, PubackFacts
    <3>5. ASSUME NEW u \in Seq(Octets), IsAck(u)
          PROVE  Cardinality(GoneUp(uplink', u)) + Due(u)' <= Cardinality(Owed(messages', u))
      <4>1. Due(u)' = IF Asks(m, u) THEN 1 ELSE 0
        BY <3>1, <3>2 DEF Due, Asks
      <4> DEFINE a == Cardinality(GoneUp(uplink, u))
                 b == Cardinality(Owed(messages, u))
                 c == IF Asks(m, u) THEN 1 ELSE 0
      <4>2. a \in Nat /\ b \in Nat /\ a <= b /\ Cardinality(Owed(messages', u)) = b + c
        BY <2>2, <3>5
      <4>3. Cardinality(GoneUp(uplink', u)) = a
        BY <3>3, <3>5
      <4>4. c \in Nat
        OBVIOUS
      <4> HIDE DEF a, b, c
      <4>5. a + c <= b + c
        BY <4>2, <4>4
      <4>6. QED
        BY <4>1, <4>2, <4>3, <4>5 DEF c
    <3>6. QED
      BY <2>1, <3>3, <3>4, <3>5 DEF AckInv, AckShape
  <2>4. CASE ~ NeedsAck(m)
    <3>1. UNCHANGED <<pc, packet, uplink>>
      BY <1>1, <2>4
    <3>2. ASSUME NEW u \in Seq(Octets), IsAck(u)
          PROVE  Cardinality(GoneUp(uplink', u)) + Due(u)' <= Cardinality(Owed(messages', u))
      <4>1. Due(u)' = 0
        BY <1>2, <3>1 DEF Due
      <4> DEFINE a == Cardinality(GoneUp(uplink, u))
                 b == Cardinality(Owed(messages, u))
                 c == IF Asks(m, u) THEN 1 ELSE 0
      <4>2. a \in Nat /\ b \in Nat /\ a <= b /\ Cardinality(Owed(messages', u)) = b + c
        BY <2>2, <3>2
      <4>3. Cardinality(GoneUp(uplink', u)) = a
        BY <3>1
      <4>4. c \in Nat
        OBVIOUS
      <4> HIDE DEF a, b, c
      <4>5. a + 0 <= b + c
        BY <4>2, <4>4
      <4>6. QED
        BY <4>1, <4>2, <4>3, <4>5
    <3>3. QED
      BY <1>3, <2>1, <3>1, <3>2 DEF AckInv, AckShape
  <2>5. QED
    BY <2>3, <2>4
<1>7. QED
  BY <1>5, <1>6

(* A request is no acknowledgement.                                         *)
LEMMA AckRequest ==
  ASSUME AckInv, ClientTypes, Request
  PROVE  AckInv'
<1>1. PICK r \in Requests :
        IF Build(r, s_next_packet_id) = << >>
        THEN UNCHANGED <<pc, packet, back, mode, want, uplink>>
        ELSE tcp_send(Build(r, s_next_packet_id), "idle")
  BY DEF Request
<1> DEFINE p == Build(r, s_next_packet_id)
<1>2. messages' = messages /\ IsSequence(messages) /\ want \in Nat
  BY DEF Request, AckInv, ClientTypes, ModuleTypes
<1>3. OtherPacket(p)
  <2>1. s_next_packet_id \in U16
    <3>1. s_next_packet_id \in 1 .. U16Max /\ U16Max \in Nat
      BY U16Is DEF ClientTypes, CountTypes
    <3>2. QED
      BY <3>1 DEF U16
  <2>2. QED
    BY <2>1, BuildType
<1> HIDE DEF p
<1>4. CASE p = << >>
  <2>1. UNCHANGED <<uplink, messages, packet, pc>>
    BY <1>1, <1>2, <1>4 DEF p
  <2>2. QED
    BY <1>2, <2>1, AckStill
<1>5. CASE p # << >>
  <2>1. tcp_send(p, "idle")
    BY <1>1, <1>5 DEF p
  <2>2. packet' = p /\ p[1] # 16 * PUBACK
    BY <1>3, <1>5, <2>1 DEF tcp_send, OtherPacket
  <2>3. /\ uplink' \in Seq(Seq(Octets))
        /\ \A u : IsAck(u) => Cardinality(GoneUp(uplink', u)) = Cardinality(GoneUp(uplink, u))
    BY <1>2, <2>1, SendGoesUp DEF AckInv
  <2>4. ASSUME NEW u \in Seq(Octets), IsAck(u)
        PROVE  Cardinality(GoneUp(uplink', u)) + Due(u)' <= Cardinality(Owed(messages', u))
    <3> DEFINE a == Cardinality(GoneUp(uplink, u))
               b == Cardinality(Owed(messages, u))
    <3>1. Due(u)' = 0
      BY <2>2, <2>4 DEF Due, IsAck
    <3>2. a \in Nat /\ b \in Nat
      BY <1>2, CountTypesOK DEF AckInv
    <3>3. a + Due(u) <= b /\ Due(u) \in Nat
      BY <2>4 DEF AckInv, Due
    <3>4. Cardinality(GoneUp(uplink', u)) = a /\ Cardinality(Owed(messages', u)) = b
      BY <1>2, <2>3, <2>4
    <3> HIDE DEF a, b
    <3>5. a + 0 <= b
      BY <3>2, <3>3
    <3>6. QED
      BY <3>1, <3>4, <3>5
  <2>5. QED
    BY <1>2, <2>2, <2>3, <2>4 DEF AckInv, AckShape
<1>6. QED
  BY <1>4, <1>5

(* The prompt is there: the acknowledgement goes up, or its front, or is     *)
(* lost.                                                                   *)
LEMMA AckPrompt ==
  ASSUME AckInv, ClientTypes, PromptSeen
  PROVE  AckInv'
<1>1. /\ pc = "prompt" /\ pc' = "sendok" /\ UNCHANGED <<packet, messages>>
      /\ IF mode = "data" THEN TakeData(packet) ELSE UNCHANGED <<mode, want, uplink>>
  BY DEF PromptSeen
<1>2. /\ IsSequence(messages) /\ want \in Nat /\ packet \in Seq(Octets)
      /\ uplink \in Seq(Seq(Octets)) /\ AckShape
  BY DEF AckInv, ClientTypes, ModuleTypes, SendTypes
<1>3. CASE mode # "data"
  <2>1. UNCHANGED <<uplink, messages, packet>> /\ pc' # "prompt"
    BY <1>1, <1>3
  <2>2. QED
    BY <1>2, <2>1, AckStill
<1>4. CASE mode = "data"
  <2>1. TakeData(packet)
    BY <1>1, <1>4
  <2>2. PICK v \in Seq(Octets) :
          /\ uplink' = Append(uplink, v)
          /\ IsAck(v) => /\ packet # << >> /\ packet[1] = 16 * PUBACK
                         /\ Len(packet) = 4 => v = packet
    BY <1>2, <2>1, TakesFront
  <2>3. IsAck(v) => v = packet
    BY <1>2, <2>2 DEF AckShape
  <2>4. uplink' \in Seq(Seq(Octets))
    <3> DEFINE Q == Seq(Octets)
    <3>1. uplink \in Seq(Q) /\ v \in Q
      BY <1>2
    <3> HIDE DEF Q
    <3>2. Append(uplink, v) \in Seq(Q)
      BY <3>1, AppendFacts
    <3>3. QED
      BY <2>2, <3>2 DEF Q
  <2>5. ASSUME NEW u \in Seq(Octets), IsAck(u)
        PROVE  Cardinality(GoneUp(uplink', u)) + Due(u)' <= Cardinality(Owed(messages', u))
    <3> DEFINE a == Cardinality(GoneUp(uplink, u))
               b == Cardinality(Owed(messages, u))
               c == IF v = u THEN 1 ELSE 0
    <3>1. a \in Nat /\ b \in Nat
      BY <1>2, CountTypesOK
    <3>2. Cardinality(GoneUp(Append(uplink, v), u)) = a + c
      BY <1>2, GoneUpMore
    <3>3. c <= Due(u) /\ c \in Nat /\ Due(u) \in Nat
      BY <1>1, <2>3, <2>5 DEF Due
    <3>4. a + Due(u) <= b
      BY <2>5 DEF AckInv
    <3>5. Due(u)' = 0
      BY <1>1 DEF Due
    <3> HIDE DEF a, b, c
    <3>6. a + c + 0 <= b
      BY <3>1, <3>3, <3>4
    <3>7. Cardinality(GoneUp(uplink', u)) = a + c /\ Cardinality(Owed(messages', u)) = b
      BY <1>1, <2>2, <3>2 DEF b
    <3>8. QED
      BY <3>5, <3>6, <3>7
  <2>6. QED
    BY <1>1, <1>2, <2>4, <2>5 DEF AckInv, AckShape
<1>5. QED
  BY <1>3, <1>4

(* Every step keeps the acknowledgements owed.                              *)
LEMMA AckNext ==
  ASSUME AckInv, ClientTypes, [Next]_vars
  PROVE  AckInv'
<1> USE DEF module, history, client
<1>1. CASE SkipByte
  BY <1>1, AckStill DEF SkipByte
<1>2. back \in Callers
  BY DEF ClientTypes, SendTypes
<1>3. CASE Loop
  BY <1>3, AckStill DEF Loop
<1>4. CASE Request
  BY <1>4, AckRequest
<1>5. CASE PromptSeen
  BY <1>5, AckPrompt
<1>6. CASE SendOkSeen
  <2>1. UNCHANGED <<uplink, messages, packet>> /\ pc' = back
    BY <1>6 DEF SendOkSeen
  <2>2. QED
    BY <1>2, <2>1, AckStill DEF Callers
<1>7. CASE WaitTimesOut
  <2>1. UNCHANGED <<uplink, messages, packet>> /\ pc' = back
    BY <1>7 DEF WaitTimesOut
  <2>2. QED
    BY <1>2, <2>1, AckStill DEF Callers
<1>8. CASE NoFrame
  BY <1>8, AckStill DEF NoFrame
<1>9. CASE SkipFrame
  BY <1>9, AckStill DEF SkipFrame
<1>10. CASE TakeFrame
  BY <1>10, AckStill DEF TakeFrame
<1>11. CASE RxDone
  BY <1>11, AckStill DEF RxDone
<1>12. CASE RxPacket
  BY <1>12, AckPacket
<1>13. CASE LineRound
  BY <1>13, AckStill DEF LineRound
<1>14. CASE LinesDone
  BY <1>14, AckStill DEF LinesDone
<1>15. CASE PromptForData
  BY <1>15, AckStill DEF PromptForData
<1>16. CASE ConfirmData
  BY <1>16, AckStill DEF ConfirmData
<1>17. CASE ForwardFrame
  BY <1>17, AckStill DEF ForwardFrame
<1>18. CASE LinkCloses
  BY <1>18, AckStill DEF LinkCloses
<1>19. CASE Interrupt
  BY <1>19, AckStill DEF Interrupt
<1>20. CASE UNCHANGED vars
  BY <1>20, AckStill DEF vars
<1>21. QED
  BY <1>1, <1>3, <1>4, <1>5, <1>6, <1>7, <1>8, <1>9, <1>10, <1>11, <1>12, <1>13, <1>14, <1>15,
     <1>16, <1>17, <1>18, <1>19, <1>20 DEF Next, mqtt_task, Module

(* At first nothing has gone up.                                            *)
LEMMA AckInit ==
  ASSUME Init
  PROVE  AckInv
<1>1. uplink = << >> /\ messages = << >> /\ packet = << >> /\ pc = "idle"
  BY DEF Init
<1>2. << >> \in Seq(Seq(Octets)) /\ IsSequence(<< >>)
  BY EmptySeq DEF IsSequence
<1>3. \A u : GoneUp(uplink, u) = {} /\ Owed(messages, u) = {} /\ Due(u) = 0
  BY <1>1 DEF GoneUp, Owed, Due
<1>4. Cardinality({}) = 0
  BY FS_EmptySet
<1>5. \A u : Cardinality(GoneUp(uplink, u)) + Due(u) <= Cardinality(Owed(messages, u))
  BY <1>3, <1>4
<1>6. QED
  BY <1>1, <1>2, <1>5 DEF AckInv, AckShape

(* AcksAreOwed: an acknowledgement that goes up whole is of a message that   *)
(* was given to the callback, and there are no more of them than there were *)
(* messages, however the sends in the callback fail.                       *)
THEOREM NoAckUnowed == Spec => []AcksAreOwed
<1>1. Init => AckInv
  BY AckInit
<1>2. StreamInv /\ TypeOK => ClientTypes
  BY TypesAreClientTypes
<1>3. AckInv /\ ClientTypes /\ [Next]_vars => AckInv'
  BY AckNext
<1>4. AckInv => AcksAreOwed
  <2> SUFFICES ASSUME AckInv, NEW i \in DOMAIN uplink, IsAck(uplink[i])
               PROVE  Cardinality(GoneUp(uplink, uplink[i]))
                        <= Cardinality(Owed(messages, uplink[i]))
    BY DEF AcksAreOwed, IsAck, GoneUp, Owed, Asks
  <2> DEFINE u == uplink[i]
             Q == Seq(Octets)
             a == Cardinality(GoneUp(uplink, u))
             b == Cardinality(Owed(messages, u))
  <2>1. uplink \in Seq(Q) /\ IsSequence(messages)
    BY DEF AckInv
  <2>2. u \in Q
    <3> HIDE DEF Q
    <3>1. QED
      BY <2>1
  <2>3. a + Due(u) <= b
    BY <2>2 DEF AckInv
  <2>4. a \in Nat /\ b \in Nat
    BY <2>1, CountTypesOK
  <2>5. Due(u) \in Nat
    BY DEF Due
  <2> HIDE DEF a, b, u
  <2>6. a <= b
    BY <2>3, <2>4, <2>5
  <2>7. QED
    BY <2>6 DEF a, b, u
<1>5. QED
  BY <1>1, <1>2, <1>3, <1>4, StreamInvariant, ChannelTypes, PTL DEF Spec

-----------------------------------------------------------------------------
(* The channel as a feed of messages.                                      *)

(* What waits is what handle_rx has left.                                   *)
LEMMA WaitingIs ==
  ASSUME NEW S, NEW a \in Seq(S), NEW b \in Seq(S), NEW all, a \o b = all
  PROVE  SubSeq(all, Len(a) + 1, Len(all)) = b
  BY CutFacts

(* The messages sent, by frame, and one frame more.                         *)
LEMMA SentMessagesMore ==
  ASSUME sent \in Seq(SentFrame), NEW f \in Seq(Messages),
         sent' = Append(sent, [messages |-> f, bytes |-> Bytes(f)]),
         [messages |-> f, bytes |-> Bytes(f)] \in SentFrame
  PROVE  SentMessages' = Append(SentMessages, f)
<1> DEFINE e == [messages |-> f, bytes |-> Bytes(f)]
           l == Len(sent)
           Q == Seq(Messages)
           u == SentMessages'
           v == Append(SentMessages, f)
<1>1. e \in SentFrame /\ e.messages = f /\ sent' = Append(sent, e)
  OBVIOUS
<1>2. l \in Nat /\ DOMAIN sent = 1 .. l /\ \A n \in 1 .. l : sent[n].messages \in Q
  BY FrameTypes
<1>3. f \in Q
  OBVIOUS
<1> HIDE DEF e, Q
<1>4. /\ DOMAIN sent' = 1 .. l + 1 /\ sent'[l + 1] = e
      /\ \A n \in 1 .. l : sent'[n] = sent[n]
  BY <1>1, <1>2, AppendFacts
<1> HIDE DEF l
<1>5. SentMessages = [n \in 1 .. l |-> sent[n].messages]
  BY <1>2 DEF SentMessages
<1>6. SentMessages \in Seq(Q) /\ Len(SentMessages) = l
  <2>1. SentMessages \in [1 .. l -> Q]
    BY <1>2, <1>5
  <2>2. QED
    BY <1>2, <2>1, FunctionFacts
<1>7. /\ DOMAIN v = 1 .. l + 1 /\ v[l + 1] = f /\ v \in Seq(Q)
      /\ \A n \in 1 .. l : v[n] = SentMessages[n]
  BY <1>3, <1>6, AppendFacts
<1> HIDE DEF v
<1>8. u = [n \in 1 .. l + 1 |-> sent'[n].messages]
  BY <1>4 DEF SentMessages
<1>9. ASSUME NEW n \in 1 .. l + 1 PROVE sent'[n].messages = v[n]
  <2>1. CASE n = l + 1
    BY <1>1, <1>4, <1>7, <2>1
  <2>2. CASE n # l + 1
    <3>1. n \in 1 .. l
      BY <1>2, <2>2
    <3>2. QED
      BY <1>4, <1>5, <1>7, <3>1
  <2>3. QED
    BY <2>1, <2>2
<1>10. v = [n \in 1 .. l + 1 |-> v[n]]
  BY <1>7
<1>11. u = v
  BY <1>8, <1>9, <1>10
<1>12. QED
  BY <1>11 DEF v

(* A step that leaves the frames and the callback alone is none of the feed. *)
LEMMA FeedStill ==
  ASSUME UNCHANGED <<sent, delivered, messages>>
  PROVE  UNCHANGED <<SentMessages, LastTaken, Waiting, messages>>
<1>1. Given' = Given
  BY DEF Given
<1>2. QED
  BY <1>1 DEF SentMessages, LastTaken, Waiting

(* The broker sends a frame.                                                *)
LEMMA FeedSend ==
  ASSUME StreamInv, Sound, Handled, ForwardFrame
  PROVE  \E f \in Frames : Feed!Send(f)
<1>1. PICK f \in Frames : sent' = Append(sent, [messages |-> f, bytes |-> Bytes(f)])
  BY DEF ForwardFrame
<1>2. UNCHANGED <<messages, delivered>>
  BY DEF ForwardFrame
<1>3. Given' = Given
  BY HandledForward
<1>4. SentMessages' = Append(SentMessages, f)
  <2>1. sent \in Seq(SentFrame)
    BY DEF StreamInv, StreamTypes
  <2>2. f \in Seq(Messages) /\ [messages |-> f, bytes |-> Bytes(f)] \in SentFrame
    BY ChannelAssumption, FrameTyped
  <2>3. QED
    BY <1>1, <2>1, <2>2, SentMessagesMore
<1>5. UNCHANGED <<LastTaken, Waiting, messages>>
  BY <1>2, <1>3 DEF LastTaken, Waiting
<1>6. QED
  BY <1>4, <1>5 DEF Feed!Send

(* The parser takes a frame: the last one was handled to its end, and this   *)
(* one is a later one.                                                      *)
LEMMA FeedTake ==
  ASSUME StreamInv, StreamInv', Sound, Sound', Handled, TakeFrame
  PROVE  \E n \in DOMAIN SentMessages : Feed!Take(n)
<1>1. PICK n \in DOMAIN sent, e \in Delivery, rest \in Seq(Messages) :
        /\ delivered' = Append(delivered, e) /\ e.of = n
        /\ rest = sent[n].messages /\ Pending(rest)'
  BY HandledTake
<1>2. messages = FlattenSeq(Given) /\ UNCHANGED <<sent, messages>>
  BY HandledTake
<1>3. messages \in Seq(Messages)
  BY DEF Handled
<1>4. Waiting = << >>
  <2>1. << >> \in Seq(Messages) /\ messages \o << >> = FlattenSeq(Given)
    BY <1>2, <1>3, EmptySeq, ConcatEmptySeq
  <2>2. QED
    BY <1>3, <2>1, WaitingIs DEF Waiting
<1>5. Waiting' = rest
  <2>1. messages' \o rest = FlattenSeq(Given') /\ messages' \in Seq(Messages)
    BY <1>1, <1>2, <1>3 DEF Pending
  <2>2. QED
    BY <2>1, WaitingIs DEF Waiting
<1>6. delivered \in Seq(Delivery) /\ Ascending(delivered') /\ n \in Nat \ {0}
      /\ \A x \in DOMAIN delivered : delivered[x].of \in Nat
  <2>1. delivered \in Seq(Delivery) /\ sent \in Seq(SentFrame) /\ Ascending(delivered')
        /\ Sent(delivered, sent)
    BY DEF StreamInv, StreamTypes, Delivers
  <2>2. DOMAIN sent = 1 .. Len(sent) /\ Len(sent) \in Nat
    BY <2>1
  <2>3. QED
    BY <1>1, <2>1, <2>2 DEF Sent
<1> DEFINE l == Len(delivered)
<1>7. /\ delivered' # << >> /\ Len(delivered') = l + 1 /\ delivered'[l + 1] = e /\ l \in Nat
      /\ DOMAIN delivered' = 1 .. l + 1 /\ DOMAIN delivered = 1 .. l
      /\ \A i \in 1 .. l : delivered'[i] = delivered[i]
  BY <1>1, <1>6, AppendFacts, EmptySeq
<1>8. LastTaken' = n
  BY <1>1, <1>7 DEF LastTaken
<1>9. LastTaken < n
  <2>1. CASE delivered = << >>
    BY <1>6, <2>1 DEF LastTaken
  <2>2. CASE delivered # << >>
    <3>1. l \in 1 .. l /\ l \in DOMAIN delivered' /\ l + 1 \in DOMAIN delivered' /\ l < l + 1
      BY <1>6, <1>7, <2>2
    <3>2. delivered'[l].of < delivered'[l + 1].of
      BY <1>6, <3>1 DEF Ascending
    <3>3. LastTaken = delivered[l].of
      BY <2>2 DEF LastTaken
    <3>4. QED
      BY <1>1, <1>7, <3>1, <3>2, <3>3
  <2>3. QED
    BY <2>1, <2>2
<1>10. n \in DOMAIN SentMessages /\ SentMessages[n] = rest /\ SentMessages' = SentMessages
  BY <1>1, <1>2 DEF SentMessages
<1>11. Feed!Take(n)
  BY <1>2, <1>4, <1>5, <1>8, <1>9, <1>10 DEF Feed!Take
<1>12. QED
  BY <1>10, <1>11

(* handle_rx gives the next message to the callback.                        *)
LEMMA FeedHandOver ==
  ASSUME Handled, RxPacket
  PROVE  Feed!HandOver
<1>1. PICK rest \in Seq(Messages) :
        /\ rest # << >> /\ Pending(rest) /\ messages' = Append(messages, rest[1])
        /\ Tail(rest) \in Seq(Messages) /\ messages' \o Tail(rest) = FlattenSeq(Given')
  BY HandledPacket
<1>2. UNCHANGED <<sent, delivered>>
  BY HandledPacket
<1>3. messages \in Seq(Messages) /\ messages' \in Seq(Messages)
  BY HandledPacket DEF Handled
<1>4. Waiting = rest
  <2>1. messages \o rest = FlattenSeq(Given)
    BY <1>1 DEF Pending
  <2>2. QED
    BY <1>3, <2>1, WaitingIs DEF Waiting
<1>5. Waiting' = Tail(rest)
  BY <1>1, <1>3, WaitingIs DEF Waiting
<1>6. Head(rest) = rest[1]
  BY <1>1, TakeFacts
<1>7. UNCHANGED <<SentMessages, LastTaken>>
  BY <1>2 DEF SentMessages, LastTaken
<1>8. QED
  BY <1>1, <1>4, <1>5, <1>6, <1>7 DEF Feed!HandOver

(* Every step of the channel is a step of the feed or none, and what cuts a   *)
(* frame that spells the mark breaks it.                                   *)
LEMMA FeedNext ==
  ASSUME StreamInv, StreamInv', HandledInv, [Next]_vars
  PROVE  [Feed!Next]_<<SentMessages, LastTaken, Waiting, messages, ~ Sound>>
<1> USE DEF module, history
<1>1. CASE ~ Sound'
  BY <1>1 DEF Feed!Next, Feed!Break
<1>2. CASE Sound'
  <2>1. Sound /\ Handled
    BY <1>2, SoundBefore DEF HandledInv
  <2>2. Feed!Deliver \/ UNCHANGED <<SentMessages, LastTaken, Waiting, messages>>
    <3>1. CASE ForwardFrame
      BY <2>1, <3>1, FeedSend DEF Feed!Deliver
    <3>2. CASE TakeFrame
      BY <1>2, <2>1, <3>2, FeedTake DEF Feed!Deliver
    <3>3. CASE RxPacket
      BY <2>1, <3>3, FeedHandOver DEF Feed!Deliver
    <3>4. CASE \/ Loop \/ Request \/ PromptSeen \/ SendOkSeen \/ WaitTimesOut \/ NoFrame
               \/ SkipByte \/ SkipFrame \/ RxDone \/ LineRound \/ LinesDone
      <4>1. UNCHANGED <<sent, delivered, messages>>
        BY <3>4 DEF Loop, Request, PromptSeen, SendOkSeen, WaitTimesOut, NoFrame,
                    SkipByte, SkipFrame, RxDone, LineRound, LinesDone
      <4>2. QED
        BY <4>1, FeedStill
    <3>5. CASE PromptForData \/ ConfirmData \/ LinkCloses \/ Interrupt \/ UNCHANGED vars
      <4>1. UNCHANGED <<sent, delivered, messages>>
        BY <3>5 DEF PromptForData, ConfirmData, LinkCloses, Interrupt, vars
      <4>2. QED
        BY <4>1, FeedStill
    <3>6. QED
      BY <3>1, <3>2, <3>3, <3>4, <3>5 DEF Next, mqtt_task, Module
  <2>3. CASE Feed!Deliver
    BY <1>2, <2>1, <2>3 DEF Feed!Next
  <2>4. CASE UNCHANGED <<SentMessages, LastTaken, Waiting, messages>>
    BY <1>2, <2>1, <2>4, Zenon
  <2>5. QED
    BY <2>2, <2>3, <2>4
<1>3. QED
  BY <1>1, <1>2

(* ImplementsFeed: to the callback of the MQTT client the channel is a feed   *)
(* of messages, whatever the waits, the line loop and the sends of            *)
(* acknowledgements in the callback do: the messages of the frames taken,    *)
(* each frame to its end before the next, none twice and none out of order,  *)
(* for every set of frames, every buffer size and any number of frames,     *)
(* until a frame that spells the mark is cut.                              *)
THEOREM ChannelImplementsFeed == Spec => ImplementsFeed
<1>1. Init => Feed!Init
  <2> SUFFICES ASSUME Init PROVE Feed!Init
    OBVIOUS
  <2>1. sent = << >> /\ delivered = << >> /\ messages = << >>
    BY DEF Init
  <2>2. SentMessages = << >> /\ LastTaken = 0 /\ Given = << >>
    BY <2>1 DEF SentMessages, LastTaken, Given
  <2>3. Waiting = << >>
    <3>1. FlattenSeq(Given) = << >>
      BY <2>2 DEF FlattenSeq
    <3>2. << >> \in Seq(Messages) /\ << >> \o << >> = << >>
      BY EmptySeq, ConcatEmptySeq
    <3>3. QED
      BY <2>1, <3>1, <3>2, WaitingIs DEF Waiting
  <2>4. Sound
    <3>1. CutIn(cut) = {}
      BY DEF Init, CutIn
    <3>2. QED
      BY <3>1 DEF Sound
  <2>5. QED
    BY <2>1, <2>2, <2>3, <2>4 DEF Feed!Init
<1>2. StreamInv /\ StreamInv' /\ HandledInv /\ [Next]_vars
        => [Feed!Next]_<<SentMessages, LastTaken, Waiting, messages, ~ Sound>>
  BY FeedNext
<1>3. QED
  BY <1>1, <1>2, StreamInvariant, HandledInvariant, PTL DEF Spec, ImplementsFeed, Feed!Spec
=============================================================================
