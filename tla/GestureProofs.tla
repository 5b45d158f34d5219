---------------------------- MODULE GestureProofs ----------------------------
(***************************************************************************)
(* Theorems about Gesture, for a ring of any size, any number of tries and *)
(* any positions: parse_read_reg finds exactly the first whole answer in   *)
(* whatever recv returns, so that what is taken for a position is one; a   *)
(* steady slide is recognised although the ring is turned back one late;   *)
(* and every hint that is lit is accounted for.                            *)
(*                                                                         *)
(* Parse and Stream are recursive functions.  What they compute is proved  *)
(* from their equations, with least elements of sets of numbers in place   *)
(* of induction.                                                           *)
(***************************************************************************)
EXTENDS Gesture, WellFoundedInduction, SequenceTheorems, FiniteSetTheorems, TLAPS

-----------------------------------------------------------------------------
(* Numbers. *)

\* A set of numbers that is not empty has a least element.
LEMMA Least ==
  ASSUME NEW T \in SUBSET Nat, T # {}
  PROVE  \E x \in T : \A y \in T : x <= y
<1> DEFINE R == {ss \in Nat \X Nat : ss[1] < ss[2]}
<1>1. IsWellFoundedOn(R, Nat)
  BY NatLessThanWellFounded DEF OpToRel
<1>2. \A a, b \in Nat : <<a, b>> \in R <=> a < b
  OBVIOUS
<1> HIDE DEF R
<1>3. PICK x \in T : \A y \in T : ~ (<<y, x>> \in R)
  BY <1>1, WFMin
<1>4. ASSUME NEW y \in T PROVE x <= y
  <2>1. ~ (<<y, x>> \in R) /\ x \in Nat /\ y \in Nat
    BY <1>3
  <2>2. ~ (y < x)
    BY <1>2, <2>1
  <2> QED
    BY <2>1, <2>2
<1> QED
  BY <1>4

\* Induction for a set of numbers: were one missing, there would be a least one.
LEMMA SetInduction ==
  ASSUME NEW S, 0 \in S, \A n \in Nat : n \in S => n + 1 \in S
  PROVE  Nat \subseteq S
<1> SUFFICES ASSUME ~(Nat \subseteq S) PROVE FALSE
  OBVIOUS
<1> DEFINE T == Nat \ S
<1>1. PICK x \in T : \A y \in T : x <= y
  <2>1. T \in SUBSET Nat /\ T # {}
    OBVIOUS
  <2> HIDE DEF T
  <2> QED
    BY <2>1, Least
<1>2. x - 1 \in Nat /\ x - 1 \in S
  BY <1>1
<1> QED
  BY <1>1, <1>2

-----------------------------------------------------------------------------
(* The scan of parse_read_reg. *)

\* One look of the scan: the body of its loop at position p.
Look(buf, n, addr, p, scan) ==
  LET size == Signed(buf[p + 2]) + 3 IN
  IF p = n THEN 0
  ELSE IF ~Header(buf, p) THEN scan[p + 1]
  ELSE IF n < p + size THEN 0
  ELSE IF buf[p + 4] = addr THEN p + 6
  ELSE IF size <= 0 THEN STUCK
  ELSE scan[p + size]

\* Whatever satisfies the equation of the scan is the scan: were there a difference,
\* the last position with one would look at later positions only.
LEMMA ParseIs ==
  ASSUME NEW buf, NEW n \in Nat, NEW addr, NEW g,
         \A p \in 0..n : Signed(buf[p + 2]) \in Int,
         g = [p \in 0..n |-> Look(buf, n, addr, p, g)]
  PROVE  Parse(buf, n, addr) = g[0]
<1> DEFINE Sol(f) == f = [p \in 0..n |-> Look(buf, n, addr, p, f)]
           f == CHOOSE h : Sol(h)
<1>1. Parse(buf, n, addr) = f[0]
  BY DEF Parse, Look
<1>2. Sol(f)
  <2>1. Sol(g)
    OBVIOUS
  <2> QED
    BY <2>1
<1> HIDE DEF f
<1>3. SUFFICES ASSUME f[0] # g[0] PROVE FALSE
  BY <1>1
<1> DEFINE T == {m \in 0..n : f[n - m] # g[n - m]}
<1>4. PICK m \in T : \A k \in T : m <= k
  <2>1. n \in T /\ T \in SUBSET Nat
    BY <1>3
  <2> HIDE DEF T
  <2> QED
    BY <2>1, Least
<1>5. /\ m \in 0..n /\ n - m \in 0..n /\ f[n - m] # g[n - m]
      /\ \A k \in 0..n : k < m => f[n - k] = g[n - k]
  <2>1. m \in 0..n /\ f[n - m] # g[n - m]
    OBVIOUS
  <2>2. ASSUME NEW k \in 0..n, k < m PROVE f[n - k] = g[n - k]
    <3>1. k \notin T
      <4> HIDE DEF T
      <4> QED
        BY <1>4, <2>1, <2>2
    <3> QED
      BY <3>1
  <2>3. n - m \in 0..n
    BY <2>1
  <2>4. \A k \in 0..n : k < m => f[n - k] = g[n - k]
    BY <2>2
  <2> QED
    BY <2>1, <2>3, <2>4
<1> DEFINE p == n - m
<1>6. p \in 0..n /\ \A q \in 0..n : q > p => f[q] = g[q]
  <2>1. ASSUME NEW q \in 0..n, q > p PROVE f[q] = g[q]
    <3>1. n - (n - q) = q /\ n - q \in 0..n /\ n - q < m
      BY <1>5, <2>1
    <3> HIDE DEF p
    <3> QED
      BY <1>5, <3>1
  <2> QED
    BY <1>5, <2>1
<1>7. f[p] = Look(buf, n, addr, p, f) /\ g[p] = Look(buf, n, addr, p, g)
  BY <1>2, <1>5
<1>8. f[p] # g[p]
  BY <1>5
<1> HIDE DEF p, T, Sol
<1>9. p # n => p + 1 \in 0..n /\ f[p + 1] = g[p + 1]
  BY <1>6
<1>10. Look(buf, n, addr, p, f) = Look(buf, n, addr, p, g)
  <2> DEFINE size == Signed(buf[p + 2]) + 3
  <2>1. size \in Int
    BY <1>6
  <2>2. ~ (n < p + size) /\ ~ (size <= 0) => p + size \in 0..n /\ f[p + size] = g[p + size]
    BY <1>6, <2>1
  <2> QED
    BY <1>9, <2>1, <2>2 DEF Look
<1> QED
  BY <1>7, <1>8, <1>10

-----------------------------------------------------------------------------
\* Position p of the received bytes begins an answer, as far as it was received.
Opens(bytes, n, p) ==
  \A k \in 0..4 : p + k < n =>
    bytes[p + k + 1] = <<HEAD_H, HEAD_L, 9, READ_REG, TOUCH_REG>>[k + 1]

\* What looks like the beginning of a header in n received bytes is one.
Genuine(bytes, n) ==
  /\ \A j \in 1..n : bytes[j] \in 0..255
  /\ \A p \in 0..(n - 1) :
       bytes[p + 1] = HEAD_H /\ (p + 1 < n => bytes[p + 2] = HEAD_L)
         => Opens(bytes, n, p)

\* Where an answer that was received whole begins.
Answers(bytes, n) == {p \in 0..(n - 12) : Opens(bytes, n, p)}

\* Where the data of the first answer lies.
DataOf(starts) ==
  IF starts = {} THEN 0 ELSE (CHOOSE q \in starts : \A r \in starts : q <= r) + 6

\* It is found from the least of the beginnings.
LEMMA DataOfLeast ==
  ASSUME NEW starts, NEW p \in starts, starts \in SUBSET Nat, \A r \in starts : p <= r
  PROVE  DataOf(starts) = p + 6
<1> DEFINE c == CHOOSE q \in starts : \A r \in starts : q <= r
<1>1. c \in starts /\ \A r \in starts : c <= r
  OBVIOUS
<1> HIDE DEF c
<1>2. c <= p /\ p <= c /\ c \in Nat /\ p \in Nat
  BY <1>1
<1>3. c = p
  BY <1>2
<1> QED
  BY <1>3 DEF DataOf, c

\* The bytes of a request, one by one.
LEMMA RequestBytes ==
  /\ ReadRequest[1] = 165 /\ ReadRequest[2] = 90 /\ ReadRequest[3] = 3
  /\ ReadRequest[4] = 129 /\ ReadRequest[5] = 5 /\ ReadRequest[6] = 6
  /\ Len(ReadRequest) = 6
BY DEF ReadRequest, HEAD_H, HEAD_L, READ_REG, TOUCH_REG

\* And those an earlier call may have left.
LEMMA StaleBytes ==
  LET stale == <<HEAD_L, 9, READ_REG, TOUCH_REG>>
  IN  stale[1] = 90 /\ stale[2] = 9 /\ stale[3] = 129 /\ stale[4] = 5
BY DEF HEAD_L, READ_REG, TOUCH_REG

\* What lies in the buffer behind n received bytes: the rest of the request, and
\* what an earlier call has left.
Holds(buf, bytes, n) ==
  /\ \A i \in 0..20 : buf[i] \in 0..255
  /\ \A i \in 0..(n - 1) : buf[i] = bytes[i + 1]
  /\ \A i \in n..5 : buf[i] = ReadRequest[i + 1]
  /\ n >= 6 => buf[n] \in {90, 0} /\ buf[n + 1] \in {9, 0}

\* Three rules for what lies where are enough for that.
LEMMA HoldsIf ==
  ASSUME NEW n \in 0..16, NEW bytes, \A j \in 1..n : bytes[j] \in 0..255,
         NEW stale, stale[1] = 90 /\ stale[2] = 9 /\ stale[3] = 129 /\ stale[4] = 5,
         NEW buf, 
         \A i \in 0..20 : i < n => buf[i] = bytes[i + 1],
         \A i \in 0..20 : ~ (i < n) /\ i < 6 => buf[i] = ReadRequest[i + 1],
         \A i \in 0..20 : ~ (i < n) /\ ~ (i < 6) => buf[i] \in {0, stale[1 + ((i - n) % 4)]}
  PROVE  Holds(buf, bytes, n)
<1>3. ASSUME NEW i \in 0..20 PROVE buf[i] \in 0..255
  <2>1. CASE i < n
    BY <2>1
  <2>2. CASE ~ (i < n) /\ i < 6
    <3>1. buf[i] = ReadRequest[i + 1]
      BY <2>2
    <3>2. i \in {0, 1, 2, 3, 4, 5}
      BY <2>2
    <3> QED
      BY <3>1, <3>2, RequestBytes
  <2>3. CASE ~ (i < n) /\ ~ (i < 6)
    <3>1. (i - n) % 4 \in {0, 1, 2, 3}
      BY <2>3
    <3>2. stale[1 + ((i - n) % 4)] \in 0..255
      BY <3>1
    <3>3. buf[i] = 0 \/ buf[i] = stale[1 + ((i - n) % 4)]
      BY <2>3
    <3> QED
      BY <3>2, <3>3
  <2> QED
    BY <2>1, <2>2, <2>3
<1>4. \A i \in 0..(n - 1) : buf[i] = bytes[i + 1]
  OBVIOUS
<1>5. \A i \in n..5 : buf[i] = ReadRequest[i + 1]
  OBVIOUS
<1>6. ASSUME n >= 6 PROVE buf[n] \in {90, 0} /\ buf[n + 1] \in {9, 0}
  <2>1. (n - n) % 4 = 0 /\ (n + 1 - n) % 4 = 1
    OBVIOUS
  <2>2. n \in 0..20 /\ n + 1 \in 0..20
    OBVIOUS
  <2>3. buf[n] \in {0, stale[1 + ((n - n) % 4)]}
    BY <1>6, <2>2
  <2>4. buf[n + 1] \in {0, stale[1 + ((n + 1 - n) % 4)]}
    BY <1>6, <2>2
  <2> QED
    BY <2>1, <2>3, <2>4
<1> QED
  BY <1>3, <1>4, <1>5, <1>6 DEF Holds

\* The buffer after recv keeps those rules.
LEMMA BufferHolds ==
  ASSUME NEW bytes, Len(bytes) \in 0..RBUF, \A j \in 1..Len(bytes) : bytes[j] \in 0..255,
         NEW junk \in BOOLEAN
  PROVE  Holds(Buffer(bytes, junk), bytes, Len(bytes))
<1> DEFINE stale == <<HEAD_L, 9, READ_REG, TOUCH_REG>>
           buf == Buffer(bytes, junk)
           n == Len(bytes)
<1>1. ASSUME NEW i \in 0..20
      PROVE  /\ i < n => buf[i] = bytes[i + 1]
             /\ ~ (i < n) /\ i < 6 => buf[i] = ReadRequest[i + 1]
             /\ ~ (i < n) /\ ~ (i < 6) => buf[i] \in {0, stale[1 + ((i - n) % 4)]}
  BY RequestBytes DEF Buffer, RBUF
<1>2. stale[1] = 90 /\ stale[2] = 9 /\ stale[3] = 129 /\ stale[4] = 5
  BY StaleBytes
<1>3. n \in 0..16 /\ \A j \in 1..n : bytes[j] \in 0..255
  BY DEF RBUF
<1> HIDE DEF stale, buf, n
<1>4. Holds(buf, bytes, n)
  <2>1. \A i \in 0..20 : i < n => buf[i] = bytes[i + 1]
    BY <1>1
  <2>2. \A i \in 0..20 : ~ (i < n) /\ i < 6 => buf[i] = ReadRequest[i + 1]
    BY <1>1
  <2>3. \A i \in 0..20 : ~ (i < n) /\ ~ (i < 6) => buf[i] \in {0, stale[1 + ((i - n) % 4)]}
    BY <1>1
  <2> QED
    BY <1>2, <1>3, <2>1, <2>2, <2>3, HoldsIf
<1> QED
  BY <1>4 DEF buf, n

\* A header that begins in the received bytes without a whole answer behind it
\* lies so near their end that what is taken for its length leads past it.
LEMMA EndOfBytes ==
  ASSUME NEW n \in 0..16, NEW bytes, Genuine(bytes, n),
         NEW buf, Holds(buf, bytes, n),
         NEW p \in 0..(n - 1), Header(buf, p), p \notin Answers(bytes, n)
  PROVE  n < p + 12 /\ n < p + Signed(buf[p + 2]) + 3
<1> USE DEF Holds
<1>1. Opens(bytes, n, p)
  <2>1. bytes[p + 1] = HEAD_H
    BY DEF Header
  <2>2. p + 1 < n => bytes[p + 2] = HEAD_L
    BY DEF Header
  <2> QED
    BY <2>1, <2>2 DEF Genuine
<1>2. n < p + 12
  BY <1>1 DEF Answers
<1>3. CASE p + 2 < n
  <2>1. bytes[p + 3] = 9
    <3>1. bytes[p + 2 + 1] = <<HEAD_H, HEAD_L, 9, READ_REG, TOUCH_REG>>[2 + 1]
      BY <1>1, <1>3 DEF Opens
    <3> QED
      BY <3>1
  <2>2. buf[p + 2] = 9
    BY <1>3, <2>1
  <2> QED
    BY <1>2, <2>2 DEF Signed
<1>4. CASE p + 2 = n
  <2>1. buf[n] \in 0..255 /\ buf[n + 1] = 129
    BY <1>4 DEF Header, READ_REG
  <2>2. buf[n] < 128
    <3>1. CASE n >= 6
      BY <3>1
    <3>2. CASE n < 6
      <4>1. buf[n] = ReadRequest[n + 1] /\ (n < 5 => buf[n + 1] = ReadRequest[n + 2])
        BY <3>2
      <4>2. n \in {2, 3, 4, 5}
        BY <1>4, <3>2
      <4> QED
        BY <2>1, <4>1, <4>2, RequestBytes
    <3> QED
      BY <3>1, <3>2
  <2> QED
    BY <1>4, <2>1, <2>2 DEF Signed
<1>5. CASE p + 1 = n
  <2>1. buf[n] = 90
    BY <1>5 DEF Header, HEAD_L
  <2>2. buf[n + 1] < 128 /\ buf[n + 1] \in 0..255
    <3>1. CASE n >= 6
      BY <3>1
    <3>2. CASE n < 6
      <4>1. buf[n] = ReadRequest[n + 1] /\ (n < 5 => buf[n + 1] = ReadRequest[n + 2])
        BY <3>2
      <4>2. n \in {1, 2, 3, 4, 5}
        BY <1>5, <3>2
      <4> QED
        BY <2>1, <4>1, <4>2, RequestBytes
    <3> QED
      BY <3>1, <3>2
  <2> QED
    BY <1>5, <2>2 DEF Signed
<1> QED
  BY <1>2, <1>3, <1>4, <1>5

\* The scan finds the data of the first answer that was received whole.
LEMMA ScanFinds ==
  ASSUME NEW n \in 0..16, NEW bytes, Genuine(bytes, n),
         NEW buf, Holds(buf, bytes, n)
  PROVE  Parse(buf, n, TOUCH_REG) = DataOf(Answers(bytes, n))
<1> DEFINE W == Answers(bytes, n)
           From(p) == {q \in W : q >= p}
           g == [p \in 0..n |-> DataOf(From(p))]
<1>1. W \in SUBSET Nat /\ \A q \in W : q \in 0..(n - 12) /\ Opens(bytes, n, q)
  BY DEF Answers
<1>2. ASSUME NEW p \in 0..n PROVE Signed(buf[p + 2]) \in Int
  <2>1. buf[p + 2] \in 0..255
    BY DEF Holds
  <2> QED
    BY <2>1 DEF Signed
<1>3. ASSUME NEW q \in W
      PROVE  /\ q < n /\ q + 12 <= n
             /\ Header(buf, q) /\ buf[q + 4] = TOUCH_REG
             /\ Signed(buf[q + 2]) + 3 = 12
  <2> DEFINE opening == <<HEAD_H, HEAD_L, 9, READ_REG, TOUCH_REG>>
  <2>1. opening[1] = HEAD_H /\ opening[2] = HEAD_L /\ opening[3] = 9
        /\ opening[4] = READ_REG /\ opening[5] = TOUCH_REG
    OBVIOUS
  <2>2. \A k \in 0..4 : q + k < n => bytes[q + k + 1] = opening[k + 1]
    BY <1>1 DEF Opens
  <2>3. q \in Nat /\ q + 12 <= n
    BY <1>1
  <2> HIDE DEF opening, W
  <2>4. \A k \in 0..4 : buf[q + k] = bytes[q + k + 1]
    BY <2>3 DEF Holds
  <2>5. \A k \in 0..4 : buf[q + k] = opening[k + 1]
    BY <2>2, <2>3, <2>4
  <2>6. buf[q] = opening[1] /\ buf[q + 1] = opening[2] /\ buf[q + 2] = opening[3]
        /\ buf[q + 3] = opening[4] /\ buf[q + 4] = opening[5]
    <3>1. buf[q + 0] = opening[0 + 1] /\ buf[q + 1] = opening[1 + 1]
          /\ buf[q + 2] = opening[2 + 1] /\ buf[q + 3] = opening[3 + 1]
          /\ buf[q + 4] = opening[4 + 1]
      BY <2>5
    <3> QED
      BY <3>1, <2>3
  <2> QED
    BY <2>1, <2>3, <2>6 DEF Header, Signed
<1>4. ASSUME NEW p \in 0..n PROVE g[p] = Look(buf, n, TOUCH_REG, p, g)
  <2>1. g[p] = DataOf(From(p))
    OBVIOUS
  <2>2. CASE p = n
    <3>1. From(p) = {}
      <4>1. ASSUME NEW q \in W PROVE ~ (q >= p)
        BY <1>1, <1>3, <2>2, <4>1
      <4> QED
        BY <4>1
    <3> QED
      BY <2>1, <2>2, <3>1 DEF Look, DataOf
  <2>3. CASE p # n /\ ~ Header(buf, p)
    <3>1. p + 1 \in 0..n
      BY <2>3
    <3>2. From(p) = From(p + 1)
      <4>1. p \notin W
        BY <1>3, <2>3
      <4>2. ASSUME NEW q \in W PROVE q >= p <=> q >= p + 1
        <5>1. q \in Nat /\ q # p
          BY <1>1, <4>1
        <5> QED
          BY <5>1
      <4> QED
        BY <4>2
    <3>3. g[p] = g[p + 1]
      BY <3>1, <3>2
    <3> HIDE DEF g
    <3> QED
      BY <2>3, <3>3 DEF Look
  <2>4. CASE p # n /\ Header(buf, p) /\ p \in W
    <3>1. DataOf(From(p)) = p + 6
      <4>1. p \in From(p) /\ From(p) \in SUBSET Nat /\ \A r \in From(p) : p <= r
        BY <1>1, <2>4
      <4> HIDE DEF From
      <4> QED
        BY <4>1, DataOfLeast
    <3>2. /\ ~ (n < p + (Signed(buf[p + 2]) + 3)) /\ buf[p + 4] = TOUCH_REG
      BY <1>3, <2>4
    <3> HIDE DEF g
    <3> QED
      BY <2>1, <2>4, <3>1, <3>2 DEF Look
  <2>5. CASE p # n /\ Header(buf, p) /\ p \notin W
    <3>1. n < p + 12 /\ n < p + Signed(buf[p + 2]) + 3
      BY <2>5, EndOfBytes
    <3>2. From(p) = {}
      <4>1. ASSUME NEW q \in W PROVE ~ (q >= p)
        <5>1. q \in Nat /\ q + 12 <= n
          BY <1>1, <1>3
        <5> QED
          BY <3>1, <5>1
      <4> QED
        BY <4>1
    <3>3. n < p + (Signed(buf[p + 2]) + 3)
      BY <1>2, <3>1
    <3> QED
      BY <2>1, <2>5, <3>2, <3>3 DEF Look, DataOf
  <2> QED
    BY <2>2, <2>3, <2>4, <2>5
<1>5. g = [p \in 0..n |-> Look(buf, n, TOUCH_REG, p, g)]
  <2> DEFINE h == [p \in 0..n |-> Look(buf, n, TOUCH_REG, p, g)]
  <2>1. DOMAIN g = 0..n /\ g = [p \in 0..n |-> g[p]]
    OBVIOUS
  <2> HIDE DEF g
  <2> QED
    BY <1>4, <2>1
<1>6. Parse(buf, n, TOUCH_REG) = g[0]
  <2> HIDE DEF g
  <2> QED
    BY <1>2, <1>5, ParseIs
<1>7. From(0) = W
  BY <1>1
<1> QED
  BY <1>6, <1>7

-----------------------------------------------------------------------------
(* The messages of the screen. *)

\* The unread bytes are those of the messages, one after the other.
LEMMA StreamIs ==
  ASSUME MaxMail \in Nat
  PROVE  /\ Stream[0] = <<>>
         /\ \A i \in 1..MaxMail : Stream[i] = Stream[i - 1] \o mail[i].bytes
<1> DEFINE Sol(f, m) == f = [i \in 0..m |-> IF i = 0 THEN <<>> ELSE f[i - 1] \o mail[i].bytes]
           S == {m \in Nat : \E f : Sol(f, m)}
<1>1. 0 \in S
  <2> DEFINE f == [i \in 0..0 |-> <<>>]
  <2>1. Sol(f, 0)
    OBVIOUS
  <2> HIDE DEF Sol, f
  <2> QED
    BY <2>1
<1>2. ASSUME NEW m \in Nat, m \in S PROVE m + 1 \in S
  <2>1. PICK f : Sol(f, m)
    BY <1>2
  <2> DEFINE g == [i \in 0..(m + 1) |->
                     IF i = m + 1 THEN f[m] \o mail[m + 1].bytes ELSE f[i]]
  <2>2. ASSUME NEW i \in 0..(m + 1)
        PROVE  g[i] = IF i = 0 THEN <<>> ELSE g[i - 1] \o mail[i].bytes
    <3>1. CASE i = 0
      <4>1. g[i] = f[i]
        BY <3>1
      <4>2. f[i] = <<>>
        BY <2>1, <3>1
      <4> QED
        BY <3>1, <4>1, <4>2
    <3>2. CASE i = m + 1
      <4>1. i - 1 = m /\ m \in 0..(m + 1) /\ m # m + 1 /\ i # 0
        BY <3>2
      <4>2. g[m] = f[m]
        BY <4>1
      <4>3. g[i] = f[m] \o mail[i].bytes
        BY <3>2
      <4> HIDE DEF g
      <4> QED
        BY <4>1, <4>2, <4>3
    <3>3. CASE i # 0 /\ i # m + 1
      <4>1. i \in 0..m /\ i - 1 \in 0..(m + 1) /\ i - 1 # m + 1
        BY <3>3
      <4>2. g[i] = f[i] /\ g[i - 1] = f[i - 1]
        BY <3>3, <4>1
      <4>3. f[i] = f[i - 1] \o mail[i].bytes
        BY <2>1, <3>3, <4>1
      <4> HIDE DEF g
      <4> QED
        BY <3>3, <4>2, <4>3
    <3> QED
      BY <3>1, <3>2, <3>3
  <2>3. g = [i \in 0..(m + 1) |-> g[i]]
    OBVIOUS
  <2> HIDE DEF g
  <2>4. Sol(g, m + 1)
    BY <2>2, <2>3
  <2> HIDE DEF Sol
  <2> QED
    BY <2>4
<1>3. MaxMail \in S
  <2> HIDE DEF S
  <2> QED
    BY <1>1, <1>2, SetInduction
<1> DEFINE s == CHOOSE f : Sol(f, MaxMail)
<1>4. Stream = s
  BY DEF Stream
<1>5. Sol(s, MaxMail)
  <2>1. \E f : Sol(f, MaxMail)
    BY <1>3
  <2> HIDE DEF Sol
  <2> QED
    BY <2>1
<1> HIDE DEF s
<1> QED
  BY <1>4, <1>5

\* The answers of the screen.
IsAnswer(b) ==
  \/ b = Answer(0, 0, 0, 0)
  \/ b = Answer(UPDATED, LIFTED, 0, 0)
  \/ \E p \in Points : b = Answer(UPDATED, 1, p[1], p[2])

\* A message of the screen, or what is left of one.
Entry == [kind : {"press", "lift", "answer"}, bytes : Seq(0..255)]

\* An answer of which nothing has been read.
Whole(m) == m.kind = "answer" /\ Len(m.bytes) = 12

\* A message, or the end of one: only an answer that is still whole has the bytes
\* of a header in it, and it has them at its beginning.
Sent(m) ==
  /\ Len(m.bytes) \in Nat /\ Len(m.bytes) >= 1 /\ Len(m.bytes) <= 12
  /\ \A j \in 1..(Len(m.bytes) - 1) :
       m.bytes[j] = HEAD_H /\ m.bytes[j + 1] = HEAD_L => j = 1 /\ Whole(m)
  /\ Whole(m) => IsAnswer(m.bytes)

\* A text has no byte of a header in it.
LEMMA TextSent ==
  ASSUME NEW m \in {Message("press", PressText(0)), Message("press", PressText(1)),
                    Message("lift", LiftText)}
  PROVE  m \in Entry /\ Sent(m) /\ m.bytes[1] # HEAD_L
<1>1. ASSUME NEW b, NEW k \in {"press", "lift"}, m = Message(k, b), NEW n \in {4, 6},
             b \in Seq(0..255), Len(b) = n, \A j \in 1..n : b[j] < 128
      PROVE  m \in Entry /\ Sent(m)
  <2>1. m.kind = k /\ m.bytes = b /\ m \in Entry
    BY <1>1 DEF Message, Entry
  <2>2. ASSUME NEW j \in 1..(Len(m.bytes) - 1) PROVE m.bytes[j] # 165
    <3>1. j \in 1..n /\ m.bytes[j] = b[j]
      BY <1>1, <2>1
    <3> QED
      BY <1>1, <3>1
  <2>3. Len(m.bytes) \in Nat /\ Len(m.bytes) >= 1 /\ Len(m.bytes) <= 12
    <3>1. Len(m.bytes) = n
      BY <1>1, <2>1
    <3> QED
      BY <3>1
  <2> QED
    BY <1>1, <2>1, <2>2, <2>3 DEF Sent, Whole, HEAD_H
<1>2. CASE m = Message("lift", LiftText)
  <2>1. /\ LiftText \in Seq(0..255) /\ Len(LiftText) = 4
        /\ LiftText[1] = 108 /\ LiftText[2] = 105 /\ LiftText[3] = 102 /\ LiftText[4] = 116
    BY DEF LiftText
  <2>2. \A j \in 1..4 : LiftText[j] < 128
    <3>1. \A j \in 1..4 : j = 1 \/ j = 2 \/ j = 3 \/ j = 4
      OBVIOUS
    <3> QED
      BY <2>1, <3>1
  <2>3. m.bytes = LiftText
    BY <1>2 DEF Message
  <2> QED
    BY <1>1, <1>2, <2>1, <2>2, <2>3 DEF HEAD_L
<1>3. ASSUME NEW d \in {0, 1}, m = Message("press", PressText(d))
      PROVE  m \in Entry /\ Sent(m) /\ m.bytes[1] # HEAD_L
  <2> DEFINE b == PressText(d)
  <2>1. /\ b \in Seq(0..255) /\ Len(b) = 6
        /\ b[1] = 112 /\ b[2] = 114 /\ b[3] = 101 /\ b[4] = 115 /\ b[5] = 115
        /\ b[6] < 128
    BY DEF PressText
  <2>2. m.bytes = b
    BY <1>3 DEF Message
  <2> HIDE DEF b
  <2>3. \A j \in 1..6 : b[j] < 128
    <3>1. \A j \in 1..6 : j = 1 \/ j = 2 \/ j = 3 \/ j = 4 \/ j = 5 \/ j = 6
      OBVIOUS
    <3> QED
      BY <2>1, <3>1
  <2>4. m = Message("press", b)
    BY <1>3 DEF b
  <2> QED
    BY <1>1, <2>1, <2>2, <2>3, <2>4 DEF HEAD_L
<1> QED
  BY <1>2, <1>3

\* The two bytes of a number.
LEMMA TwoBytes ==
  ASSUME NEW x \in 0..(HEAD_L * 256 - 1)
  PROVE  \E h \in 0..(HEAD_L - 1), l \in 0..255 :
           x \div 256 = h /\ x % 256 = l /\ h * 256 + l = x
<1> DEFINE h == x \div 256
           l == x % 256
<1>1. x \in Nat /\ x < 23040
  BY DEF HEAD_L
<1>2. h \in Nat /\ h < 90
  BY <1>1
<1>3. l \in 0..255
  BY <1>1
<1>4. 256 * h + l = x
  BY <1>1
<1> HIDE DEF h, l
<1>5. h \in 0..(HEAD_L - 1) /\ h * 256 + l = x
  BY <1>2, <1>3, <1>4 DEF HEAD_L
<1> QED
  BY <1>3, <1>5 DEF h, l

\* The bytes of an answer, one by one.
Spells(b, flag, status, x, y) ==
  /\ b \in Seq(0..255) /\ Len(b) = 12
  /\ b[1] = HEAD_H /\ b[2] = HEAD_L /\ b[3] = 9 /\ b[4] = READ_REG
  /\ b[5] = TOUCH_REG /\ b[6] = 6 /\ b[7] = flag /\ b[8] = status
  /\ b[9] \in Nat /\ b[9] < HEAD_L /\ b[11] \in Nat /\ b[11] < HEAD_L
  /\ b[9] * 256 + b[10] = x /\ b[11] * 256 + b[12] = y

\* An answer is spelt that way.
LEMMA AnswerBytes ==
  ASSUME NEW flag \in {0, UPDATED}, NEW status \in 0..2,
         NEW x \in 0..(HEAD_L * 256 - 1), NEW y \in 0..(HEAD_L * 256 - 1)
  PROVE  Spells(Answer(flag, status, x, y), flag, status, x, y)
<1>1. PICK xh \in 0..(HEAD_L - 1), xl \in 0..255 :
        x \div 256 = xh /\ x % 256 = xl /\ xh * 256 + xl = x
  BY TwoBytes
<1>2. PICK yh \in 0..(HEAD_L - 1), yl \in 0..255 :
        y \div 256 = yh /\ y % 256 = yl /\ yh * 256 + yl = y
  BY TwoBytes
<1> DEFINE d == <<HEAD_H, HEAD_L, 9, READ_REG, TOUCH_REG, 6, flag, status, xh, xl, yh, yl>>
<1>3. Answer(flag, status, x, y) = d
  BY <1>1, <1>2 DEF Answer
<1>4. /\ d \in Seq(0..255) /\ Len(d) = 12
      /\ d[1] = HEAD_H /\ d[2] = HEAD_L /\ d[3] = 9 /\ d[4] = READ_REG
      /\ d[5] = TOUCH_REG /\ d[6] = 6 /\ d[7] = flag /\ d[8] = status
      /\ d[9] = xh /\ d[10] = xl /\ d[11] = yh /\ d[12] = yl
  BY DEF HEAD_H, HEAD_L, READ_REG, TOUCH_REG, UPDATED
<1>5. xh \in Nat /\ xh < HEAD_L /\ yh \in Nat /\ yh < HEAD_L
  BY DEF HEAD_L
<1> HIDE DEF d
<1>6. Spells(d, flag, status, x, y)
  BY <1>1, <1>2, <1>4, <1>5 DEF Spells
<1> QED
  BY <1>3, <1>6

\* What the screen says of the finger in an answer.
Reports(b, flag, status, x, y) ==
  /\ b = Answer(flag, status, x, y)
  /\ flag = UPDATED /\ status # LIFTED => <<x, y>> \in Points

\* Every answer says something, and a position in it is one of the finger.
LEMMA AnswerIs ==
  ASSUME NEW b, IsAnswer(b)
  PROVE  \E flag \in {0, UPDATED}, status \in 0..2,
            x \in 0..(HEAD_L * 256 - 1), y \in 0..(HEAD_L * 256 - 1) :
           Reports(b, flag, status, x, y)
<1> DEFINE Goal == \E flag \in {0, UPDATED}, status \in 0..2,
                      x \in 0..(HEAD_L * 256 - 1), y \in 0..(HEAD_L * 256 - 1) :
                        Reports(b, flag, status, x, y)
<1>1. 0 \in 0..(HEAD_L * 256 - 1) /\ LIFTED \in 0..2
  BY DEF HEAD_L, LIFTED
<1>2. ASSUME NEW p \in Points
      PROVE  p[1] \in 0..(HEAD_L * 256 - 1) /\ p[2] \in 0..(HEAD_L * 256 - 1) /\ p = <<p[1], p[2]>>
  BY PointsAssumption
<1>3. ASSUME b = Answer(0, 0, 0, 0) PROVE Goal
  <2>1. Reports(b, 0, 0, 0, 0)
    BY <1>3 DEF Reports, UPDATED
  <2> QED
    BY <1>1, <2>1
<1>4. ASSUME b = Answer(UPDATED, LIFTED, 0, 0) PROVE Goal
  <2>1. Reports(b, UPDATED, LIFTED, 0, 0)
    BY <1>4 DEF Reports
  <2> QED
    BY <1>1, <2>1
<1>5. ASSUME NEW p \in Points, b = Answer(UPDATED, 1, p[1], p[2]) PROVE Goal
  <2>1. Reports(b, UPDATED, 1, p[1], p[2])
    BY <1>2, <1>5 DEF Reports
  <2> QED
    BY <1>2, <2>1
<1>6. Goal
  BY <1>3, <1>4, <1>5 DEF IsAnswer
<1> QED
  BY <1>6

\* An answer has the bytes of a header at its beginning only.
LEMMA AnswerSent ==
  ASSUME NEW b, IsAnswer(b)
  PROVE  /\ Message("answer", b) \in Entry /\ Sent(Message("answer", b))
         /\ b[1] # HEAD_L
<1>1. PICK flag \in {0, UPDATED}, status \in 0..2,
           x \in 0..(HEAD_L * 256 - 1), y \in 0..(HEAD_L * 256 - 1) :
        Reports(b, flag, status, x, y)
  BY AnswerIs
<1>2. /\ b \in Seq(0..255) /\ Len(b) = 12
      /\ b[1] = HEAD_H /\ b[2] = HEAD_L /\ b[3] = 9 /\ b[4] = READ_REG
      /\ b[5] = TOUCH_REG /\ b[6] = 6 /\ b[7] = flag /\ b[8] = status
      /\ b[9] \in Nat /\ b[9] < HEAD_L /\ b[11] \in Nat /\ b[11] < HEAD_L
  <2>1. Spells(b, flag, status, x, y)
    BY <1>1, AnswerBytes DEF Reports
  <2> QED
    BY <2>1 DEF Spells
<1>3. ASSUME NEW j \in 1..11, b[j] = HEAD_H, b[j + 1] = HEAD_L PROVE j = 1
  <2>1. /\ b[2] # HEAD_H /\ b[3] # HEAD_H /\ b[4] # HEAD_H /\ b[5] # HEAD_H
        /\ b[6] # HEAD_H /\ b[7] # HEAD_H /\ b[8] # HEAD_H
    BY <1>2 DEF HEAD_H, HEAD_L, READ_REG, TOUCH_REG, UPDATED
  <2>2. b[9] # HEAD_H /\ b[11] # HEAD_H /\ b[11] # HEAD_L
    <3>1. b[9] \in Nat /\ b[9] < HEAD_L /\ b[11] \in Nat /\ b[11] < HEAD_L
      BY <1>2
    <3> QED
      BY <3>1 DEF HEAD_H, HEAD_L
  <2>3. j = 10 => b[11] = HEAD_L
    BY <1>3
  <2>4. j \in {1, 2, 3, 4, 5, 6, 7, 8, 9, 10, 11}
    OBVIOUS
  <2> QED
    BY <1>3, <2>1, <2>2, <2>3, <2>4
<1> DEFINE m == Message("answer", b)
<1>4. m.kind = "answer" /\ m.bytes = b /\ m \in Entry
  BY <1>2 DEF Message, Entry
<1> HIDE DEF m
<1>5. Sent(m)
  <2>1. Len(m.bytes) = 12 /\ Whole(m)
    BY <1>2, <1>4 DEF Whole
  <2> QED
    BY <1>3, <1>4, <2>1 DEF Sent
<1> QED
  BY <1>2, <1>4, <1>5 DEF m, HEAD_H, HEAD_L

\* What is left of a message begins no answer.
LEMMA TailSent ==
  ASSUME NEW m \in Entry, Sent(m), NEW k \in Nat, k >= 1, k <= Len(m.bytes)
  PROVE  LET rest == [m EXCEPT !.bytes = SubSeq(@, k, Len(@))]
         IN  rest \in Entry /\ Sent(rest)
<1> DEFINE rest == [m EXCEPT !.bytes = SubSeq(@, k, Len(@))]
           b == m.bytes
           c == SubSeq(b, k, Len(b))
<1>1. b \in Seq(0..255) /\ Len(b) \in Nat /\ Len(b) >= 1 /\ Len(b) <= 12
  BY DEF Entry, Sent
<1>2. rest.kind = m.kind /\ rest.bytes = c
  BY DEF Entry
<1>3. k >= 1 /\ k <= Len(b)
  OBVIOUS
<1> HIDE DEF b
<1>4. c \in Seq(0..255) /\ Len(c) = Len(b) - k + 1 /\ \A j \in 1..Len(c) : c[j] = b[j + k - 1]
  <2>1. k \in Int /\ Len(b) \in Int /\ k <= Len(b)
    BY <1>1, <1>3
  <2>2. \A i \in k..Len(b) : b[i] \in 0..255
    <3>1. \A i \in k..Len(b) : i \in 1..Len(b)
      BY <1>3, <2>1
    <3> QED
      BY <1>1, <3>1, ElementOfSeq
  <2>3. Len(b) - k + 1 \in Int
    BY <2>1
  <2> QED
    BY <2>1, <2>2, SubSeqProperties
<1>5. rest \in Entry
  BY <1>2, <1>4 DEF Entry
<1>6. CASE k = 1
  <2>1. c = b
    BY <1>1, <1>6
  <2>2. rest = m
    BY <1>2, <2>1 DEF Entry, b
  <2> QED
    BY <2>2
<1>7. CASE k # 1
  <2> HIDE DEF c
  <2>1. Len(c) \in Nat /\ Len(c) >= 1 /\ Len(c) <= 11
    BY <1>1, <1>3, <1>4, <1>7
  <2>2. ASSUME NEW j \in 1..(Len(c) - 1), c[j] = HEAD_H, c[j + 1] = HEAD_L PROVE FALSE
    <3>1. j \in 1..Len(c) /\ j + 1 \in 1..Len(c)
      BY <2>1
    <3> DEFINE i == j + k - 1
    <3>2. i \in 1..(Len(b) - 1) /\ i # 1 /\ (j + 1) + k - 1 = i + 1
      BY <1>1, <1>3, <1>4, <1>7, <2>1
    <3>3. c[j] = b[i] /\ c[j + 1] = b[i + 1]
      BY <1>4, <3>1, <3>2
    <3> HIDE DEF i
    <3> QED
      BY <2>2, <3>2, <3>3 DEF Sent, b
  <2> HIDE DEF rest
  <2>3. ~ Whole(rest) /\ Len(rest.bytes) \in Nat /\ Len(rest.bytes) >= 1 /\ Len(rest.bytes) <= 12
    <3>1. Len(rest.bytes) = Len(c)
      BY <1>2
    <3>2. ASSUME Len(c) = 12 PROVE FALSE
      BY <2>1, <3>2
    <3> QED
      BY <2>1, <3>1, <3>2 DEF Whole
  <2>4. Sent(rest)
    BY <1>2, <2>2, <2>3 DEF Sent
  <2> QED
    BY <1>5, <2>4 DEF rest
<1> QED
  BY <1>6, <1>7

-----------------------------------------------------------------------------
\* The messages not yet read: only the first may have lost its beginning, so that
\* no other begins with the second byte of a header.
Letters(queue) ==
  /\ queue \in Seq(Entry) /\ Len(queue) <= MaxMail
  /\ \A i \in 1..Len(queue) : Sent(queue[i]) /\ (i > 1 => queue[i].bytes[1] # HEAD_L)

\* The inductive invariant of the line.
Mail == Letters(mail)

\* How long message i is, and where it ends in the stream.
Size(i) == Len(mail[i].bytes)
End(i) == Len(Stream[i])

\* The first m messages stand in the stream one behind the other.
LaidOut(m) ==
  /\ Stream[m] \in Seq(0..255)
  /\ \A i \in 0..m : End(i) \in Nat /\ End(i) <= End(m)
  /\ \A i \in 1..m, j \in Nat : j >= 1 /\ j <= Size(i) =>
       /\ End(i - 1) + j <= End(m)
       /\ Stream[m][End(i - 1) + j] = mail[i].bytes[j]
  /\ \A p \in Nat : p >= 1 /\ p <= End(m) =>
       \E i \in 1..m : End(i - 1) < p /\ p <= End(i)

\* Where each message stands.
LEMMA Ends ==
  ASSUME Mail
  PROVE  /\ Len(mail) \in Nat
         /\ End(0) = 0 /\ Stream[0] = <<>>
         /\ \A i \in 1..Len(mail) :
              /\ mail[i].bytes \in Seq(0..255)
              /\ Size(i) \in Nat /\ Size(i) >= 1 /\ Size(i) <= 12
              /\ Stream[i] = Stream[i - 1] \o mail[i].bytes
<1>1. Len(mail) \in Nat /\ Len(mail) <= MaxMail /\ MaxMail \in Nat
  BY GestureAssumption, LenProperties DEF Mail, Letters
<1>2. Stream[0] = <<>> /\ \A i \in 1..Len(mail) : Stream[i] = Stream[i - 1] \o mail[i].bytes
  <2>1. \A i \in 1..Len(mail) : i \in 1..MaxMail
    BY <1>1
  <2> QED
    BY <1>1, <2>1, StreamIs
<1>3. End(0) = 0
  BY <1>2 DEF End
<1>4. ASSUME NEW i \in 1..Len(mail)
      PROVE  /\ mail[i].bytes \in Seq(0..255)
             /\ Size(i) \in Nat /\ Size(i) >= 1 /\ Size(i) <= 12
  <2>1. mail[i] \in Entry /\ Sent(mail[i])
    BY ElementOfSeq DEF Mail, Letters
  <2> QED
    BY <2>1 DEF Entry, Sent, Size
<1> QED
  BY <1>1, <1>2, <1>3, <1>4

\* One message more is laid behind them.
LEMMA Laying ==
  ASSUME Mail, NEW m \in Nat, m + 1 <= Len(mail), LaidOut(m)
  PROVE  LaidOut(m + 1) /\ End(m + 1) = End(m) + Size(m + 1)
<1>1. m + 1 \in 1..Len(mail) /\ (m + 1) - 1 = m
  BY Ends
<1>2. /\ mail[m + 1].bytes \in Seq(0..255) /\ Stream[m] \in Seq(0..255)
      /\ Stream[m + 1] = Stream[m] \o mail[m + 1].bytes
      /\ Size(m + 1) \in Nat /\ Size(m + 1) >= 1 /\ End(m) \in Nat
  <2>1. m \in 0..m
    OBVIOUS
  <2>2. End(m) \in Nat /\ Stream[m] \in Seq(0..255)
    BY <2>1 DEF LaidOut
  <2>3. /\ mail[m + 1].bytes \in Seq(0..255) /\ Size(m + 1) \in Nat /\ Size(m + 1) >= 1
        /\ Stream[m + 1] = Stream[(m + 1) - 1] \o mail[m + 1].bytes
    BY <1>1, Ends
  <2> QED
    BY <1>1, <2>2, <2>3
<1> DEFINE new == mail[m + 1].bytes
           s == Stream[m]
           t == Stream[m + 1]
<1>3. /\ t \in Seq(0..255)
      /\ End(m + 1) = End(m) + Size(m + 1)
      /\ \A p \in 1..(End(m) + Size(m + 1)) :
           t[p] = IF p <= End(m) THEN s[p] ELSE new[p - End(m)]
  <2> HIDE DEF new, s
  <2>1. /\ s \o new \in Seq(0..255)
        /\ Len(s \o new) = Len(s) + Len(new)
        /\ \A p \in 1..(Len(s) + Len(new)) :
             (s \o new)[p] = IF p <= Len(s) THEN s[p] ELSE new[p - Len(s)]
    BY <1>2, ConcatProperties DEF s, new
  <2>2. t = s \o new /\ Len(s) = End(m) /\ Len(new) = Size(m + 1) /\ End(m + 1) = Len(t)
    BY <1>2 DEF s, new, End, Size
  <2> HIDE DEF t
  <2> QED
    BY <2>1, <2>2
<1> HIDE DEF new, s, t
<1>4. End(m + 1) \in Nat /\ End(m + 1) > End(m)
  BY <1>2, <1>3
<1>5. ASSUME NEW i \in 0..(m + 1) PROVE End(i) \in Nat /\ End(i) <= End(m + 1)
  <2>1. CASE i = m + 1
    BY <1>4, <2>1
  <2>2. CASE i # m + 1
    <3>1. i \in 0..m
      BY <2>2
    <3>2. End(i) \in Nat /\ End(i) <= End(m)
      BY <3>1 DEF LaidOut
    <3> QED
      BY <1>2, <1>4, <3>2
  <2> QED
    BY <2>1, <2>2
<1>6. ASSUME NEW i \in 1..(m + 1), NEW j \in Nat, j >= 1, j <= Size(i)
      PROVE  End(i - 1) + j <= End(m + 1) /\ t[End(i - 1) + j] = mail[i].bytes[j]
  <2>1. CASE i = m + 1
    <3>1. End(m) + j \in 1..(End(m) + Size(m + 1)) /\ ~ (End(m) + j <= End(m))
          /\ (End(m) + j) - End(m) = j
      BY <1>2, <1>6, <2>1
    <3>2. t[End(m) + j] = new[j]
      BY <1>3, <3>1
    <3>3. i - 1 = m
      BY <2>1
    <3> QED
      BY <1>2, <1>3, <1>6, <2>1, <3>2, <3>3 DEF new
  <2>2. CASE i # m + 1
    <3>1. i \in 1..m
      BY <2>2
    <3>2. End(i - 1) + j <= End(m) /\ s[End(i - 1) + j] = mail[i].bytes[j]
      BY <1>6, <3>1 DEF LaidOut, s
    <3>3. End(i - 1) \in Nat
      BY <3>1 DEF LaidOut
    <3>4. End(i - 1) + j \in 1..(End(m) + Size(m + 1))
      BY <1>2, <1>6, <3>2, <3>3
    <3> QED
      BY <1>2, <1>3, <1>4, <3>2, <3>3, <3>4
  <2> QED
    BY <2>1, <2>2
<1>7. ASSUME NEW p \in Nat, p >= 1, p <= End(m + 1)
      PROVE  \E i \in 1..(m + 1) : End(i - 1) < p /\ p <= End(i)
  <2>1. CASE p <= End(m)
    <3>1. PICK i \in 1..m : End(i - 1) < p /\ p <= End(i)
      BY <1>7, <2>1 DEF LaidOut
    <3> QED
      BY <3>1
  <2>2. CASE ~ (p <= End(m))
    BY <1>1, <1>2, <1>7, <2>2
  <2> QED
    BY <2>1, <2>2
<1> QED
  BY <1>3, <1>5, <1>6, <1>7 DEF LaidOut, t

\* So all of them are.
LEMMA AllLaidOut ==
  ASSUME Mail
  PROVE  /\ \A m \in 0..Len(mail) : LaidOut(m)
         /\ \A i \in 1..Len(mail) : End(i) = End(i - 1) + Size(i)
<1> DEFINE S == {m \in Nat : m <= Len(mail) => LaidOut(m)}
<1>1. 0 \in S
  <2>1. Stream[0] \in Seq(0..255) /\ End(0) = 0
    BY Ends, EmptySeq
  <2>2. LaidOut(0)
    BY <2>1 DEF LaidOut
  <2> QED
    BY <2>2
<1>2. ASSUME NEW m \in Nat, m \in S PROVE m + 1 \in S
  <2>1. CASE m + 1 <= Len(mail)
    <3>1. m <= Len(mail)
      BY <2>1, Ends
    <3> QED
      BY <1>2, <2>1, <3>1, Laying
  <2>2. CASE ~ (m + 1 <= Len(mail))
    BY <2>2
  <2> QED
    BY <2>1, <2>2
<1>3. Nat \subseteq S
  <2> HIDE DEF S
  <2> QED
    BY <1>1, <1>2, SetInduction
<1>4. \A m \in 0..Len(mail) : LaidOut(m)
  BY <1>3
<1>5. ASSUME NEW i \in 1..Len(mail) PROVE End(i) = End(i - 1) + Size(i)
  <2>1. i - 1 \in Nat /\ (i - 1) + 1 = i /\ i <= Len(mail) /\ i - 1 \in 0..Len(mail)
    BY Ends
  <2> QED
    BY <1>4, <2>1, Laying
<1> QED
  BY <1>4, <1>5

\* n bytes are k whole messages, and perhaps the beginning of the next one: that is
\* what is left of the messages when they have been read.
Left(n, k) ==
  /\ k \in 0..Len(mail)
  /\ \A i \in 1..Len(mail) : End(i) <= n <=> i <= k
  /\ Rest(n) \in Seq(Entry) /\ Len(Rest(n)) = Len(mail) - k
  /\ \A i \in 1..(Len(mail) - k) : i > 1 => Rest(n)[i] = mail[i + k]
  /\ k < Len(mail) =>
       \E from \in 1..Size(k + 1) :
         Rest(n)[1] = [mail[k + 1] EXCEPT !.bytes = SubSeq(@, from, Len(@))]

\* So it is for every n.
LEMMA RestParts ==
  ASSUME Mail, NEW n \in Nat
  PROVE  \E k : Left(n, k)
<1> DEFINE M == Len(mail)
           whole == {i \in DOMAIN mail : End(i) <= n}
<1>1. /\ mail \in Seq(Entry) /\ DOMAIN mail = 1..M /\ M \in Nat /\ M <= MaxMail
      /\ MaxMail \in Nat
  BY GestureAssumption, LenProperties DEF Mail, Letters
<1>2. PICK k \in 0..M : /\ \A i \in 1..k : End(i) <= n
                        /\ \A i \in (k + 1)..M : ~ (End(i) <= n)
  <2> DEFINE T == {i \in 1..M : ~ (End(i) <= n)}
  <2>1. CASE T = {}
    <3>1. \A i \in 1..M : End(i) <= n
      BY <2>1
    <3>2. M \in 0..M /\ (M + 1)..M = {}
      BY <1>1
    <3> QED
      BY <3>1, <3>2
  <2>2. CASE T # {}
    <3>1. T \in SUBSET Nat
      OBVIOUS
    <3> HIDE DEF T
    <3>2. PICK l \in T : \A i \in T : l <= i
      BY <2>2, <3>1, Least
    <3> USE DEF T
    <3>3. l \in 1..M /\ ~ (End(l) <= n)
      BY <3>2
    <3>4. ASSUME NEW i \in 1..(l - 1) PROVE End(i) <= n
      <4>1. i \in 1..M /\ ~ (l <= i)
        BY <1>1, <3>3
      <4> QED
        BY <3>2, <4>1
    <3>5. ASSUME NEW i \in l..M PROVE ~ (End(i) <= n)
      <4>1. i \in 0..M /\ l \in 0..i /\ l \in 0..l /\ i \in 0..i
        BY <1>1, <3>3
      <4>2. End(i) \in Nat /\ End(l) \in Nat /\ End(l) <= End(i)
        BY <4>1, AllLaidOut DEF LaidOut
      <4> QED
        BY <3>3, <4>2
    <3>6. l - 1 \in 0..M /\ (l - 1) + 1 = l
      BY <1>1, <3>3
    <3> QED
      BY <3>4, <3>5, <3>6
  <2> QED
    BY <2>1, <2>2
<1>3. k \in Nat /\ k <= M
  BY <1>1
<1>4. whole = 1..k
  <2>1. ASSUME NEW i \in 1..M PROVE End(i) <= n <=> i \in 1..k
    <3>1. i \in 1..k \/ i \in (k + 1)..M
      BY <1>1, <1>3
    <3>2. ~ (i \in 1..k /\ i \in (k + 1)..M)
      BY <1>1, <1>3
    <3> QED
      BY <1>2, <3>1, <3>2
  <2>2. \A i \in 1..k : i \in 1..M
    BY <1>1, <1>3
  <2> QED
    BY <1>1, <2>1, <2>2
<1>5. Cardinality(whole) = k
  <2>1. Cardinality(1..k) = k
    BY <1>3, FS_Interval
  <2> HIDE DEF whole
  <2> QED
    BY <1>4, <2>1
<1> DEFINE rest == IF k = M THEN <<>>
                   ELSE <<[mail[k + 1] EXCEPT !.bytes = SubSeq(@, n - End(k) + 1, Len(@))]>>
                        \o SubSeq(mail, k + 2, M)
<1>6. Rest(n) = rest
  BY <1>5 DEF Rest, End
<1> HIDE DEF whole
<1>6a. \A i \in 1..M : End(i) <= n <=> i <= k
  <2> HIDE DEF M
  <2>1. ASSUME NEW i \in 1..M PROVE i \in 1..k \/ i \in (k + 1)..M
    BY <1>1, <1>3
  <2>2. ASSUME NEW i \in 1..M, i \in (k + 1)..M PROVE ~ (i <= k)
    BY <1>1, <1>3, <2>2
  <2>3. \A i \in 1..k : i <= k
    OBVIOUS
  <2> QED
    BY <1>2, <2>1, <2>2, <2>3
<1>7. CASE k = M
  <2>1. rest = <<>>
    BY <1>7
  <2> HIDE DEF rest
  <2>2. Rest(n) \in Seq(Entry) /\ Len(Rest(n)) = 0
    BY <1>6, <2>1, EmptySeq
  <2>3. M - k = 0 /\ ~ (k < M) /\ 1..(M - k) = {}
    BY <1>1, <1>7
  <2>4. Left(n, k)
    BY <1>6a, <2>2, <2>3 DEF Left
  <2> QED
    BY <2>4
<1>8. CASE k # M
  <2> DEFINE first == [mail[k + 1] EXCEPT !.bytes = SubSeq(@, n - End(k) + 1, Len(@))]
             others == SubSeq(mail, k + 2, M)
  <2>1. k + 1 \in 1..M /\ k \in 0..M /\ (k + 1) - 1 = k /\ k + 1 \in (k + 1)..M
    <3> HIDE DEF M
    <3> QED
      BY <1>1, <1>3, <1>8
  <2>2. mail[k + 1] \in Entry /\ Sent(mail[k + 1])
    BY <1>1, <2>1, ElementOfSeq DEF Mail, Letters
  <2>3. /\ n - End(k) + 1 \in Nat /\ n - End(k) + 1 >= 1
        /\ n - End(k) + 1 <= Len(mail[k + 1].bytes)
    <3>1. End(k + 1) = End(k) + Size(k + 1) /\ Size(k + 1) \in Nat
      BY <2>1, AllLaidOut, Ends
    <3>2. ~ (End(k + 1) <= n)
      BY <1>2, <2>1
    <3>3. End(k) \in Nat /\ End(k) <= n
      <4>1. CASE k = 0
        BY <4>1, Ends
      <4>2. CASE k # 0
        <5>1. k \in 1..k /\ k \in 0..k
          BY <1>3, <4>2
        <5> QED
          BY <1>2, <2>1, <5>1, AllLaidOut DEF LaidOut
      <4> QED
        BY <4>1, <4>2
    <3> QED
      BY <3>1, <3>2, <3>3 DEF Size
  <2>4. first \in Entry /\ Sent(first)
    BY <2>2, <2>3, TailSent
  <2> HIDE DEF first
  <2>5. /\ others \in Seq(Entry) /\ Len(others) = M - k - 1
        /\ \A i \in 1..(M - k - 1) : others[i] = mail[i + k + 1]
    <3>1. k + 2 \in Int /\ M \in Int
      BY <1>1, <1>3
    <3>2. \A i \in (k + 2)..M : mail[i] \in Entry
      <4>1. \A i \in (k + 2)..M : i \in 1..M
        BY <1>1, <1>3
      <4> QED
        BY <1>1, <4>1, ElementOfSeq
    <3>3. /\ others \in Seq(Entry) /\ Len(others) = IF k + 2 <= M THEN M - (k + 2) + 1 ELSE 0
          /\ \A i \in 1..(M - (k + 2) + 1) : others[i] = mail[(k + 2) + i - 1]
      BY <3>1, <3>2, SubSeqProperties
    <3> HIDE DEF others
    <3> HIDE DEF M
    <3>4. (IF k + 2 <= M THEN M - (k + 2) + 1 ELSE 0) = M - k - 1
      BY <1>1, <1>3, <1>8
    <3>5. M - (k + 2) + 1 = M - k - 1 /\ \A i \in 1..(M - k - 1) : (k + 2) + i - 1 = i + k + 1
      BY <1>1, <1>3
    <3> QED
      BY <3>3, <3>4, <3>5
  <2> HIDE DEF others
  <2>6. rest = <<first>> \o others
    BY <1>8 DEF first, others
  <2> HIDE DEF rest
  <2>7. <<first>> \in Seq(Entry) /\ Len(<<first>>) = 1 /\ <<first>>[1] = first
    BY <2>4
  <2> DEFINE one == <<first>>
  <2> HIDE DEF one
  <2>8. /\ one \o others \in Seq(Entry) /\ Len(one \o others) = Len(one) + Len(others)
        /\ \A i \in 1..(Len(one) + Len(others)) :
             (one \o others)[i] = IF i <= Len(one) THEN one[i] ELSE others[i - Len(one)]
    BY <2>5, <2>7, ConcatProperties DEF one
  <2>9. Len(one) = 1 /\ one[1] = first /\ rest = one \o others
    BY <2>6, <2>7 DEF one
  <2>10. rest \in Seq(Entry) /\ Len(rest) = M - k
    <3> HIDE DEF M
    <3>1. 1 + (M - k - 1) = M - k
      BY <1>1, <1>3
    <3> QED
      BY <2>5, <2>8, <2>9, <3>1
  <2>11. ASSUME NEW i \in 1..(M - k), i > 1
         PROVE  rest[i] = mail[i + k]
    <3>1. i - 1 \in 1..(M - k - 1) /\ ~ (i <= 1) /\ i \in 1..(1 + (M - k - 1))
          /\ (i - 1) + k + 1 = i + k
      BY <1>1, <1>3, <2>11
    <3>2. rest[i] = others[i - 1]
      BY <2>5, <2>8, <2>9, <3>1
    <3> QED
      BY <2>5, <3>1, <3>2
  <2>12. rest[1] = first
    <3>1. 1 \in 1..(1 + (M - k - 1))
      <4> HIDE DEF M
      <4> QED
        BY <1>1, <1>3, <1>8
    <3> QED
      BY <2>5, <2>8, <2>9, <3>1
  <2>13. \E from \in 1..Size(k + 1) :
           rest[1] = [mail[k + 1] EXCEPT !.bytes = SubSeq(@, from, Len(@))]
    <3>1. Size(k + 1) \in Nat
      BY <2>1, Ends
    <3>2. n - End(k) + 1 \in 1..Size(k + 1)
      BY <2>3, <3>1 DEF Size
    <3> QED
      BY <2>12, <3>2 DEF first
  <2>14. Left(n, k)
    BY <1>6, <1>6a, <2>10, <2>11, <2>13 DEF Left
  <2> QED
    BY <2>14
<1> QED
  BY <1>7, <1>8

\* What is left is again what was sent: the first message perhaps without its
\* beginning.
LEMMA RestIsMail ==
  ASSUME Mail, NEW n \in Nat
  PROVE  Letters(Rest(n))
<1> DEFINE rest == Rest(n)
<1>1. PICK k : Left(n, k)
  BY RestParts
<1>2. /\ k \in Nat /\ Len(mail) \in Nat /\ k <= Len(mail) /\ MaxMail \in Nat
      /\ Len(mail) <= MaxMail /\ rest \in Seq(Entry) /\ Len(rest) = Len(mail) - k
  BY <1>1, Ends, GestureAssumption DEF Left, Mail, Letters
<1> HIDE DEF rest
<1>3. ASSUME NEW i \in 1..Len(rest)
      PROVE  Sent(rest[i]) /\ (i > 1 => rest[i].bytes[1] # HEAD_L)
  <2>1. i + k \in 1..Len(mail) /\ i \in 1..(Len(mail) - k)
    BY <1>2
  <2>2. Sent(mail[i + k]) /\ mail[i + k] \in Entry
        /\ (i + k > 1 => mail[i + k].bytes[1] # HEAD_L)
    BY <2>1, ElementOfSeq DEF Mail, Letters
  <2>3. CASE i = 1
    <3>1. k < Len(mail) /\ 1 + k = k + 1
      BY <1>2, <2>3
    <3>2. PICK from \in 1..Size(k + 1) :
            rest[1] = [mail[k + 1] EXCEPT !.bytes = SubSeq(@, from, Len(@))]
      BY <1>1, <3>1 DEF Left, rest
    <3>3. Size(k + 1) \in Nat /\ Size(k + 1) = Len(mail[k + 1].bytes)
      BY <2>1, <2>3, <3>1, Ends DEF Size
    <3>4. from \in Nat /\ from >= 1 /\ from <= Len(mail[k + 1].bytes)
      BY <3>3
    <3>5. Sent([mail[k + 1] EXCEPT !.bytes = SubSeq(@, from, Len(@))])
      BY <2>2, <2>3, <3>1, <3>4, TailSent
    <3> QED
      BY <2>3, <3>2, <3>5
  <2>4. CASE i # 1
    <3>1. i > 1 /\ i + k > 1
      BY <1>2, <2>4
    <3>2. rest[i] = mail[i + k]
      BY <1>1, <2>1, <3>1 DEF Left, rest
    <3> QED
      BY <2>2, <3>1, <3>2
  <2> QED
    BY <2>3, <2>4
<1>4. Len(rest) <= MaxMail
  BY <1>2
<1> QED
  BY <1>2, <1>3, <1>4 DEF Letters, rest

\* A message sent after them is one more.
LEMMA PushIsMail ==
  ASSUME Mail, NEW kind, NEW bytes, Push(kind, bytes),
         Message(kind, bytes) \in Entry, Sent(Message(kind, bytes)), bytes[1] # HEAD_L
  PROVE  Mail'
<1> DEFINE m == Message(kind, bytes)
<1>1. m \in Entry /\ Sent(m) /\ m.bytes[1] # HEAD_L
  BY DEF Message
<1>2. mail \in Seq(Entry) /\ Len(mail) \in Nat /\ Len(mail) < MaxMail /\ mail' = Append(mail, m)
  BY Ends DEF Mail, Letters, Push
<1> HIDE DEF m
<1>3. /\ mail' \in Seq(Entry) /\ Len(mail') = Len(mail) + 1
      /\ \A i \in 1..Len(mail) : mail'[i] = mail[i]
      /\ mail'[Len(mail) + 1] = m
  BY <1>1, <1>2, AppendProperties
<1>4. ASSUME NEW i \in 1..(Len(mail) + 1)
      PROVE  Sent(mail'[i]) /\ (i > 1 => mail'[i].bytes[1] # HEAD_L)
  <2>1. CASE i = Len(mail) + 1
    BY <1>1, <1>3, <2>1
  <2>2. CASE i # Len(mail) + 1
    <3>1. i \in 1..Len(mail)
      BY <1>2, <2>2
    <3>2. mail'[i] = mail[i]
      BY <1>3, <3>1
    <3> QED
      BY <3>1, <3>2 DEF Mail, Letters
  <2> QED
    BY <2>1, <2>2
<1>5. Len(mail) + 1 <= MaxMail
  BY <1>2, GestureAssumption
<1>6. Len(mail') <= MaxMail /\ \A i \in 1..Len(mail') : i \in 1..(Len(mail) + 1)
  BY <1>3, <1>5
<1> QED
  BY <1>3, <1>4, <1>6 DEF Mail, Letters

\* What recv returns is the beginning of the unread bytes.
LEMMA ChunkIs ==
  ASSUME Mail
  PROVE  /\ End(Len(mail)) \in Nat /\ Unread \in Seq(0..255) /\ Chunk \in Seq(0..255)
         /\ Len(Chunk) \in Nat /\ Len(Chunk) <= RBUF /\ Len(Chunk) <= End(Len(mail))
         /\ \A p \in 1..Len(Chunk) : Chunk[p] = Unread[p]
<1> DEFINE c == IF Len(Unread) < RBUF THEN Len(Unread) ELSE RBUF
<1>1. LaidOut(Len(mail)) /\ Len(mail) \in 0..Len(mail)
  BY Ends, AllLaidOut
<1>2. Unread \in Seq(0..255) /\ End(Len(mail)) = Len(Unread) /\ Len(Unread) \in Nat
  BY <1>1 DEF LaidOut, End, Unread
<1> HIDE DEF Unread
<1>3. c \in Nat /\ c <= Len(Unread) /\ c <= RBUF
  BY <1>2 DEF RBUF
<1>4. Chunk = SubSeq(Unread, 1, c)
  BY DEF Chunk, Unread
<1> HIDE DEF c
<1>5. \A p \in 1..c : Unread[p] \in 0..255
  <2>1. \A p \in 1..c : p \in 1..Len(Unread)
    BY <1>2, <1>3
  <2> QED
    BY <1>2, <2>1, ElementOfSeq
<1>6. /\ Chunk \in Seq(0..255) /\ Len(Chunk) = IF 1 <= c THEN c - 1 + 1 ELSE 0
      /\ \A p \in 1..(c - 1 + 1) : Chunk[p] = Unread[1 + p - 1]
  BY <1>3, <1>4, <1>5, SubSeqProperties
<1>7. Len(Chunk) = c /\ c - 1 + 1 = c /\ \A p \in 1..c : 1 + p - 1 = p
  BY <1>3, <1>6
<1> QED
  BY <1>2, <1>3, <1>6, <1>7

\* Every step leaves such messages.
LEMMA MailStep ==
  ASSUME Mail, [Next]_vars
  PROVE  Mail'
<1>1. ASSUME mail' = mail PROVE Mail'
  BY <1>1 DEF Mail
<1>2. ASSUME Received PROVE Mail'
  <2>1. mail' = Rest(Len(Chunk)) /\ Len(Chunk) \in Nat
    BY <1>2, ChunkIs DEF Received
  <2>2. Letters(Rest(Len(Chunk)))
    BY <2>1, RestIsMail
  <2> QED
    BY <2>1, <2>2 DEF Mail
<1>3. CASE WaitPress
  BY <1>2, <1>3 DEF WaitPress
<1>4. CASE Ask \/ GiveUp \/ UNCHANGED vars
  BY <1>1, <1>4 DEF Ask, GiveUp, vars, wireVars
<1>5. CASE Recv
  BY <1>1, <1>2, <1>5 DEF Recv
<1>6. ASSUME NEW bytes, IsAnswer(bytes), Respond(bytes) PROVE Mail'
  BY <1>6, AnswerSent, PushIsMail DEF Respond
<1>7. ASSUME NEW s, PutDown(s) PROVE Mail'
  <2>1. PICK d \in {0, 1} : Push("press", PressText(d))
    BY <1>7 DEF PutDown
  <2> DEFINE m == Message("press", PressText(d))
  <2>2. m \in {Message("press", PressText(0)), Message("press", PressText(1)),
               Message("lift", LiftText)}
    OBVIOUS
  <2>3. m \in Entry /\ Sent(m) /\ m.bytes[1] # HEAD_L
    BY <2>2, TextSent
  <2>4. m.bytes = PressText(d)
    BY DEF Message
  <2> QED
    BY <2>1, <2>3, <2>4, PushIsMail
<1>8. CASE TakeOff
  <2> DEFINE m == Message("lift", LiftText)
  <2>1. m \in Entry /\ Sent(m) /\ m.bytes[1] # HEAD_L
    BY TextSent
  <2>2. m.bytes = LiftText
    BY DEF Message
  <2> QED
    BY <1>8, <2>1, <2>2, PushIsMail DEF TakeOff
<1>9. CASE Screen
  BY <1>6, <1>7, <1>8, <1>9 DEF Screen, Position, Off, Nothing, IsAnswer
<1> QED
  BY <1>3, <1>4, <1>5, <1>9 DEF Next, Thread

-----------------------------------------------------------------------------
\* The bytes of a header stand at the beginning of a whole answer only.
LEMMA HeaderIsAnswer ==
  ASSUME Mail, NEW p \in Nat, p + 2 <= End(Len(mail)),
         Unread[p + 1] = HEAD_H, Unread[p + 2] = HEAD_L
  PROVE  \E i \in 1..Len(mail) : Whole(mail[i]) /\ End(i - 1) = p /\ End(i) = p + 12
<1> DEFINE M == Len(mail)
<1>1. /\ LaidOut(M) /\ M \in Nat /\ End(M) \in Nat
      /\ \A i \in 0..M : End(i) \in Nat
      /\ \A i \in 1..M : Size(i) \in Nat /\ End(i) = End(i - 1) + Size(i)
  <2>1. M \in Nat /\ M \in 0..M
    BY Ends
  <2>2. LaidOut(M)
    BY <2>1, AllLaidOut
  <2> QED
    BY <2>1, <2>2, Ends, AllLaidOut DEF LaidOut
<1>2. PICK i \in 1..M : End(i - 1) < p + 1 /\ p + 1 <= End(i)
  <2>1. p + 1 \in Nat /\ p + 1 >= 1 /\ p + 1 <= End(M)
    BY <1>1
  <2> QED
    BY <1>1, <2>1 DEF LaidOut
<1> DEFINE j == p + 1 - End(i - 1)
<1>3. /\ i - 1 \in 0..M /\ i \in 0..M /\ End(i - 1) \in Nat /\ End(i) \in Nat
      /\ End(i) = End(i - 1) + Size(i) /\ Size(i) \in Nat
  BY <1>1
<1>4. /\ j \in Nat /\ j >= 1 /\ j <= Size(i) /\ End(i - 1) + j = p + 1
      /\ End(i - 1) + (j + 1) = p + 2
  BY <1>2, <1>3
<1>5. Sent(mail[i])
  BY DEF Mail, Letters
<1> HIDE DEF j
<1>6. mail[i].bytes[j] = HEAD_H
  <2>1. Unread[End(i - 1) + j] = mail[i].bytes[j]
    BY <1>1, <1>4 DEF LaidOut, Unread
  <2> QED
    BY <1>4, <2>1
<1>7. CASE j < Size(i)
  <2>1. mail[i].bytes[j + 1] = HEAD_L
    <3>1. j + 1 \in Nat /\ j + 1 >= 1 /\ j + 1 <= Size(i)
      BY <1>3, <1>4, <1>7
    <3>2. Unread[End(i - 1) + (j + 1)] = mail[i].bytes[j + 1]
      BY <1>1, <3>1 DEF LaidOut, Unread
    <3> QED
      BY <1>4, <3>2
  <2>2. j \in 1..(Len(mail[i].bytes) - 1)
    BY <1>3, <1>4, <1>7 DEF Size
  <2>3. j = 1 /\ Whole(mail[i])
    BY <1>5, <1>6, <2>1, <2>2 DEF Sent
  <2>4. Size(i) = 12
    BY <2>3 DEF Whole, Size
  <2>5. End(i - 1) = p /\ End(i) = p + 12
    BY <1>3, <1>4, <2>3, <2>4
  <2> QED
    BY <2>3, <2>5
<1>8. CASE ~ (j < Size(i))
  <2>1. p + 1 = End(i)
    BY <1>2, <1>3, <1>4, <1>8
  <2>2. i # M
    BY <1>1, <2>1
  <2>3. i + 1 \in 1..M /\ (i + 1) - 1 = i /\ i + 1 > 1
    <3> HIDE DEF M
    <3> QED
      BY <1>1, <2>2
  <2>4. Size(i + 1) >= 1 /\ Sent(mail[i + 1]) /\ mail[i + 1].bytes[1] # HEAD_L
    BY <2>3, Ends DEF Mail, Letters
  <2>5. Unread[End((i + 1) - 1) + 1] = mail[i + 1].bytes[1]
    BY <1>1, <2>3, <2>4 DEF LaidOut, Unread
  <2>6. End((i + 1) - 1) + 1 = p + 2
    BY <2>1, <2>3
  <2> QED
    BY <2>4, <2>5, <2>6
<1> QED
  BY <1>7, <1>8

\* And every whole answer begins with them.
LEMMA AnswerOpens ==
  ASSUME Mail, NEW i \in 1..Len(mail), Whole(mail[i])
  PROVE  /\ End(i - 1) \in Nat /\ End(i) = End(i - 1) + 12 /\ End(i) <= End(Len(mail))
         /\ \A k \in 0..4 :
              Unread[End(i - 1) + k + 1] = <<HEAD_H, HEAD_L, 9, READ_REG, TOUCH_REG>>[k + 1]
         /\ \A k \in 1..12 : Unread[End(i - 1) + k] = mail[i].bytes[k]
<1> DEFINE M == Len(mail)
           b == mail[i].bytes
           e == End(i - 1)
           opening == <<HEAD_H, HEAD_L, 9, READ_REG, TOUCH_REG>>
<1>1. M \in 0..M /\ LaidOut(M) /\ i - 1 \in 0..M /\ i \in 0..M
  BY Ends, AllLaidOut
<1>2. e \in Nat /\ End(i) = e + Size(i) /\ End(i) <= End(M)
  BY <1>1, AllLaidOut DEF LaidOut
<1>3. Size(i) = 12 /\ Len(b) = 12
  BY DEF Whole, Size
<1>4. \A k \in 1..12 : Unread[e + k] = b[k]
  <2>1. \A k \in 1..12 : k \in Nat /\ k >= 1 /\ k <= Size(i)
    BY <1>3
  <2> QED
    BY <1>1, <2>1 DEF LaidOut, Unread
<1>5. IsAnswer(b)
  BY DEF Mail, Letters, Sent
<1>6. PICK flag, status, x, y : Spells(b, flag, status, x, y)
  <2>1. PICK f \in {0, UPDATED}, s \in 0..2,
             u \in 0..(HEAD_L * 256 - 1), v \in 0..(HEAD_L * 256 - 1) : Reports(b, f, s, u, v)
    BY <1>5, AnswerIs
  <2>2. Spells(b, f, s, u, v)
    BY <2>1, AnswerBytes DEF Reports
  <2> QED
    BY <2>2
<1> HIDE DEF b, e
<1>7. /\ opening[1] = b[1] /\ opening[2] = b[2] /\ opening[3] = b[3]
      /\ opening[4] = b[4] /\ opening[5] = b[5]
  BY <1>6 DEF Spells
<1> HIDE DEF opening
<1>8. ASSUME NEW k \in 0..4 PROVE Unread[e + k + 1] = opening[k + 1]
  <2>1. k + 1 \in 1..12 /\ e + k + 1 = e + (k + 1)
    BY <1>2
  <2>2. Unread[e + k + 1] = b[k + 1]
    BY <1>4, <2>1
  <2>3. k \in {0, 1, 2, 3, 4}
    OBVIOUS
  <2>4. b[k + 1] = opening[k + 1]
    BY <1>7, <2>3
  <2> QED
    BY <2>2, <2>4
<1> QED
  BY <1>2, <1>3, <1>4, <1>8 DEF b, e, opening

\* The whole answers among the first n unread bytes, and where they begin.
WholeIn(n) == {i \in 1..Len(mail) : Whole(mail[i]) /\ End(i) <= n}
Starts(n) == {End(i - 1) : i \in WholeIn(n)}

\* In n bytes of them, what looks like a header is one, and the answers received
\* whole begin where whole answers begin.
LEMMA ReceivedAre ==
  ASSUME Mail, NEW n \in Nat, n <= End(Len(mail)),
         NEW bytes, \A p \in 1..n : bytes[p] = Unread[p]
  PROVE  Genuine(bytes, n) /\ Answers(bytes, n) = Starts(n)
<1> DEFINE M == Len(mail)
           opening == <<HEAD_H, HEAD_L, 9, READ_REG, TOUCH_REG>>
<1>1. Unread \in Seq(0..255) /\ End(M) \in Nat /\ Len(Unread) = End(M)
  BY ChunkIs DEF End, Unread
<1>2. opening[1] = HEAD_H /\ opening[2] = HEAD_L
  OBVIOUS
<1> HIDE DEF M, opening
<1>3. ASSUME NEW j \in 1..n PROVE bytes[j] \in 0..255
  <2>1. j \in 1..Len(Unread)
    BY <1>1 DEF M
  <2>2. Unread[j] \in 0..255
    BY <1>1, <2>1, ElementOfSeq
  <2> QED
    BY <2>2
<1>4. ASSUME NEW p \in Nat, p + 1 < n, bytes[p + 1] = HEAD_H, bytes[p + 2] = HEAD_L
      PROVE  /\ Opens(bytes, n, p)
             /\ \E i \in 1..M : Whole(mail[i]) /\ End(i - 1) = p /\ End(i) = p + 12
  <2>1. Unread[p + 1] = HEAD_H /\ Unread[p + 2] = HEAD_L /\ p + 2 <= End(M)
    <3>1. p + 1 \in 1..n /\ p + 2 \in 1..n
      BY <1>4
    <3> QED
      BY <1>1, <1>4, <3>1 DEF M
  <2>2. PICK i \in 1..M : Whole(mail[i]) /\ End(i - 1) = p /\ End(i) = p + 12
    BY <2>1, HeaderIsAnswer DEF M
  <2>3. ASSUME NEW k \in 0..4, p + k < n PROVE bytes[p + k + 1] = opening[k + 1]
    <3>1. \A l \in 0..4 : Unread[End(i - 1) + l + 1] = opening[l + 1]
      BY <2>2, AnswerOpens DEF M, opening
    <3>2. p + k + 1 \in 1..n
      BY <2>3
    <3> QED
      BY <2>2, <3>1, <3>2
  <2> QED
    BY <2>2, <2>3 DEF Opens, opening
<1>5. ASSUME NEW p \in 0..(n - 1), bytes[p + 1] = HEAD_H,
             p + 1 < n => bytes[p + 2] = HEAD_L
      PROVE  Opens(bytes, n, p)
  <2>1. CASE p + 1 < n
    BY <1>4, <1>5, <2>1
  <2>2. CASE ~ (p + 1 < n)
    <3>1. ASSUME NEW k \in 0..4, p + k < n PROVE bytes[p + k + 1] = opening[k + 1]
      <4>1. k = 0 /\ p + k + 1 = p + 1 /\ k + 1 = 1
        BY <2>2, <3>1
      <4> QED
        BY <1>2, <1>5, <4>1
    <3> QED
      BY <3>1 DEF Opens, opening
  <2> QED
    BY <2>1, <2>2
<1>6. ASSUME NEW p \in Answers(bytes, n) PROVE p \in Starts(n)
  <2>1. p \in Nat /\ p + 12 <= n /\ Opens(bytes, n, p)
    BY DEF Answers
  <2>2. bytes[p + 1] = HEAD_H /\ bytes[p + 2] = HEAD_L
    <3>1. \A k \in 0..4 : p + k < n => bytes[p + k + 1] = opening[k + 1]
      BY <2>1 DEF Opens, opening
    <3>2. bytes[p + 0 + 1] = opening[0 + 1] /\ bytes[p + 1 + 1] = opening[1 + 1]
      BY <2>1, <3>1
    <3>3. p + 0 + 1 = p + 1 /\ p + 1 + 1 = p + 2
      BY <2>1
    <3> QED
      BY <1>2, <3>2, <3>3
  <2>3. p + 1 < n
    BY <2>1
  <2>4. PICK i \in 1..M : Whole(mail[i]) /\ End(i - 1) = p /\ End(i) = p + 12
    BY <1>4, <2>1, <2>2, <2>3
  <2> QED
    BY <2>1, <2>4 DEF Starts, WholeIn, M
<1>7. ASSUME NEW i \in WholeIn(n) PROVE End(i - 1) \in Answers(bytes, n)
  <2>1. i \in 1..M /\ Whole(mail[i]) /\ End(i) <= n
    BY DEF WholeIn, M
  <2>2. /\ End(i - 1) \in Nat /\ End(i) = End(i - 1) + 12
        /\ \A k \in 0..4 : Unread[End(i - 1) + k + 1] = opening[k + 1]
    BY <2>1, AnswerOpens DEF M, opening
  <2>3. End(i - 1) \in 0..(n - 12)
    BY <2>1, <2>2
  <2>4. ASSUME NEW k \in 0..4, End(i - 1) + k < n
        PROVE  bytes[End(i - 1) + k + 1] = opening[k + 1]
    <3> DEFINE e == End(i - 1)
    <3>1. e \in Nat /\ e + k < n /\ Unread[e + k + 1] = opening[k + 1]
      BY <2>2, <2>4
    <3> HIDE DEF e
    <3>2. e + k + 1 \in 1..n
      BY <3>1
    <3>3. bytes[e + k + 1] = opening[k + 1]
      BY <3>1, <3>2
    <3> QED
      BY <3>3 DEF e
  <2> QED
    BY <2>3, <2>4 DEF Answers, Opens, opening
<1> QED
  BY <1>3, <1>5, <1>6, <1>7 DEF Genuine, Starts

\* The reference of ParserAgrees, by those beginnings.
LEMMA FirstIs ==
  ASSUME Mail, NEW n \in Nat
  PROVE  FirstAnswer(n) = DataOf(Starts(n))
<1> DEFINE W == WholeIn(n)
           first == CHOOSE i \in W : \A j \in W : i <= j
<1>1. DOMAIN mail = 1..Len(mail) /\ Len(mail) \in Nat
  BY LenProperties, Ends DEF Mail, Letters
<1>2. FirstAnswer(n) = IF W = {} THEN 0 ELSE End(first) - 12 + 6
  <2>1. W = {i \in DOMAIN mail : /\ mail[i].kind = "answer"
                                 /\ Len(mail[i].bytes) = 12
                                 /\ Len(Stream[i]) <= n}
    BY <1>1 DEF WholeIn, Whole, End
  <2> HIDE DEF W
  <2> QED
    BY <2>1 DEF FirstAnswer, End
<1>3. CASE W = {}
  BY <1>2, <1>3 DEF Starts, DataOf
<1>4. CASE W # {}
  <2>1. W \in SUBSET Nat
    BY DEF WholeIn
  <2> HIDE DEF W
  <2>2. first \in W /\ \A j \in W : first <= j
    BY <1>4, <2>1, Least
  <2> HIDE DEF first
  <2>3. first \in 1..Len(mail) /\ Whole(mail[first])
    BY <2>2 DEF W, WholeIn
  <2>4. End(first - 1) \in Nat /\ End(first) = End(first - 1) + 12
    BY <2>3, AnswerOpens
  <2>5. End(first - 1) \in Starts(n)
    BY <2>2 DEF Starts, W
  <2>6. ASSUME NEW i \in W PROVE End(i - 1) \in Nat /\ End(first - 1) <= End(i - 1)
    <3>1. i \in 1..Len(mail) /\ first <= i
      BY <2>2 DEF W, WholeIn
    <3>2. i - 1 \in 0..Len(mail) /\ first - 1 \in 0..(i - 1) /\ i - 1 \in 0..(i - 1)
      BY <1>1, <2>3, <3>1
    <3> QED
      BY <3>2, AllLaidOut DEF LaidOut
  <2>7. Starts(n) \in SUBSET Nat /\ \A r \in Starts(n) : End(first - 1) <= r
    BY <2>6 DEF Starts, W
  <2>8. DataOf(Starts(n)) = End(first - 1) + 6
    BY <2>5, <2>7, DataOfLeast
  <2> QED
    BY <1>2, <1>4, <2>4, <2>8
<1> QED
  BY <1>3, <1>4

\* However much of them recv returns, the parser agrees with that.
LEMMA ParserStep ==
  ASSUME Mail
  PROVE  ParserAgrees
<1> SUFFICES ASSUME NEW n \in 1..Len(Chunk), NEW junk \in BOOLEAN
             PROVE  Parse(Buffer(SubSeq(Chunk, 1, n), junk), n, TOUCH_REG) = FirstAnswer(n)
  BY DEF ParserAgrees
<1> DEFINE bytes == SubSeq(Chunk, 1, n)
<1>1. /\ End(Len(mail)) \in Nat /\ Chunk \in Seq(0..255) /\ Len(Chunk) \in Nat
      /\ Len(Chunk) <= 16 /\ Len(Chunk) <= End(Len(mail))
      /\ \A p \in 1..Len(Chunk) : Chunk[p] = Unread[p]
  BY ChunkIs DEF RBUF
<1>2. n \in Nat /\ n >= 1 /\ n <= Len(Chunk) /\ n <= 16 /\ n <= End(Len(mail))
  BY <1>1
<1>3. /\ Len(bytes) = n
      /\ \A p \in 1..n : bytes[p] = Unread[p] /\ bytes[p] \in 0..255
  <2>1. \A p \in 1..n : p \in 1..Len(Chunk)
    BY <1>1, <1>2
  <2>2. \A p \in 1..n : Chunk[p] \in 0..255
    BY <1>1, <2>1, ElementOfSeq
  <2>3. Len(bytes) = (IF 1 <= n THEN n - 1 + 1 ELSE 0)
        /\ \A p \in 1..(n - 1 + 1) : bytes[p] = Chunk[1 + p - 1]
    BY <1>2, <2>2, SubSeqProperties
  <2>4. n - 1 + 1 = n /\ \A p \in 1..n : 1 + p - 1 = p
    BY <1>2
  <2> HIDE DEF bytes
  <2>5. Len(bytes) = n
    BY <1>2, <2>3, <2>4
  <2>6. \A p \in 1..n : bytes[p] = Chunk[p]
    BY <2>3, <2>4
  <2> QED
    BY <1>1, <2>1, <2>2, <2>5, <2>6
<1> HIDE DEF bytes
<1>4. Genuine(bytes, n) /\ Answers(bytes, n) = Starts(n)
  BY <1>2, <1>3, ReceivedAre
<1>5. Holds(Buffer(bytes, junk), bytes, n)
  <2>1. Len(bytes) \in 0..RBUF
    BY <1>2, <1>3 DEF RBUF
  <2>2. \A j \in 1..Len(bytes) : bytes[j] \in 0..255
    BY <1>3
  <2>3. Holds(Buffer(bytes, junk), bytes, Len(bytes))
    BY <2>1, <2>2, BufferHolds
  <2> QED
    BY <1>3, <2>3
<1>6. Parse(Buffer(bytes, junk), n, TOUCH_REG) = DataOf(Answers(bytes, n))
  <2>1. n \in 0..16
    BY <1>2
  <2> QED
    BY <1>4, <1>5, <2>1, ScanFinds
<1>7. FirstAnswer(n) = DataOf(Starts(n))
  BY <1>2, FirstIs
<1> QED
  BY <1>4, <1>6, <1>7 DEF bytes

\* What is read as a position is one the screen has reported, in an answer that is
\* read whole.
LEMMA CoordReported ==
  ASSUME Mail, NEW c \in Coords
  PROVE  \/ c = Lift \/ c = NoCoord
         \/ /\ c.kind = "at" /\ <<c.x, c.y>> \in Points
            /\ \E i \in WholeIn(Len(Chunk)) : IsPosition(mail[i])
<1>1. PICK junk \in BOOLEAN : c = Coord(Chunk, junk)
  BY DEF Coords
<1> DEFINE n == Len(Chunk)
           buf == Buffer(Chunk, junk)
           at == Parse(buf, n, TOUCH_REG)
           x == buf[at + 2] * 256 + buf[at + 3]
           y == buf[at + 4] * 256 + buf[at + 5]
<1>2. SUFFICES ASSUME ~ (at <= 0), buf[at] = UPDATED, buf[at + 1] # LIFTED
               PROVE  /\ <<x, y>> \in Points
                      /\ \E i \in WholeIn(n) : IsPosition(mail[i])
  <2>1. Coord(Chunk, junk) =
          IF Begins(Chunk, LiftText) THEN Lift
          ELSE IF at <= 0 \/ buf[at] # UPDATED THEN NoCoord
          ELSE IF buf[at + 1] = LIFTED THEN Lift
          ELSE IF x = 0 /\ y = 0 THEN NoCoord
          ELSE [kind |-> "at", x |-> x, y |-> y]
    BY DEF Coord
  <2> HIDE DEF at, x, y, buf
  <2>2. \/ Coord(Chunk, junk) = Lift \/ Coord(Chunk, junk) = NoCoord
        \/ /\ ~ (at <= 0) /\ buf[at] = UPDATED /\ buf[at + 1] # LIFTED
           /\ Coord(Chunk, junk) = [kind |-> "at", x |-> x, y |-> y]
    BY <2>1
  <2> QED
    BY <1>1, <1>2, <2>2
<1>3. /\ End(Len(mail)) \in Nat /\ Chunk \in Seq(0..255) /\ n \in Nat
      /\ n <= 16 /\ n <= End(Len(mail))
      /\ \A p \in 1..n : Chunk[p] = Unread[p]
  BY ChunkIs DEF RBUF
<1>4. \A j \in 1..n : Chunk[j] \in 0..255
  BY <1>3, ElementOfSeq
<1>5. Genuine(Chunk, n) /\ Answers(Chunk, n) = Starts(n)
  <2> HIDE DEF n
  <2> QED
    BY <1>3, ReceivedAre
<1>6. Holds(buf, Chunk, n)
  <2>1. Len(Chunk) \in 0..RBUF
    <3> HIDE DEF n
    <3>1. n \in 0..RBUF
      BY <1>3 DEF RBUF
    <3> QED
      BY <3>1 DEF n
  <2>2. \A j \in 1..Len(Chunk) : Chunk[j] \in 0..255
    BY <1>4
  <2>3. Holds(Buffer(Chunk, junk), Chunk, Len(Chunk))
    BY <2>1, <2>2, BufferHolds
  <2> QED
    BY <2>3
<1>7. at = DataOf(Starts(n))
  <2> HIDE DEF n, buf
  <2>1. n \in 0..16
    BY <1>3
  <2> QED
    BY <1>5, <1>6, <2>1, ScanFinds
<1> HIDE DEF at, n, buf
<1>8. PICK i \in WholeIn(n) : at = End(i - 1) + 6
  <2>1. Starts(n) # {}
    BY <1>2, <1>7 DEF DataOf
  <2>2. \A i \in WholeIn(n) : End(i - 1) \in Nat
    BY AnswerOpens DEF WholeIn
  <2>3. Starts(n) \in SUBSET Nat
    BY <2>2 DEF Starts
  <2>4. PICK q \in Starts(n) : \A r \in Starts(n) : q <= r
    BY <2>1, <2>3, Least
  <2>5. at = q + 6
    BY <1>7, <2>3, <2>4, DataOfLeast
  <2> QED
    BY <2>4, <2>5 DEF Starts
<1> DEFINE b == mail[i].bytes
           e == End(i - 1)
<1>9. i \in 1..Len(mail) /\ Whole(mail[i]) /\ End(i) <= n
  BY DEF WholeIn
<1>10. e \in Nat /\ e + 12 <= n /\ \A k \in 1..12 : Unread[e + k] = b[k]
  BY <1>9, AnswerOpens
<1>11. ASSUME NEW k \in 6..11 PROVE buf[e + k] = b[k + 1]
  <2> HIDE DEF e, b
  <2>1. e + k \in 0..(n - 1) /\ e + k + 1 \in 1..n /\ k + 1 \in 1..12
        /\ e + (k + 1) = e + k + 1
    <3>1. n \in Nat /\ e \in Nat /\ e + 12 <= n
      BY <1>3, <1>10
    <3> QED
      BY <3>1
  <2>2. buf[e + k] = Chunk[e + k + 1]
    BY <1>6, <2>1 DEF Holds
  <2> QED
    BY <1>3, <1>10, <2>1, <2>2
<1>12. PICK flag, status, u, v : Reports(b, flag, status, u, v) /\ Spells(b, flag, status, u, v)
  <2>1. IsAnswer(b)
    BY <1>9 DEF Mail, Letters, Sent
  <2>2. PICK flag \in {0, UPDATED}, status \in 0..2,
             u \in 0..(HEAD_L * 256 - 1), v \in 0..(HEAD_L * 256 - 1) :
          Reports(b, flag, status, u, v)
    BY <2>1, AnswerIs
  <2>3. Spells(b, flag, status, u, v)
    BY <2>2, AnswerBytes DEF Reports
  <2> QED
    BY <2>2, <2>3
<1>13. /\ buf[at] = b[7] /\ buf[at + 1] = b[8] /\ buf[at + 2] = b[9]
       /\ buf[at + 3] = b[10] /\ buf[at + 4] = b[11] /\ buf[at + 5] = b[12]
  <2> HIDE DEF e, b
  <2>1. /\ at = e + 6 /\ at + 1 = e + 7 /\ at + 2 = e + 8
        /\ at + 3 = e + 9 /\ at + 4 = e + 10 /\ at + 5 = e + 11
    BY <1>8, <1>10 DEF e
  <2>2. /\ buf[e + 6] = b[6 + 1] /\ buf[e + 7] = b[7 + 1] /\ buf[e + 8] = b[8 + 1]
        /\ buf[e + 9] = b[9 + 1] /\ buf[e + 10] = b[10 + 1] /\ buf[e + 11] = b[11 + 1]
    BY <1>11
  <2> QED
    BY <2>1, <2>2
<1> HIDE DEF b
<1>14. x = u /\ y = v /\ flag = UPDATED /\ status # LIFTED
  BY <1>2, <1>12, <1>13 DEF Spells
<1> HIDE DEF x, y
<1>15. <<x, y>> \in Points
  BY <1>12, <1>14 DEF Reports
<1>16. IsPosition(mail[i])
  BY <1>2, <1>9, <1>13 DEF IsPosition, Whole, b
<1> QED
  BY <1>15, <1>16

\* What is left of a message is a position only if all of it is left.
LEMMA TailPosition ==
  ASSUME NEW m \in Entry, Sent(m), NEW k \in Nat, k >= 1, k <= Len(m.bytes),
         IsPosition([m EXCEPT !.bytes = SubSeq(@, k, Len(@))])
  PROVE  IsPosition(m)
<1> DEFINE rest == [m EXCEPT !.bytes = SubSeq(@, k, Len(@))]
           b == m.bytes
           c == SubSeq(b, k, Len(b))
<1>1. b \in Seq(0..255) /\ Len(b) \in Nat /\ Len(b) >= 1 /\ Len(b) <= 12 /\ k <= Len(b)
  BY DEF Entry, Sent
<1>2. rest.kind = m.kind /\ rest.bytes = c
  BY DEF Entry
<1>3. \A j \in k..Len(b) : b[j] \in 0..255
  <2>1. \A j \in k..Len(b) : j \in 1..Len(b)
    BY <1>1
  <2> QED
    BY <1>1, <2>1, ElementOfSeq
<1>4. /\ Len(c) = IF k <= Len(b) THEN Len(b) - k + 1 ELSE 0
      /\ \A j \in 1..(Len(b) - k + 1) : c[j] = b[k + j - 1]
  BY <1>1, <1>3, SubSeqProperties
<1> HIDE DEF c
<1>5. Len(c) = 12 /\ c[7] = UPDATED /\ c[8] # LIFTED /\ m.kind = "answer"
  BY <1>2 DEF IsPosition
<1> HIDE DEF b
<1>6. k = 1 /\ Len(b) = 12
  <2>1. Len(b) - k + 1 = 12
    BY <1>1, <1>4, <1>5
  <2>2. \A l, f \in Nat : f >= 1 /\ l <= 12 /\ l - f + 1 = 12 => f = 1 /\ l = 12
    OBVIOUS
  <2> QED
    BY <1>1, <2>1, <2>2
<1>7. c[7] = b[7] /\ c[8] = b[8]
  <2>1. \A j \in 1..12 : c[j] = b[1 + j - 1]
    BY <1>4, <1>6
  <2>2. c[7] = b[1 + 7 - 1] /\ c[8] = b[1 + 8 - 1]
    BY <2>1
  <2> QED
    BY <2>2
<1> QED
  BY <1>5, <1>6, <1>7 DEF IsPosition, b

\* There are finitely many positions under way.
LEMMA PositionsFinite ==
  ASSUME Mail
  PROVE  /\ Positions \subseteq 1..Len(mail) /\ IsFiniteSet(Positions)
         /\ Cardinality(Positions) \in Nat
<1>1. DOMAIN mail = 1..Len(mail) /\ Len(mail) \in Nat
  BY LenProperties, Ends DEF Mail, Letters
<1>2. Positions \in SUBSET (1..Len(mail))
  BY <1>1 DEF Positions
<1>3. IsFiniteSet(1..Len(mail))
  BY <1>1, FS_Interval
<1>4. IsFiniteSet(Positions)
  BY <1>2, <1>3, FS_Subset
<1> QED
  BY <1>2, <1>4, FS_CardinalityType

\* A set of numbers that fits into another when it is moved up is not larger.
LEMMA MovedUp ==
  ASSUME NEW T \in SUBSET Nat, NEW S \in SUBSET Nat, IsFiniteSet(S), NEW k \in Nat,
         \A i \in T : i + k \in S
  PROVE  IsFiniteSet(T) /\ Cardinality(T) <= Cardinality(S)
<1> DEFINE f == [i \in T |-> i + k]
<1>1. f \in [T -> S]
  OBVIOUS
<1>2. \A i, j \in T : f[i] = f[j] => i = j
  OBVIOUS
<1>3. f \in Injection(T, S)
  BY <1>1, <1>2 DEF Injection, IsInjective
<1> QED
  BY <1>3, FS_Injection

\* Reading brings no position; one that is taken is gone.
LEMMA ReadingTakes ==
  ASSUME Mail, mail' = Rest(Len(Chunk))
  PROVE  /\ Cardinality(Positions') \in Nat
         /\ Cardinality(Positions') <= Cardinality(Positions)
         /\ \A c \in Coords :
              c.kind = "at" => Cardinality(Positions') <= Cardinality(Positions) - 1
<1> DEFINE n == Len(Chunk)
<1>1. n \in Nat
  BY ChunkIs
<1> HIDE DEF n
<1>2. PICK k : Left(n, k)
  BY <1>1, RestParts
<1>3. mail' = Rest(n)
  BY DEF n
<1>4. /\ k \in Nat /\ Len(mail) \in Nat /\ k <= Len(mail)
      /\ Len(mail') = Len(mail) - k /\ DOMAIN mail' = 1..(Len(mail) - k)
      /\ DOMAIN mail = 1..Len(mail)
  BY <1>2, <1>3, Ends, LenProperties DEF Left, Mail, Letters
<1>5. ASSUME NEW i \in Positions' PROVE i + k \in Positions /\ i \in Nat /\ i + k > k
  <2>1. i \in 1..(Len(mail) - k) /\ IsPosition(mail'[i])
    BY <1>4 DEF Positions
  <2>2. i \in Nat /\ i >= 1 /\ i + k \in 1..Len(mail)
    BY <1>4, <2>1
  <2>3. CASE i = 1
    <3>1. k < Len(mail) /\ k + 1 = i + k
      BY <1>4, <2>2, <2>3
    <3>2. PICK from \in 1..Size(k + 1) :
            mail'[1] = [mail[k + 1] EXCEPT !.bytes = SubSeq(@, from, Len(@))]
      BY <1>2, <1>3, <3>1 DEF Left
    <3>3. mail[k + 1] \in Entry /\ Sent(mail[k + 1])
      BY <2>2, <3>1, ElementOfSeq DEF Mail, Letters
    <3>4. Size(k + 1) \in Nat /\ Size(k + 1) = Len(mail[k + 1].bytes)
      BY <2>2, <3>1, Ends DEF Size
    <3>5. from \in Nat /\ from >= 1 /\ from <= Len(mail[k + 1].bytes)
      BY <3>4
    <3>6. IsPosition([mail[k + 1] EXCEPT !.bytes = SubSeq(@, from, Len(@))])
      BY <2>1, <2>3, <3>2
    <3>7. IsPosition(mail[k + 1])
      BY <3>3, <3>5, <3>6, TailPosition
    <3> QED
      BY <1>4, <2>2, <3>1, <3>7 DEF Positions
  <2>4. CASE i # 1
    <3>1. i > 1
      BY <2>2, <2>4
    <3>2. mail'[i] = mail[i + k]
      BY <1>2, <1>3, <2>1, <3>1 DEF Left
    <3> QED
      BY <1>4, <2>1, <2>2, <3>2 DEF Positions
  <2> QED
    BY <1>4, <2>2, <2>3, <2>4
<1>6. Positions' \in SUBSET Nat /\ Positions \in SUBSET Nat /\ IsFiniteSet(Positions)
      /\ Cardinality(Positions) \in Nat
  BY <1>5, PositionsFinite
<1>7. Cardinality(Positions') \in Nat /\ Cardinality(Positions') <= Cardinality(Positions)
  <2> DEFINE T == Positions'
             S == Positions
  <2> HIDE DEF T, S
  <2>1. T \in SUBSET Nat /\ S \in SUBSET Nat /\ IsFiniteSet(S) /\ \A i \in T : i + k \in S
    BY <1>5, <1>6 DEF T, S
  <2>2. IsFiniteSet(T) /\ Cardinality(T) <= Cardinality(S)
    BY <1>4, <2>1, MovedUp
  <2>3. Cardinality(T) \in Nat
    BY <2>2, FS_CardinalityType
  <2> QED
    BY <2>2, <2>3 DEF T, S
<1>8. ASSUME NEW c \in Coords, c.kind = "at"
      PROVE  Cardinality(Positions') <= Cardinality(Positions) - 1
  <2>1. c # Lift /\ c # NoCoord
    BY <1>8 DEF Lift, NoCoord
  <2>2. \E i \in WholeIn(n) : IsPosition(mail[i])
    BY <2>1, CoordReported DEF n
  <2>3. PICK i \in WholeIn(n) : IsPosition(mail[i])
    BY <2>2
  <2>4. i \in Positions /\ i \in Nat /\ i <= k
    BY <1>2, <1>4, <2>3 DEF WholeIn, Left, Positions
  <2> DEFINE T == Positions'
             S == Positions
  <2> HIDE DEF T, S
  <2>5. IsFiniteSet(S \ {i}) /\ Cardinality(S \ {i}) = Cardinality(S) - 1
    BY <1>6, <2>4, FS_RemoveElement DEF S
  <2>6. T \in SUBSET Nat /\ S \ {i} \in SUBSET Nat
    BY <1>6 DEF T, S
  <2>7. \A j \in T : j + k \in S \ {i}
    BY <1>4, <1>5, <2>4 DEF T, S
  <2>8. Cardinality(T) <= Cardinality(S \ {i})
    BY <1>4, <2>5, <2>6, <2>7, MovedUp
  <2> QED
    BY <2>5, <2>8 DEF T, S
<1> QED
  BY <1>7, <1>8

\* At the start nothing has been sent.
LEMMA NoMail == Init => Mail
<1> SUFFICES ASSUME mail = <<>> PROVE Mail
  BY DEF Init
<1>1. <<>> \in Seq(Entry) /\ Len(<<>>) = 0
  BY EmptySeq
<1> QED
  BY <1>1, GestureAssumption DEF Mail, Letters

\* A position has two numbers.
LEMMA MailReadable ==
  ASSUME Mail
  PROVE  /\ Readable
         /\ \A c \in Coords : c.kind = "at" => c.x \in Nat /\ c.y \in Nat
<1>1. ASSUME NEW c \in Coords, c.kind = "at" PROVE <<c.x, c.y>> \in Points
  BY <1>1, CoordReported DEF Lift, NoCoord
<1>2. ASSUME NEW c \in Coords, c.kind = "at" PROVE c.x \in Nat /\ c.y \in Nat
  <2>1. <<c.x, c.y>> \in (0..(HEAD_L * 256 - 1)) \X (0..(HEAD_L * 256 - 1))
    BY <1>1, <1>2, PointsAssumption
  <2>2. c.x \in 0..(HEAD_L * 256 - 1) /\ c.y \in 0..(HEAD_L * 256 - 1)
    BY <2>1
  <2>3. \A u \in 0..(HEAD_L * 256 - 1) : u \in Nat
    BY DEF HEAD_L
  <2> QED
    BY <2>2, <2>3
<1> QED
  BY <1>1, <1>2 DEF Readable

\* parse_read_reg finds exactly the first whole answer in whatever recv returns,
\* wherever it cuts the messages and whatever lies in the buffer behind them, for any
\* number of messages (parse_read_reg, get_touch_coord).
THEOREM ParserIsRight == Spec => []ParserAgrees
BY NoMail, MailStep, ParserStep, PTL DEF Spec

-----------------------------------------------------------------------------
(* Steps. *)

\* A step of the thread that neither takes a position nor ends the gesture.
Quiet == UNCHANGED <<coord, len, index, trend, reversal, samples, last, stroke>>

\* What the steps do to the positions.
LEMMA PathStep ==
  ASSUME [Next]_vars
  PROVE  \/ Quiet
         \/ Cleared
         \/ phase = "recv" /\ \E c \in Coords : c.kind = "at" /\ Sample(c.x, c.y)
<1>1. CASE WaitPress
  BY <1>1 DEF WaitPress, Quiet, pathVars
<1>2. CASE Ask
  BY <1>2 DEF Ask, Quiet, pathVars
<1>3. CASE GiveUp
  BY <1>3 DEF GiveUp, Return
<1>4. CASE Recv
  <2>1. ASSUME NEW c, Miss(c) PROVE Quiet
    BY <2>1 DEF Miss, Quiet, touchVars, pathVars
  <2>2. ASSUME NEW c, SeeLift(c) PROVE Cleared
    BY <2>2 DEF SeeLift, Return
  <2>3. ASSUME NEW c \in Coords, Take(c)
        PROVE  \E d \in Coords : d.kind = "at" /\ Sample(d.x, d.y)
    BY <2>3 DEF Take
  <2> QED
    BY <1>4, <2>1, <2>2, <2>3 DEF Recv
<1>5. CASE Screen
  BY <1>5 DEF Screen, PutDown, TakeOff, Position, Off, Nothing, Respond, Quiet, touchVars,
     pathVars
<1>6. CASE UNCHANGED vars
  BY <1>6 DEF vars, Quiet, touchVars, pathVars
<1> QED
  BY <1>1, <1>2, <1>3, <1>4, <1>5, <1>6 DEF Next, Thread

-----------------------------------------------------------------------------
(* Sides. *)

\* Two earlier positions to the left, of which one is further away: the halved
\* average of them is smaller than half the new one.
LEMMA RightSide ==
  ASSUME NEW x \in Nat, NEW a \in Nat, NEW b \in Nat, a < x, b < x, a # b
  PROVE  (a + b) \div 4 < x \div 2
<1>1. a + b <= 2 * x - 3
  OBVIOUS
<1> QED
  BY <1>1

\* Two to the right, a step of two or more apart.
LEMMA LeftSide ==
  ASSUME NEW x \in Nat, NEW a \in Nat, NEW b \in Nat,
         a >= x + 2, b >= x + 2, a >= b + 2 \/ b >= a + 2
  PROVE  (a + b) \div 4 > x \div 2
<1>1. a + b >= 2 * x + 6
  OBVIOUS
<1> QED
  BY <1>1

\* One that rests is on neither side.
LEMMA NoSide ==
  ASSUME NEW x \in Nat
  PROVE  (x + x) \div 4 = x \div 2
OBVIOUS

-----------------------------------------------------------------------------
(* The ring. *)

\* The slots of the ring that have been written in this gesture.
Written == {i \in 0..(COORD_SAVE_MAX - 1) : i < samples}

\* The fields of `touch`.
Ring ==
  /\ coord \in [0..COORD_SAVE_MAX -> Nat]
  /\ len \in Nat /\ index \in 0..COORD_SAVE_MAX /\ trend \in Int /\ reversal \in {0, 1}
  /\ samples \in Nat /\ last \in Nat
  /\ samples <= COORD_SAVE_MAX => index = samples /\ len = samples
  /\ samples = 0 <=> stroke = "none"
  /\ samples = 1 <=> stroke = "first"

\* The earlier positions still in the ring, by how the finger moved: distinct ones
\* on one side, or all in one place.
Path ==
  /\ samples < 3 => trend = 0
  /\ samples = 1 => coord[0] = last
  /\ stroke = "right" =>
       /\ \A i \in Written : coord[i] <= last
       /\ \A i, j \in Written : i # j => coord[i] # coord[j]
       /\ samples >= 3 => trend > 0
  /\ stroke = "left" =>
       /\ \A i \in Written : coord[i] >= last
       /\ \A i, j \in Written : i # j =>
            coord[i] >= coord[j] + 2 \/ coord[j] >= coord[i] + 2
       /\ samples >= 3 => trend < 0
  /\ stroke = "still" =>
       /\ \A i \in Written : coord[i] = last
       /\ trend = 0

\* Whatever the place of a position in the ring, from the third one on it is
\* compared with two different slots that have been written, and not with its own.
LEMMA BeforeSlots ==
  ASSUME Ring, samples >= 2
  PROVE  \E i, j \in Written : i # j /\ Before(index) = coord[i] + coord[j]
<1> USE GestureAssumption DEF Ring, Written
<1>1. CASE index = 0
  <2>1. samples > COORD_SAVE_MAX
    BY <1>1
  <2>2. Before(index) = coord[COORD_SAVE_MAX - 1] + coord[COORD_SAVE_MAX - 2]
    BY <1>1 DEF Before
  <2> QED
    BY <2>1, <2>2
<1>2. CASE index = 1
  <2>1. samples > COORD_SAVE_MAX
    BY <1>2
  <2>2. Before(index) = coord[0] + coord[COORD_SAVE_MAX - 1]
    BY <1>2 DEF Before
  <2> QED
    BY <2>1, <2>2
<1>3. CASE index \notin {0, 1}
  <2>1. Before(index) = coord[index - 1] + coord[index - 2]
    BY <1>3 DEF Before
  <2>2. index - 1 < samples /\ index - 2 < samples
    OBVIOUS
  <2> QED
    BY <1>3, <2>1, <2>2
<1> QED
  BY <1>1, <1>2, <1>3

\* One more position keeps the fields what they are.
LEMMA SampleRing ==
  ASSUME Ring, NEW x \in Nat, NEW y \in Nat, Sample(x, y)
  PROVE  Ring'
<1> USE GestureAssumption
<1>1. Side(index, x) \in {-1, 0, 1}
  BY DEF Side
<1>2. coord' \in [0..COORD_SAVE_MAX -> Nat]
  BY DEF Ring, Sample
<1>3. len' \in Nat /\ index' \in 0..COORD_SAVE_MAX
  BY DEF Ring, Sample
<1>4. trend' \in Int /\ reversal' \in {0, 1}
  BY <1>1 DEF Ring, Sample
<1>5. samples' = samples + 1 /\ last' = x /\ stroke' = StrokeAfter(x)
  BY DEF Sample
<1>6. samples' <= COORD_SAVE_MAX => index' = samples' /\ len' = samples'
  BY DEF Ring, Sample
<1>7. (samples' = 1 <=> stroke' = "first") /\ stroke' # "none" /\ samples' # 0
  BY <1>5 DEF Ring, StrokeAfter, Direction
<1> QED
  BY <1>2, <1>3, <1>4, <1>5, <1>6, <1>7 DEF Ring

\* So does every step.
LEMMA RingStep ==
  ASSUME Ring, Mail, [Next]_vars
  PROVE  Ring'
<1>1. CASE Quiet
  BY <1>1 DEF Quiet, Ring
<1>2. CASE Cleared
  BY <1>2, GestureAssumption DEF Cleared, Ring
<1>3. ASSUME phase = "recv", NEW c \in Coords, c.kind = "at", Sample(c.x, c.y)
      PROVE  Ring'
  <2>1. c.x \in Nat /\ c.y \in Nat
    BY <1>3, MailReadable
  <2> QED
    BY <1>3, <2>1, SampleRing
<1> QED
  BY <1>1, <1>2, <1>3, PathStep

\* And a path that goes on the same way goes on on one side.
LEMMA SamplePath ==
  ASSUME Ring, Path, NEW x \in Nat, NEW y \in Nat, Sample(x, y)
  PROVE  Path'
<1> USE GestureAssumption
<1> DEFINE side == Side(index, x)
<1>1. Ring'
  BY SampleRing
<1>2. /\ samples' = samples + 1 /\ last' = x /\ stroke' = StrokeAfter(x)
      /\ coord' = [coord EXCEPT ![index] = x]
  BY DEF Sample
<1>3. /\ samples \in Nat /\ last \in Nat /\ coord \in [0..COORD_SAVE_MAX -> Nat]
      /\ index \in 0..COORD_SAVE_MAX /\ trend \in Int
  BY DEF Ring
<1>4. side \in {-1, 0, 1}
  BY DEF Side
<1>5. /\ samples < 2 => trend' = trend
      /\ samples = 2 => trend' = trend + side
      /\ trend' \in {trend, trend + side}
  BY <1>3, <1>4 DEF Ring, Sample
<1>6. ASSUME NEW i \in Written'
      PROVE  \/ i = index /\ coord'[i] = x
             \/ i # index /\ i \in Written /\ coord'[i] = coord[i]
  <2>1. i \in 0..(COORD_SAVE_MAX - 1) /\ i < samples + 1
    BY <1>2, <1>6 DEF Written
  <2>2. i # index => i < samples
    BY <1>3, <2>1 DEF Ring
  <2>3. i \in 0..COORD_SAVE_MAX
    BY <2>1
  <2>4. CASE i = index
    BY <1>2, <1>3, <2>3, <2>4
  <2>5. CASE i # index
    BY <1>2, <1>3, <2>1, <2>2, <2>3, <2>5 DEF Written
  <2> QED
    BY <2>4, <2>5
<1>7. samples' < 3 => trend' = 0
  BY <1>2, <1>3, <1>5 DEF Path
<1>8. samples' = 1 => coord'[0] = last'
  BY <1>2, <1>3 DEF Ring
<1>9. CASE samples = 0
  <2>1. stroke' = "first"
    BY <1>2, <1>9 DEF StrokeAfter
  <2> QED
    BY <1>7, <1>8, <2>1 DEF Path
<1>10. CASE samples = 1
  <2>1. coord[0] = last /\ index = 1 /\ stroke' = Direction(x) /\ trend' = 0
    BY <1>2, <1>7, <1>10 DEF Path, Ring, StrokeAfter
  <2>2. ASSUME NEW i \in Written'
        PROVE  (i = 0 /\ coord'[i] = last) \/ (i = 1 /\ coord'[i] = x)
    BY <1>3, <1>6, <1>10, <2>1, <2>2 DEF Written
  <2>3. /\ stroke' = "right" => x > last
        /\ stroke' = "left" => x <= last - 2
        /\ stroke' = "still" => x = last
    BY <1>3, <2>1 DEF Direction
  <2>4. stroke' \in {"right", "left", "still", "mixed"} /\ samples' = 2
    BY <1>2, <1>10, <2>1 DEF Direction, StrokeAfter
  <2> QED
    BY <1>2, <1>3, <1>7, <1>8, <1>10, <2>1, <2>2, <2>3, <2>4 DEF Path
<1>11. CASE samples >= 2
  <2>1. PICK a, b \in Written : a # b /\ Before(index) = coord[a] + coord[b]
    BY <1>11, BeforeSlots
  <2>2. \A i \in Written : coord[i] \in Nat
    BY <1>3 DEF Written
  <2>3. stroke' # "mixed" => stroke' = stroke /\ stroke = Direction(x)
    BY <1>2, <1>3, <1>11 DEF StrokeAfter, Ring
  <2>4. CASE stroke' = "right"
    <3>1. stroke = "right" /\ x > last
      BY <2>3, <2>4, <1>3 DEF Direction
    <3>2. coord[a] < x /\ coord[b] < x /\ coord[a] # coord[b]
      <4>1. coord[a] <= last /\ coord[b] <= last /\ coord[a] # coord[b]
        BY <2>1, <3>1 DEF Path
      <4> QED
        BY <2>2, <3>1, <4>1, <1>3
    <3>3. side = 1
      BY <2>1, <2>2, <3>2, RightSide DEF Side
    <3>4. samples' >= 3 => trend' > 0
      BY <1>2, <1>3, <1>5, <1>11, <3>1, <3>3 DEF Path
    <3>5. \A i \in Written' : coord'[i] <= last'
      <4>1. \A i \in Written : coord[i] <= last
        BY <3>1 DEF Path
      <4> QED
        BY <1>2, <1>3, <1>6, <2>2, <3>1, <4>1
    <3>6. \A i, j \in Written' : i # j => coord'[i] # coord'[j]
      <4>1. \A i \in Written : coord[i] <= last
        BY <3>1 DEF Path
      <4>2. \A i, j \in Written : i # j => coord[i] # coord[j]
        BY <3>1 DEF Path
      <4>3. ASSUME NEW i \in Written', NEW j \in Written', i # j
            PROVE  coord'[i] # coord'[j]
        <5>1. (i = index /\ coord'[i] = x) \/ (i \in Written /\ coord'[i] = coord[i])
          BY <1>6
        <5>2. (j = index /\ coord'[j] = x) \/ (j \in Written /\ coord'[j] = coord[j])
          BY <1>6
        <5> QED
          BY <1>3, <2>2, <3>1, <4>1, <4>2, <4>3, <5>1, <5>2
      <4> QED
        BY <4>3
    <3> QED
      BY <1>7, <1>8, <2>4, <3>4, <3>5, <3>6 DEF Path
  <2>5. CASE stroke' = "left"
    <3>1. stroke = "left" /\ x <= last - 2
      BY <2>3, <2>5, <1>3 DEF Direction
    <3>2. /\ coord[a] >= x + 2 /\ coord[b] >= x + 2
          /\ coord[a] >= coord[b] + 2 \/ coord[b] >= coord[a] + 2
      <4>1. coord[a] >= last /\ coord[b] >= last
        BY <2>1, <3>1 DEF Path
      <4>2. coord[a] >= coord[b] + 2 \/ coord[b] >= coord[a] + 2
        BY <2>1, <3>1 DEF Path
      <4> QED
        BY <2>2, <3>1, <4>1, <4>2, <1>3
    <3>3. side = -1
      BY <2>1, <2>2, <3>2, LeftSide DEF Side
    <3>4. samples' >= 3 => trend' < 0
      BY <1>2, <1>3, <1>5, <1>11, <3>1, <3>3 DEF Path
    <3>5. \A i \in Written' : coord'[i] >= last'
      <4>1. \A i \in Written : coord[i] >= last
        BY <3>1 DEF Path
      <4> QED
        BY <1>2, <1>3, <1>6, <2>2, <3>1, <4>1
    <3>6. \A i, j \in Written' : i # j =>
            coord'[i] >= coord'[j] + 2 \/ coord'[j] >= coord'[i] + 2
      <4>1. \A i \in Written : coord[i] >= last
        BY <3>1 DEF Path
      <4>2. \A i, j \in Written : i # j =>
              coord[i] >= coord[j] + 2 \/ coord[j] >= coord[i] + 2
        BY <3>1 DEF Path
      <4>3. ASSUME NEW i \in Written', NEW j \in Written', i # j
            PROVE  coord'[i] >= coord'[j] + 2 \/ coord'[j] >= coord'[i] + 2
        <5>1. (i = index /\ coord'[i] = x) \/ (i \in Written /\ coord'[i] = coord[i])
          BY <1>6
        <5>2. (j = index /\ coord'[j] = x) \/ (j \in Written /\ coord'[j] = coord[j])
          BY <1>6
        <5>3. CASE i \in Written /\ coord'[i] = coord[i]
                   /\ j \in Written /\ coord'[j] = coord[j]
          BY <4>2, <4>3, <5>3
        <5>4. CASE i \in Written /\ coord'[i] = coord[i] /\ coord'[j] = x
          <6>1. coord[i] >= last /\ coord[i] \in Nat
            BY <2>2, <4>1, <5>4
          <6> QED
            BY <1>3, <3>1, <5>4, <6>1
        <5>5. CASE coord'[i] = x /\ j \in Written /\ coord'[j] = coord[j]
          <6>1. coord[j] >= last /\ coord[j] \in Nat
            BY <2>2, <4>1, <5>5
          <6> QED
            BY <1>3, <3>1, <5>5, <6>1
        <5> QED
          BY <4>3, <5>1, <5>2, <5>3, <5>4, <5>5
      <4> QED
        BY <4>3
    <3> QED
      BY <1>7, <1>8, <2>5, <3>4, <3>5, <3>6 DEF Path
  <2>6. CASE stroke' = "still"
    <3>1. stroke = "still" /\ x = last
      BY <2>3, <2>6, <1>3 DEF Direction
    <3>2. coord[a] = x /\ coord[b] = x
      BY <2>1, <3>1 DEF Path
    <3>3. side = 0
      BY <2>1, <3>2, NoSide DEF Side
    <3>4. trend' = 0
      BY <1>3, <1>5, <3>1, <3>3 DEF Path
    <3>5. \A i \in Written' : coord'[i] = last'
      BY <1>2, <1>6, <3>1 DEF Path
    <3> QED
      BY <1>7, <1>8, <2>6, <3>4, <3>5 DEF Path
  <2>7. CASE stroke' \notin {"right", "left", "still"}
    BY <1>7, <1>8, <2>7 DEF Path
  <2> QED
    BY <2>4, <2>5, <2>6, <2>7
<1> QED
  BY <1>3, <1>9, <1>10, <1>11

\* A finger that keeps moving one way is seen to do so from the third position on,
\* and one that rests is not seen to move (get_touch_instructions).
THEOREM SteadyIsRecognised == Spec => []SteadyRecognised
<1> DEFINE Inv == Ring /\ Path /\ Mail
<1>1. Init => Inv
  BY GestureAssumption, NoMail DEF Init, Ring, Path
<1>2. Inv /\ [Next]_vars => Inv'
  <2> SUFFICES ASSUME Inv, [Next]_vars PROVE Inv'
    OBVIOUS
  <2> USE MailStep
  <2>1. CASE Quiet
    BY <2>1, RingStep DEF Quiet, Path, Written
  <2>2. CASE Cleared
    BY <2>2, RingStep DEF Cleared, Path
  <2>3. ASSUME phase = "recv", NEW c \in Coords, c.kind = "at", Sample(c.x, c.y)
        PROVE  Inv'
    <3>1. c.x \in Nat /\ c.y \in Nat
      BY <2>3, MailReadable
    <3> QED
      BY <2>3, <3>1, RingStep, SamplePath
  <2> QED
    BY <2>1, <2>2, <2>3, PathStep
<1>3. Inv => SteadyRecognised
  BY DEF Path, SteadyRecognised
<1> QED
  BY <1>1, <1>2, <1>3, PTL DEF Spec

-----------------------------------------------------------------------------
(* The hints. *)

\* Between gestures no screen is chosen; a lit hint belongs to the gesture under
\* way or to one that was given up.
Hints ==
  /\ hint \in [Screens -> 0..2] /\ reversal \in {0, 1}
  /\ phase = "press" <=> screen_id = "none"
  /\ screen_id \in Screens \cup {"none"}
  /\ HintAccounted

\* Every step keeps the account.
LEMMA HintsStep ==
  ASSUME Hints, [Next]_vars
  PROVE  Hints'
<1> USE DEF Hints, HintAccounted, Screens
<1>1. CASE WaitPress
  BY <1>1 DEF WaitPress
<1>2. CASE Ask
  BY <1>2 DEF Ask
<1>3. CASE GiveUp
  BY <1>3 DEF GiveUp, Return, Cleared
<1>4. ASSUME phase = "recv", NEW c, SeeLift(c) PROVE Hints'
  BY <1>4 DEF SeeLift, Return, Cleared
<1>5. ASSUME phase = "recv", NEW c, Miss(c) PROVE Hints'
  BY <1>5 DEF Miss, touchVars
<1>6. ASSUME phase = "recv", NEW c, Take(c) PROVE Hints'
  <2>1. ASSUME NEW side, NEW odd \in {0, 1}
        PROVE  /\ HintAfter(side, odd) \in [Screens -> 0..2]
               /\ \A s \in Screens \ {screen_id} : HintAfter(side, odd)[s] = hint[s]
    <3>1. screen_id \in Screens /\ hint \in [Screens -> 0..2]
      BY <1>6
    <3>2. \/ HintAfter(side, odd) = [hint EXCEPT !["t"] = odd] /\ screen_id = "t"
          \/ HintAfter(side, odd) = [hint EXCEPT !["x"] = 2 * odd] /\ screen_id = "x"
          \/ HintAfter(side, odd) = [hint EXCEPT ![screen_id] = 0]
          \/ HintAfter(side, odd) = hint
      <4>1. CASE side = -1 /\ screen_id = "t"
        BY <4>1 DEF HintAfter
      <4>2. CASE side = 1 /\ screen_id = "x"
        BY <4>2 DEF HintAfter
      <4>3. CASE side = 0
        BY <4>3 DEF HintAfter
      <4>4. CASE /\ ~(side = -1 /\ screen_id = "t")
                 /\ ~(side = 1 /\ screen_id = "x")
                 /\ side # 0
        BY <4>4 DEF HintAfter
      <4> QED
        BY <4>1, <4>2, <4>3, <4>4
    <3> QED
      BY <2>1, <3>1, <3>2
  <2>2. 1 - reversal \in {0, 1}
    OBVIOUS
  <2>3. /\ hint' = hint \/ \E side : hint' = HintAfter(side, 1 - reversal)
        /\ reversal' \in {0, 1}
    BY <1>6, <2>2 DEF Take, Sample
  <2>4. hint' \in [Screens -> 0..2] /\ \A s \in Screens \ {screen_id} : hint'[s] = hint[s]
    BY <2>1, <2>2, <2>3
  <2> QED
    BY <1>6, <2>3, <2>4 DEF Take
<1>7. CASE Screen
  BY <1>7 DEF Screen, PutDown, TakeOff, Position, Off, Nothing, Respond, touchVars
<1>8. CASE UNCHANGED vars
  BY <1>8 DEF vars, touchVars
<1> QED
  BY <1>1, <1>2, <1>3, <1>4, <1>5, <1>6, <1>7, <1>8 DEF Next, Thread, Recv

\* Outside a gesture a hint is lit only on a screen whose last gesture was given up
\* (get_touch_instructions).
THEOREM HintsAreAccounted == Spec => []HintAccounted
<1>1. Init => Hints
  BY DEF Init, Hints, HintAccounted, Screens
<1>2. Hints => HintAccounted
  BY DEF Hints
<1> QED
  BY <1>1, <1>2, HintsStep, PTL DEF Spec

-----------------------------------------------------------------------------
(* Types. *)

\* The variables neither Ring nor Hints speaks of; a position gives back the try
\* the request for it has cost.
Wire ==
  /\ phase \in {"press", "poll", "recv"}
  /\ try \in 0..TRIES /\ (phase = "recv" => try < TRIES)
  /\ finger \in Screens \cup {"up"}
  /\ requests \in Nat
  /\ stroke \in {"none", "first", "still", "right", "left", "mixed"}
  /\ given_up \subseteq Screens

\* Every step keeps their types.
LEMMA OthersStep ==
  ASSUME Wire, Hints, [Next]_vars
  PROVE  Wire'
<1> USE GestureAssumption DEF Wire, Hints, Screens
<1>1. CASE WaitPress
  BY <1>1 DEF WaitPress, pathVars
<1>2. CASE Ask
  BY <1>2 DEF Ask, pathVars
<1>3. CASE GiveUp
  BY <1>3 DEF GiveUp, Return, Cleared, wireVars
<1>4. ASSUME phase = "recv", NEW c, SeeLift(c) PROVE Wire'
  BY <1>4 DEF SeeLift, Return, Cleared
<1>5. ASSUME phase = "recv", NEW c, Miss(c) PROVE Wire'
  BY <1>5 DEF Miss, touchVars, pathVars
<1>6. ASSUME phase = "recv", NEW c, Take(c) PROVE Wire'
  BY <1>6 DEF Take, Sample, StrokeAfter, Direction
<1>7. CASE Screen
  <2>1. ASSUME NEW bytes, Respond(bytes) PROVE Wire'
    BY <2>1 DEF Respond, touchVars, pathVars
  <2>2. CASE TakeOff \/ \E s \in Screens : PutDown(s)
    BY <2>2 DEF TakeOff, PutDown, touchVars, pathVars
  <2> QED
    BY <1>7, <2>1, <2>2 DEF Screen, Position, Off, Nothing
<1>8. CASE UNCHANGED vars
  BY <1>8 DEF vars, touchVars, wireVars, pathVars
<1> QED
  BY <1>1, <1>2, <1>3, <1>4, <1>5, <1>6, <1>7, <1>8 DEF Next, Thread, Recv

\* Every variable keeps its type; in particular what is read as a position is one the
\* finger can have, index never passes the one slot behind the ring, and a gesture
\* never has more tries than it began with (get_touch_instructions).
THEOREM TypeCorrect == Spec => []TypeOK
<1>1. Init => Ring /\ Hints /\ Wire /\ Mail
  BY GestureAssumption, NoMail
     DEF Init, Ring, Hints, HintAccounted, Wire, Screens
<1>2. Ring /\ Hints /\ Wire /\ Mail /\ [Next]_vars => (Ring /\ Hints /\ Wire /\ Mail)'
  BY RingStep, HintsStep, OthersStep, MailStep
<1>3. Ring /\ Hints /\ Wire /\ Mail => TypeOK
  BY MailReadable DEF Ring, Hints, Wire, TypeOK
<1> QED
  BY <1>1, <1>2, <1>3, PTL DEF Spec

-----------------------------------------------------------------------------
(* The end of a gesture. *)

\* What a message sent by the screen adds to the positions under way: nothing, when it
\* is none.
LEMMA PushAdds ==
  ASSUME Mail, NEW kind, NEW bytes, Push(kind, bytes), ~ IsPosition(Message(kind, bytes))
  PROVE  Positions' = Positions
<1> DEFINE m == Message(kind, bytes)
<1>1. mail \in Seq(Entry) /\ Len(mail) \in Nat /\ mail' = Append(mail, m)
  BY Ends DEF Mail, Letters, Push
<1>2. DOMAIN mail = 1..Len(mail) /\ DOMAIN mail' = 1..(Len(mail) + 1)
  BY <1>1
<1>3. mail'[Len(mail) + 1] = m /\ \A i \in 1..Len(mail) : mail'[i] = mail[i]
  BY <1>1
<1>4. ~ IsPosition(m)
  OBVIOUS
<1> HIDE DEF m
<1>5. ASSUME NEW i \in 1..(Len(mail) + 1)
      PROVE  IsPosition(mail'[i]) <=> i \in 1..Len(mail) /\ IsPosition(mail[i])
  <2>1. i = Len(mail) + 1 \/ i \in 1..Len(mail)
    BY <1>1
  <2>2. ~ (Len(mail) + 1 \in 1..Len(mail))
    BY <1>1
  <2> QED
    BY <1>3, <1>4, <2>1, <2>2
<1>6. \A i \in 1..Len(mail) : i \in 1..(Len(mail) + 1)
  BY <1>1
<1> QED
  BY <1>2, <1>5, <1>6 DEF Positions

\* The screen sends a position only while the finger is down.
LEMMA ScreenAdds ==
  ASSUME Mail, Screen, finger = "up"
  PROVE  Positions' = Positions
<1>1. ASSUME NEW kind \in {"press", "lift"}, NEW bytes, Push(kind, bytes)
      PROVE  Positions' = Positions
  <2>1. ~ IsPosition(Message(kind, bytes))
    BY DEF IsPosition, Message
  <2> QED
    BY <1>1, <2>1, PushAdds
<1>2. ASSUME NEW s \in Screens, PutDown(s) PROVE Positions' = Positions
  BY <1>1, <1>2 DEF PutDown
<1>3. CASE TakeOff
  BY <1>3 DEF TakeOff
<1>4. ASSUME NEW flag \in {0, UPDATED}, NEW status \in {0, LIFTED},
             flag = UPDATED => status = LIFTED, Respond(Answer(flag, status, 0, 0))
      PROVE  Positions' = Positions
  <2> DEFINE b == Answer(flag, status, 0, 0)
  <2>1. b[7] = flag /\ b[8] = status
    BY DEF Answer
  <2>2. ~ IsPosition(Message("answer", b))
    BY <1>4, <2>1 DEF IsPosition, Message
  <2>3. Push("answer", b)
    BY <1>4 DEF Respond
  <2> QED
    BY <2>2, <2>3, PushAdds
<1>5. CASE Off
  BY <1>4, <1>5 DEF Off
<1>6. CASE Nothing
  BY <1>4, <1>6 DEF Nothing, UPDATED
<1>7. ASSUME NEW x, NEW y, Position(x, y) PROVE FALSE
  BY <1>7 DEF Position
<1> QED
  BY <1>2, <1>3, <1>5, <1>6, <1>7 DEF Screen

\* Each step of a gesture uses up a try or a position under way.
LEMMA StepsRemain ==
  ASSUME Mail, try \in Nat, phase \in {"press", "poll", "recv"}, phase # "press", [Next]_vars
  PROVE  \/ phase' = "press"
         \/ phase' # phase /\ Remaining' < Remaining
         \/ phase' = phase /\ (finger = "up" => Remaining' = Remaining)
<1> DEFINE P == Cardinality(Positions)
<1>1. P \in Nat
  BY PositionsFinite
<1>2. ASSUME mail' = mail PROVE P' = P
  BY <1>2 DEF Positions
<1> HIDE DEF P
<1>3. Remaining = 2 * try + 2 * P + (IF phase = "recv" THEN 1 ELSE 0)
      /\ Remaining' = 2 * try' + 2 * P' + (IF phase' = "recv" THEN 1 ELSE 0)
  BY DEF Remaining, P
<1>4. CASE WaitPress
  BY <1>4 DEF WaitPress
<1>3a. ASSUME P' \in Nat, phase = "recv", phase' = "poll",
              \/ try' = try /\ P' <= P
              \/ try' = try + 1 /\ P' <= P - 1
       PROVE  phase' # phase /\ Remaining' < Remaining
  <2>1. 2 * try' + 2 * P' < 2 * try + 2 * P + 1
    BY <1>1, <1>3a
  <2> QED
    BY <1>3, <1>3a, <2>1
<1>5. CASE Ask
  <2>1. try' = try - 1 /\ phase = "poll" /\ phase' = "recv" /\ P' = P
    BY <1>2, <1>5 DEF Ask
  <2> QED
    BY <1>1, <1>3, <2>1
<1>6. CASE GiveUp
  BY <1>6 DEF GiveUp, Return
<1>7. CASE Recv
  <2>1. CASE Received /\ \E c \in Coords : SeeLift(c) \/ Miss(c) \/ Take(c)
    <3>1. PICK c \in Coords : SeeLift(c) \/ Miss(c) \/ Take(c)
      BY <2>1
    <3>2. P' \in Nat /\ P' <= P /\ (c.kind = "at" => P' <= P - 1)
      BY <2>1, ReadingTakes DEF Received, P
    <3>3. CASE SeeLift(c)
      BY <3>3 DEF SeeLift, Return
    <3>4. CASE Miss(c)
      <4>1. try' = try /\ phase = "recv" /\ phase' = "poll"
        BY <1>7, <3>4 DEF Miss, Recv, touchVars
      <4> QED
        BY <1>3a, <3>2, <4>1
    <3>5. CASE Take(c)
      <4>1. try' = try + 1 /\ phase = "recv" /\ phase' = "poll" /\ c.kind = "at"
        BY <1>7, <3>5 DEF Take, Recv
      <4> QED
        BY <1>3a, <3>2, <4>1
    <3> QED
      BY <3>1, <3>3, <3>4, <3>5
  <2>2. CASE mail = <<>> /\ Miss(NoCoord) /\ UNCHANGED mail
    <3>1. try' = try /\ phase = "recv" /\ phase' = "poll" /\ P' = P
      BY <1>2, <1>7, <2>2 DEF Miss, Recv, touchVars
    <3> QED
      BY <1>1, <1>3, <3>1
  <2> QED
    BY <1>7, <2>1, <2>2 DEF Recv
<1>8. CASE Screen
  <2>1. phase' = phase /\ try' = try
    BY <1>8 DEF Screen, PutDown, TakeOff, Position, Off, Nothing, Respond, touchVars
  <2>2. finger = "up" => P' = P
    BY <1>8, ScreenAdds DEF P
  <2> QED
    BY <1>3, <2>1, <2>2
<1>9. CASE UNCHANGED vars
  <2>1. phase' = phase /\ try' = try /\ P' = P
    BY <1>2, <1>9 DEF vars, touchVars, wireVars
  <2> QED
    BY <1>3, <2>1
<1> QED
  BY <1>4, <1>5, <1>6, <1>7, <1>8, <1>9 DEF Next, Thread

\* Once the finger is off, every step of a gesture brings its end nearer, for any
\* number of tries and any messages under way (get_touch_instructions,
\* get_touch_coord): what makes GestureEnds true but for the scheduling.
THEOREM GestureRunsDown == Spec => CountsDown
<1>1. Mail /\ TypeOK /\ [Next]_vars =>
        [phase # "press" =>
           \/ phase' = "press"
           \/ phase' # phase /\ Remaining' < Remaining
           \/ phase' = phase /\ (finger = "up" => Remaining' = Remaining)]_vars
  <2> SUFFICES ASSUME Mail, TypeOK, [Next]_vars, phase # "press"
               PROVE  \/ phase' = "press"
                      \/ phase' # phase /\ Remaining' < Remaining
                      \/ phase' = phase /\ (finger = "up" => Remaining' = Remaining)
    OBVIOUS
  <2>1. try \in Nat /\ phase \in {"press", "poll", "recv"}
    BY GestureAssumption DEF TypeOK
  <2> QED
    BY <2>1, StepsRemain
<1>2. Spec => []Mail
  BY NoMail, MailStep, PTL DEF Spec
<1> QED
  BY <1>1, <1>2, TypeCorrect, PTL DEF Spec, CountsDown
=============================================================================
