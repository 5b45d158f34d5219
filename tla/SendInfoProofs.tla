--------------------------- MODULE SendInfoProofs ---------------------------
(***************************************************************************)
(* Theorems about SendInfo, for any threads, buffers and number of frames. *)
(***************************************************************************)
EXTENDS SendInfo, SequenceTheorems, TLAPS

\* The first n frames, in the order they were copied.
Frames(n) == [k \in 1..n |-> k]

-----------------------------------------------------------------------------
(* Sequences. *)

LEMMA FramesType == ASSUME NEW n \in Nat PROVE Frames(n) \in Seq(Nat) /\ Len(Frames(n)) = n
BY DEF Frames

\* One more frame behind a prefix: the buffer of copy_to_buf.
LEMMA PrefixType ==
  ASSUME NEW m \in Seq(Nat), NEW n \in 0..Len(m)
  PROVE  SubSeq(m, 1, n) \in Seq(Nat) /\ Len(SubSeq(m, 1, n)) = n
OBVIOUS

LEMMA AppendType ==
  ASSUME NEW c \in Seq(Nat), NEW f \in Nat
  PROVE  Append(c, f) \in Seq(Nat) /\ Len(Append(c, f)) = Len(c) + 1
OBVIOUS

LEMMA CopiedContent ==
  ASSUME NEW c \in Seq(Nat), NEW f \in Nat
  PROVE  SubSeq(Append(c, f), 1, Len(c) + 1) = Append(c, f)
OBVIOUS

LEMMA AppendBehind ==
  ASSUME NEW w \in Seq(Nat), NEW c \in Seq(Nat), NEW n \in Nat,
         w \o c = Frames(n)
  PROVE  w \o Append(c, n + 1) = Frames(n + 1)
<1>1. w \o Append(c, n + 1) = Append(w \o c, n + 1)
  OBVIOUS
<1>2. Append(Frames(n), n + 1) = Frames(n + 1)
  BY DEF Frames
<1> QED
  BY <1>1, <1>2

LEMMA NothingBehind ==
  ASSUME NEW w \in Seq(Nat) PROVE w \o <<>> = w
OBVIOUS

LEMMA EmptyPrefix == ASSUME NEW m \in Seq(Nat) PROVE SubSeq(m, 1, 0) = <<>>
OBVIOUS

-----------------------------------------------------------------------------
(* Type correctness. *)

\* Nothing is ever sent from behind the end of the buffer.
InBuffer ==
  /\ \A i \in Infos : len[i] <= Len(mem[i])
  /\ \A t \in Threads : at[t] = "loaded" => reg[t] <= Len(mem[Owner[t]])

TypeInv == TypeOK /\ InBuffer

LEMMA ContentType ==
  ASSUME TypeInv, NEW i \in Infos, len[i] >= 0
  PROVE  Content(i) \in Seq(Nat) /\ Len(Content(i)) = len[i]
BY PrefixType DEF TypeInv, TypeOK, InBuffer, Content

LEMMA TypeInit == Init => TypeInv
<1> SUFFICES ASSUME Init PROVE TypeInv
  OBVIOUS
<1>1. <<>> \in Seq(Nat) /\ Len(<<>>) = 0
  OBVIOUS
<1>2. TypeOK
  <2>1. mem \in [Infos -> Seq(Nat)] /\ wire \in [Infos -> Seq(Nat)]
    BY <1>1 DEF Init
  <2>2. /\ len \in [Infos -> Int] /\ copied \in [Infos -> Nat]
        /\ wlen \in [Threads -> Nat] /\ reg \in [Threads -> Int]
    BY DEF Init
  <2>3. /\ at \in [Threads -> {"idle", "filled", "sent", "loaded"}]
        /\ alive \in BOOLEAN /\ lost \in BOOLEAN /\ overlap \in [Infos -> BOOLEAN]
    BY DEF Init
  <2> QED
    BY <2>1, <2>2, <2>3 DEF TypeOK
<1>3. InBuffer
  BY <1>1, SendInfoAssumption DEF Init, InBuffer
<1> QED
  BY <1>2, <1>3 DEF TypeInv

LEMMA TypeNext == TypeInv /\ [Next]_vars => TypeInv'
<1> SUFFICES ASSUME TypeInv, [Next]_vars PROVE TypeInv'
  OBVIOUS
<1> USE SendInfoAssumption
<1>1. ASSUME NEW t \in Threads, Copy(t) PROVE TypeInv'
  <2> DEFINE i == Owner[t]
  <2>1. i \in Infos /\ Content(i) \in Seq(Nat) /\ Len(Content(i)) = len[i]
    BY <1>1, ContentType DEF Copy, TypeInv, TypeOK
  <2>2. Append(Content(i), copied[i] + 1) \in Seq(Nat)
        /\ Len(Append(Content(i), copied[i] + 1)) = len[i] + 1
    <3>1. copied[i] + 1 \in Nat
      BY <2>1 DEF TypeInv, TypeOK
    <3> QED
      BY <2>1, <3>1, AppendType
  <2>3. TypeOK'
    <3>1. mem' \in [Infos -> Seq(Nat)]
      BY <1>1, <2>1, <2>2 DEF Copy, TypeInv, TypeOK
    <3>2. len' \in [Infos -> Int] /\ copied' \in [Infos -> Nat]
      BY <1>1, <2>1 DEF Copy, TypeInv, TypeOK
    <3>3. at' \in [Threads -> {"idle", "filled", "sent", "loaded"}]
      BY <1>1 DEF Copy, TypeInv, TypeOK
    <3> QED
      BY <1>1, <3>1, <3>2, <3>3 DEF Copy, TypeInv, TypeOK
  <2>4. \A j \in Infos : len'[j] <= Len(mem'[j])
    <3>1. len'[i] = len[i] + 1 /\ Len(mem'[i]) = len[i] + 1 /\ len[i] + 1 \in Int
      BY <1>1, <2>1, <2>2 DEF Copy, TypeInv, TypeOK
    <3>2. \A j \in Infos \ {i} : len'[j] = len[j] /\ mem'[j] = mem[j]
      BY <1>1 DEF Copy, TypeInv, TypeOK
    <3> QED
      BY <3>1, <3>2 DEF TypeInv, InBuffer
  <2>5. ASSUME NEW s \in Threads, at'[s] = "loaded"
        PROVE  reg'[s] <= Len(mem'[Owner[s]])
    <3>1. s # t /\ at[s] = "loaded" /\ reg'[s] = reg[s]
      BY <1>1, <2>5 DEF Copy, TypeInv, TypeOK
    <3>2. Owner[s] # i
      BY <1>1, <3>1 DEF Copy, Readers, Sending
    <3> QED
      BY <1>1, <2>1, <3>1, <3>2 DEF Copy, TypeInv, TypeOK, InBuffer
  <2> QED
    BY <2>3, <2>4, <2>5 DEF TypeInv, InBuffer
<1>2. ASSUME NEW t \in Threads, SendBegin(t) PROVE TypeInv'
  <2> DEFINE i == Owner[t]
  <2>1. i \in Infos /\ Content(i) \in Seq(Nat)
    BY <1>2, ContentType DEF SendBegin, TypeInv, TypeOK
  <2>2. wire[i] \o Content(i) \in Seq(Nat)
    BY <2>1 DEF TypeInv, TypeOK
  <2>3. TypeOK'
    BY <1>2, <2>1, <2>2 DEF SendBegin, TypeInv, TypeOK
  <2>4. InBuffer'
    <3>1. UNCHANGED <<mem, len, reg>>
          /\ \A s \in Threads : at'[s] = "loaded" => at[s] = "loaded"
      BY <1>2 DEF SendBegin, TypeInv, TypeOK
    <3> QED
      BY <3>1 DEF TypeInv, InBuffer
  <2> QED
    BY <2>3, <2>4 DEF TypeInv
<1>3. ASSUME NEW t \in Threads, SendLoad(t) PROVE TypeInv'
  <2>1. /\ Owner[t] \in Infos /\ len[Owner[t]] \in Int /\ wlen[t] \in Nat
        /\ mem[Owner[t]] \in Seq(Nat)
    BY DEF TypeInv, TypeOK
  <2>2. len[Owner[t]] - wlen[t] \in Int /\ len[Owner[t]] - wlen[t] <= len[Owner[t]]
    BY <2>1
  <2>3. TypeOK'
    BY <1>3, <2>2 DEF SendLoad, TypeInv, TypeOK
  <2>4. len[Owner[t]] <= Len(mem[Owner[t]]) /\ Len(mem[Owner[t]]) \in Nat
    BY <2>1 DEF TypeInv, InBuffer
  <2>5. reg'[t] = len[Owner[t]] - wlen[t] /\ reg'[t] <= Len(mem[Owner[t]])
    BY <1>3, <2>1, <2>2, <2>4 DEF SendLoad, TypeInv, TypeOK
  <2>6. \A s \in Threads \ {t} : at'[s] = at[s] /\ reg'[s] = reg[s]
    BY <1>3 DEF SendLoad, TypeInv, TypeOK
  <2>7. UNCHANGED <<mem, len>>
    BY <1>3 DEF SendLoad
  <2>8. InBuffer'
    BY <2>5, <2>6, <2>7 DEF TypeInv, InBuffer
  <2> QED
    BY <2>3, <2>8 DEF TypeInv
<1>4. ASSUME NEW t \in Threads, SendStore(t) PROVE TypeInv'
  <2>1. Owner[t] \in Infos /\ reg[t] \in Int /\ at[t] = "loaded"
    BY <1>4 DEF SendStore, TypeInv, TypeOK
  <2>2. TypeOK'
    BY <1>4, <2>1 DEF SendStore, TypeInv, TypeOK
  <2>3. reg[t] <= Len(mem[Owner[t]])
    BY <2>1 DEF TypeInv, InBuffer
  <2>4. \A j \in Infos : len'[j] <= Len(mem[j])
    BY <1>4, <2>1, <2>3 DEF SendStore, TypeInv, TypeOK, InBuffer
  <2>5. UNCHANGED <<mem, reg>> /\ \A s \in Threads : at'[s] = "loaded" => at[s] = "loaded"
    BY <1>4 DEF SendStore, TypeInv, TypeOK
  <2>6. InBuffer'
    BY <2>4, <2>5 DEF TypeInv, InBuffer
  <2> QED
    BY <2>2, <2>6 DEF TypeInv
<1>5. ASSUME NEW t \in Threads, Disconnect(t) PROVE TypeInv'
  BY <1>5 DEF Disconnect, TypeInv, TypeOK, InBuffer
<1>6. ASSUME NEW t \in Threads, Break(t) PROVE TypeInv'
  BY <1>6 DEF Break, TypeInv, TypeOK, InBuffer
<1>7. CASE UNCHANGED vars
  BY <1>7 DEF vars, TypeInv, TypeOK, InBuffer
<1> QED
  BY <1>1, <1>2, <1>3, <1>4, <1>5, <1>6, <1>7 DEF Next, SendStep, Rest

\* Type correctness of the send buffers.
THEOREM TypeCorrect == Spec => []TypeOK
<1>1. TypeInv => TypeOK
  BY DEF TypeInv
<1> QED
  BY TypeInit, TypeNext, <1>1, PTL DEF Spec

-----------------------------------------------------------------------------
(* Exactly-once delivery, as long as no two sends of a buffer overlap. *)

\* While one thread sends, the others find an empty buffer or wait, and what it
\* is about to store is 0.
DeliveryOf(i) ==
  ~overlap[i] =>
    /\ len[i] >= 0
    /\ wire[i] \o Unsent(i) = Frames(copied[i])
    /\ \A t \in Readers(i) : wlen[t] = len[i] /\ (at[t] = "loaded" => reg[t] = 0)
    /\ len[i] > 0 => \A s, t \in Readers(i) : s = t

DeliveryInv == TypeInv /\ \A i \in Infos : DeliveryOf(i)

LEMMA DeliveryInit == Init => DeliveryInv
<1> SUFFICES ASSUME Init, NEW i \in Infos PROVE DeliveryOf(i)
  BY TypeInit DEF DeliveryInv
<1>1. Readers(i) = {} /\ len[i] = 0 /\ copied[i] = 0
  BY DEF Init, Readers, Sending
<1>2. Unsent(i) = <<>> /\ wire[i] = <<>>
  BY <1>1, EmptyPrefix DEF Init, Unsent, Content
<1>3. <<>> \o <<>> = Frames(0)
  BY DEF Frames
<1> QED
  BY <1>1, <1>2, <1>3 DEF DeliveryOf

LEMMA DeliveryNext == DeliveryInv /\ [Next]_vars => DeliveryInv'
<1> SUFFICES ASSUME DeliveryInv, [Next]_vars PROVE DeliveryInv'
  OBVIOUS
<1> USE SendInfoAssumption
<1>0. TypeInv /\ TypeInv' /\ TypeOK
  BY TypeNext DEF DeliveryInv, TypeInv
<1>1. SUFFICES ASSUME NEW i \in Infos PROVE DeliveryOf(i)'
  BY <1>0 DEF DeliveryInv
<1>2. DeliveryOf(i)
  BY DEF DeliveryInv
<1>3. ASSUME NEW t \in Threads, Copy(t) PROVE DeliveryOf(i)'
  <2>1. CASE Owner[t] # i
    <3>1. Readers(i)' = Readers(i)
      BY <1>3, <2>1, <1>0 DEF Copy, Readers, Sending, TypeOK
    <3>2. /\ Unsent(i)' = Unsent(i) /\ wire'[i] = wire[i] /\ copied'[i] = copied[i]
          /\ len'[i] = len[i] /\ overlap'[i] = overlap[i]
      BY <1>3, <2>1, <1>0, <3>1 DEF Copy, Unsent, Content, TypeOK
    <3>3. \A s \in Readers(i) : at'[s] = at[s] /\ wlen'[s] = wlen[s] /\ reg'[s] = reg[s]
      BY <1>3, <2>1, <1>0 DEF Copy, Readers, TypeOK
    <3> QED
      BY <1>2, <3>1, <3>2, <3>3 DEF DeliveryOf
  <2>2. CASE Owner[t] = i /\ ~overlap[i]
    <3>1. Readers(i) = {} /\ Readers(i)' = {}
      BY <1>3, <2>2, <1>0 DEF Copy, Readers, Sending, TypeOK
    <3>2. Content(i) \in Seq(Nat) /\ Len(Content(i)) = len[i] /\ len[i] >= 0
      BY <1>0, <1>3, <2>2, ContentType DEF Copy
    <3>3. /\ mem'[i] = Append(Content(i), copied[i] + 1) /\ len'[i] = Len(Content(i)) + 1
          /\ copied'[i] = copied[i] + 1 /\ wire'[i] = wire[i]
      BY <1>3, <2>2, <1>0, <3>2 DEF Copy, TypeOK
    <3>9. wire[i] \in Seq(Nat) /\ copied[i] \in Nat /\ copied[i] + 1 \in Nat
      BY <1>0 DEF TypeOK
    <3>4. Unsent(i)' = Append(Content(i), copied[i] + 1)
      <4>1. Unsent(i)' = SubSeq(mem'[i], 1, len'[i])
        BY <3>1 DEF Unsent, Content
      <4> QED
        BY <4>1, <3>2, <3>3, <3>9, CopiedContent
    <3>5. wire[i] \o Content(i) = Frames(copied[i])
      BY <1>2, <2>2, <3>1 DEF DeliveryOf, Unsent
    <3>6. wire'[i] \o Unsent(i)' = Frames(copied'[i])
      BY <3>2, <3>3, <3>4, <3>5, <3>9, AppendBehind
    <3>7. len'[i] >= 0
      BY <3>2, <3>3
    <3> QED
      BY <3>1, <3>6, <3>7 DEF DeliveryOf
  <2>3. CASE overlap[i]
    BY <1>3, <2>3 DEF Copy, DeliveryOf
  <2> QED
    BY <2>1, <2>2, <2>3
<1>4. ASSUME NEW t \in Threads, SendBegin(t) PROVE DeliveryOf(i)'
  <2>1. CASE Owner[t] # i
    <3>1. Readers(i)' = Readers(i)
      BY <1>4, <2>1, <1>0 DEF SendBegin, Readers, Sending, TypeOK
    <3>2. /\ Unsent(i)' = Unsent(i) /\ wire'[i] = wire[i] /\ copied'[i] = copied[i]
          /\ len'[i] = len[i] /\ overlap'[i] = overlap[i]
      BY <1>4, <2>1, <1>0, <3>1 DEF SendBegin, Unsent, Content, TypeOK
    <3>3. \A s \in Readers(i) : at'[s] = at[s] /\ wlen'[s] = wlen[s] /\ reg'[s] = reg[s]
      BY <1>4, <2>1, <1>0 DEF SendBegin, Readers, TypeOK
    <3> QED
      BY <1>2, <3>1, <3>2, <3>3 DEF DeliveryOf
  <2>2. CASE Owner[t] = i /\ ~overlap'[i]
    <3>1. ~overlap[i] /\ (Readers(i) = {} \/ len[i] = 0) /\ len[i] >= 0
      <4>1. overlap'[i] = (overlap[i] \/ (Readers(i) # {} /\ len[i] > 0))
        BY <1>4, <2>2, <1>0, Zenon DEF SendBegin, TypeOK
      <4>2. len[i] \in Int /\ len[i] >= 0
        BY <1>4, <2>2, <1>0 DEF SendBegin, TypeOK
      <4>3. ~overlap[i] /\ ~(Readers(i) # {} /\ len[i] > 0)
        BY <4>1, <2>2, Zenon
      <4> QED
        BY <4>2, <4>3
    <3>2. Readers(i)' = Readers(i) \cup {t} /\ t \notin Readers(i)
      BY <1>4, <2>2, <1>0 DEF SendBegin, Readers, Sending, TypeOK
    <3>3. /\ wire'[i] = wire[i] \o Content(i) /\ copied'[i] = copied[i]
          /\ len'[i] = len[i] /\ wlen'[t] = len[i] /\ at'[t] = "sent"
      BY <1>4, <2>2, <1>0 DEF SendBegin, TypeOK
    <3>4. Content(i) = <<>> \/ Readers(i) = {}
      BY <3>1, <1>0, EmptyPrefix DEF Content, TypeOK
    <3>5. wire[i] \o Content(i) = Frames(copied[i])
      BY <1>2, <3>1, <3>4 DEF DeliveryOf, Unsent
    <3>6. wire'[i] \in Seq(Nat)
      BY <1>0 DEF TypeInv, TypeOK
    <3>7. wire'[i] \o Unsent(i)' = Frames(copied'[i])
      BY <3>2, <3>3, <3>5, <3>6, NothingBehind DEF Unsent
    <3>8. \A s \in Readers(i)' : wlen'[s] = len'[i] /\ (at'[s] = "loaded" => reg'[s] = 0)
      <4> SUFFICES ASSUME NEW s \in Readers(i)
                   PROVE  wlen'[s] = len'[i] /\ (at'[s] = "loaded" => reg'[s] = 0)
        BY <3>2, <3>3
      <4>1. s # t /\ at'[s] = at[s] /\ wlen'[s] = wlen[s] /\ reg'[s] = reg[s]
        BY <1>4, <3>2, <1>0 DEF SendBegin, TypeOK, Readers
      <4> QED
        BY <4>1, <3>1, <3>3, <1>2 DEF DeliveryOf
    <3>9. len'[i] > 0 => \A r, s \in Readers(i)' : r = s
      BY <3>1, <3>2, <3>3, <1>0 DEF TypeOK
    <3> QED
      BY <3>1, <3>3, <3>7, <3>8, <3>9 DEF DeliveryOf
  <2>3. CASE overlap'[i]
    BY <2>3 DEF DeliveryOf
  <2> QED
    BY <2>1, <2>2, <2>3
<1>5. ASSUME NEW t \in Threads, SendLoad(t) PROVE DeliveryOf(i)'
  <2>1. Readers(i)' = Readers(i)
    BY <1>5, <1>0 DEF SendLoad, Readers, Sending, TypeOK
  <2>2. /\ Unsent(i)' = Unsent(i) /\ wire'[i] = wire[i] /\ copied'[i] = copied[i]
        /\ len'[i] = len[i] /\ overlap'[i] = overlap[i] /\ wlen' = wlen
    BY <1>5, <2>1 DEF SendLoad, Unsent, Content
  <2>3. ASSUME ~overlap[i], NEW s \in Readers(i), at'[s] = "loaded" PROVE reg'[s] = 0
    <3>1. CASE s = t
      BY <1>5, <1>2, <1>0, <2>3, <3>1 DEF SendLoad, DeliveryOf, Readers, TypeOK
    <3>2. CASE s # t
      BY <1>5, <1>2, <1>0, <2>3, <3>2 DEF SendLoad, DeliveryOf, Readers, TypeOK
    <3> QED
      BY <3>1, <3>2
  <2> QED
    BY <1>2, <2>1, <2>2, <2>3 DEF DeliveryOf
<1>6. ASSUME NEW t \in Threads, SendStore(t) PROVE DeliveryOf(i)'
  <2>1. CASE Owner[t] # i
    <3>1. Readers(i)' = Readers(i)
      BY <1>6, <2>1, <1>0 DEF SendStore, Readers, Sending, TypeOK
    <3>2. /\ Unsent(i)' = Unsent(i) /\ wire'[i] = wire[i] /\ copied'[i] = copied[i]
          /\ len'[i] = len[i] /\ overlap'[i] = overlap[i]
      BY <1>6, <2>1, <1>0, <3>1 DEF SendStore, Unsent, Content, TypeOK
    <3>3. \A s \in Readers(i) : at'[s] = at[s] /\ wlen'[s] = wlen[s] /\ reg'[s] = reg[s]
      BY <1>6, <2>1, <1>0 DEF SendStore, Readers, TypeOK
    <3> QED
      BY <1>2, <3>1, <3>2, <3>3 DEF DeliveryOf
  <2>2. CASE Owner[t] = i /\ ~overlap[i]
    <3>1. t \in Readers(i) /\ Readers(i)' = Readers(i) \ {t}
      BY <1>6, <2>2, <1>0 DEF SendStore, Readers, Sending, TypeOK
    <3>2. /\ wire'[i] = wire[i] /\ copied'[i] = copied[i] /\ mem'[i] = mem[i]
          /\ len'[i] = 0
      BY <1>6, <1>2, <2>2, <3>1, <1>0 DEF SendStore, DeliveryOf, TypeOK
    <3>3. Unsent(i)' = <<>>
      BY <3>2, <1>0, EmptyPrefix DEF Unsent, Content, TypeOK
    <3>4. wire'[i] \o Unsent(i)' = Frames(copied'[i])
      BY <1>2, <2>2, <3>1, <3>2, <3>3 DEF DeliveryOf, Unsent
    <3>5. \A s \in Readers(i)' : wlen'[s] = len'[i] /\ (at'[s] = "loaded" => reg'[s] = 0)
      <4> SUFFICES ASSUME NEW s \in Readers(i), s # t
                   PROVE  wlen'[s] = 0 /\ (at'[s] = "loaded" => reg'[s] = 0)
        BY <3>1, <3>2
      <4>1. at'[s] = at[s] /\ wlen'[s] = wlen[s] /\ reg'[s] = reg[s]
        BY <1>6, <1>0 DEF SendStore, TypeOK, Readers
      <4>2. len[i] = 0
        BY <1>2, <2>2, <3>1, <1>0 DEF DeliveryOf, TypeOK
      <4> QED
        BY <4>1, <4>2, <1>2, <2>2 DEF DeliveryOf
    <3> QED
      BY <3>2, <3>4, <3>5 DEF DeliveryOf
  <2>3. CASE overlap[i]
    BY <1>6, <2>3 DEF SendStore, DeliveryOf
  <2> QED
    BY <2>1, <2>2, <2>3
<1>7. ASSUME NEW t \in Threads, Disconnect(t) PROVE DeliveryOf(i)'
  BY <1>7, <1>2 DEF Disconnect, DeliveryOf, Readers, Sending, Unsent, Content
<1>8. ASSUME NEW t \in Threads, Break(t) PROVE DeliveryOf(i)'
  BY <1>8, <1>2 DEF Break, DeliveryOf, Readers, Sending, Unsent, Content
<1>9. CASE UNCHANGED vars
  BY <1>9, <1>2 DEF vars, DeliveryOf, Readers, Sending, Unsent, Content
<1> QED
  BY <1>3, <1>4, <1>5, <1>6, <1>7, <1>8, <1>9 DEF Next, SendStep, Rest

\* As long as no two sends of a buffer overlap, every frame reaches the screen
\* exactly once and in order.
THEOREM Delivered == Spec => []DeliveredOnce
<1>1. DeliveryInv => DeliveredOnce
  BY DEF DeliveryInv, DeliveryOf, DeliveredOnce, Frames
<1> QED
  BY DeliveryInit, DeliveryNext, <1>1, PTL DEF Spec

-----------------------------------------------------------------------------
(* Why the process ends. *)

EndInv == DeliveryInv /\ EndsForAReason

LEMMA EndNext == EndInv /\ [Next]_vars => EndInv'
<1> SUFFICES ASSUME EndInv, [Next]_vars PROVE EndsForAReason'
  BY DeliveryNext DEF EndInv
<1> USE SendInfoAssumption
<1>0. TypeOK /\ EndsForAReason
  BY DEF EndInv, DeliveryInv, TypeInv
<1>1. ASSUME NEW i \in Infos, overlap[i] PROVE overlap'[i]
  <2>1. ASSUME NEW t \in Threads, SendBegin(t) PROVE overlap'[i]
    BY <1>0, <1>1, <2>1, Zenon DEF SendBegin, TypeOK
  <2>2. UNCHANGED overlap => overlap'[i]
    BY <1>1
  <2> QED
    BY <2>1, <2>2 DEF Next, SendStep, Copy, SendLoad, SendStore, Disconnect, Break,
                      Rest, vars
<1>2. ASSUME NEW t \in Threads, Disconnect(t) PROVE EndsForAReason'
  BY <1>2 DEF Disconnect, EndsForAReason
<1>3. ASSUME NEW t \in Threads, Break(t) PROVE EndsForAReason'
  <2>1. Owner[t] \in Infos /\ len[Owner[t]] < 0 /\ len[Owner[t]] \in Int
    BY <1>0, <1>3 DEF Break, TypeOK
  <2>2. DeliveryOf(Owner[t])
    BY <2>1 DEF EndInv, DeliveryInv
  <2>3. overlap[Owner[t]]
    BY <2>1, <2>2 DEF DeliveryOf
  <2> QED
    BY <1>1, <2>1, <2>3 DEF EndsForAReason
<1>4. CASE alive' = alive /\ lost' = lost
  BY <1>0, <1>1, <1>4 DEF EndsForAReason
<1> QED
  BY <1>2, <1>3, <1>4 DEF Next, SendStep, Copy, SendBegin, SendLoad, SendStore, Rest, vars

\* The process ends only when the connection is lost, unless two sends of a
\* buffer have overlapped.
THEOREM EndsWithReason == Spec => []EndsForAReason
<1>1. Init => EndInv
  BY DeliveryInit DEF Init, EndInv, EndsForAReason
<1>2. EndInv => EndsForAReason
  BY DEF EndInv
<1> QED
  BY <1>1, EndNext, <1>2, PTL DEF Spec

-----------------------------------------------------------------------------
(* A buffer with one thread implements Stream. *)

\* Its sends cannot overlap.
OwnInv == DeliveryInv /\ ~overlap[Own]

LEMMA OwnReaders ==
  ASSUME NEW t \in Threads, Owner[t] = Own, ~Sending(t) PROVE Readers(Own) = {}
BY SendInfoAssumption DEF Readers

LEMMA OwnNext == OwnInv /\ [Next]_vars => OwnInv'
<1> SUFFICES ASSUME OwnInv, [Next]_vars PROVE ~overlap'[Own]
  BY DeliveryNext DEF OwnInv
<1>0. TypeOK /\ ~overlap[Own] /\ Own \in Infos
  BY SendInfoAssumption DEF OwnInv, DeliveryInv, TypeInv
<1>1. ASSUME NEW t \in Threads, SendBegin(t) PROVE ~overlap'[Own]
  <2>1. CASE Owner[t] = Own
    <3>1. Readers(Own) = {}
      BY <1>1, <2>1, OwnReaders DEF SendBegin, Sending
    <3>2. overlap'[Own] = (overlap[Own] \/ (Readers(Own) # {} /\ len[Own] > 0))
      BY <1>0, <1>1, <2>1, Zenon DEF SendBegin, TypeOK
    <3> QED
      BY <1>0, <3>1, <3>2, Zenon
  <2>2. CASE Owner[t] # Own
    BY <1>0, <1>1, <2>2, Zenon DEF SendBegin, TypeOK
  <2> QED
    BY <2>1, <2>2
<1>2. CASE UNCHANGED overlap
  BY <1>0, <1>2
<1> QED
  BY <1>1, <1>2 DEF Next, SendStep, Copy, SendLoad, SendStore, Disconnect, Break,
                    Rest, vars

LEMMA OwnStep ==
  OwnInv /\ OwnInv' /\ [Next]_vars
    => [Promised!Next]_<<Unsent(Own), wire[Own]>>
<1> SUFFICES ASSUME OwnInv, OwnInv', [Next]_vars
             PROVE  [Promised!Next]_<<Unsent(Own), wire[Own]>>
  OBVIOUS
<1> USE SendInfoAssumption
<1>0. TypeInv /\ TypeOK /\ DeliveryOf(Own) /\ DeliveryOf(Own)'
  BY DEF OwnInv, DeliveryInv, TypeInv
<1>s. Unsent(Own)' = Unsent(Own) /\ wire'[Own] = wire[Own]
        => [Promised!Next]_<<Unsent(Own), wire[Own]>>
  OBVIOUS
<1>1. ASSUME NEW t \in Threads, Copy(t) PROVE [Promised!Next]_<<Unsent(Own), wire[Own]>>
  <2>1. CASE Owner[t] # Own
    BY <1>0, <1>1, <1>s, <2>1 DEF Copy, Unsent, Content, Readers, Sending, TypeOK
  <2>2. CASE Owner[t] = Own
    <3>1. Readers(Own) = {} /\ Readers(Own)' = {}
      BY <1>0, <1>1, <2>2 DEF Copy, Readers, Sending, TypeOK
    <3>2. Content(Own) \in Seq(Nat) /\ Len(Content(Own)) = len[Own]
      BY <1>0, <1>1, <2>2, ContentType DEF Copy
    <3>3. /\ mem'[Own] = Append(Content(Own), copied[Own] + 1)
          /\ len'[Own] = Len(Content(Own)) + 1
          /\ wire'[Own] = wire[Own]
          /\ copied[Own] + 1 \in 1..MaxFrames
      BY <1>0, <1>1, <2>2, <3>2 DEF Copy, TypeOK
    <3>4. Unsent(Own)' = SubSeq(mem'[Own], 1, len'[Own]) /\ Unsent(Own) = Content(Own)
      BY <3>1 DEF Unsent, Content
    <3>5. Unsent(Own)' = Append(Unsent(Own), copied[Own] + 1)
      BY <3>2, <3>3, <3>4, CopiedContent
    <3> QED
      BY <3>3, <3>5 DEF Promised!Next, Promised!Write
  <2> QED
    BY <2>1, <2>2
<1>2. ASSUME NEW t \in Threads, SendBegin(t)
      PROVE  [Promised!Next]_<<Unsent(Own), wire[Own]>>
  <2>1. CASE Owner[t] # Own
    BY <1>0, <1>2, <1>s, <2>1 DEF SendBegin, Unsent, Content, Readers, Sending, TypeOK
  <2>2. CASE Owner[t] = Own
    <3>1. Readers(Own) = {}
      BY <1>2, <2>2, OwnReaders DEF SendBegin, Sending
    <3>2. t \in Readers(Own)'
      BY <1>0, <1>2, <2>2 DEF SendBegin, Readers, Sending, TypeOK
    <3>3. Unsent(Own) = Content(Own) /\ Unsent(Own)' = <<>>
      BY <3>1, <3>2 DEF Unsent
    <3>4. wire'[Own] = wire[Own] \o Content(Own)
      BY <1>0, <1>2, <2>2 DEF SendBegin, TypeOK
    <3> QED
      BY <3>3, <3>4 DEF Promised!Next, Promised!Flush
  <2> QED
    BY <2>1, <2>2
<1>3. ASSUME NEW t \in Threads, SendLoad(t)
      PROVE  [Promised!Next]_<<Unsent(Own), wire[Own]>>
  <2>1. Readers(Own)' = Readers(Own)
    BY <1>0, <1>3 DEF SendLoad, Readers, Sending, TypeOK
  <2> QED
    BY <1>3, <1>s, <2>1 DEF SendLoad, Unsent, Content
<1>4. ASSUME NEW t \in Threads, SendStore(t)
      PROVE  [Promised!Next]_<<Unsent(Own), wire[Own]>>
  <2>1. CASE Owner[t] # Own
    BY <1>0, <1>4, <1>s, <2>1 DEF SendStore, Unsent, Content, Readers, Sending, TypeOK
  <2>2. CASE Owner[t] = Own
    <3>1. t \in Readers(Own) /\ Readers(Own)' = {}
      BY <1>0, <1>4, <2>2 DEF SendStore, Readers, Sending, TypeOK
    <3>2. Unsent(Own) = <<>>
      BY <3>1 DEF Unsent
    <3>3. len'[Own] = 0 /\ mem'[Own] \in Seq(Nat) /\ wire'[Own] = wire[Own]
      BY <1>0, <1>4, <2>2, <3>1 DEF SendStore, DeliveryOf, OwnInv, TypeOK
    <3>4. Unsent(Own)' = <<>>
      BY <3>1, <3>3, EmptyPrefix DEF Unsent, Content
    <3> QED
      BY <1>s, <3>2, <3>3, <3>4
  <2> QED
    BY <2>1, <2>2
<1>5. CASE UNCHANGED <<mem, len, at, wire>>
  BY <1>5, <1>s DEF Unsent, Content, Readers, Sending
<1> QED
  BY <1>1, <1>2, <1>3, <1>4, <1>5 DEF Next, SendStep, Disconnect, Break, Rest, vars

\* A send_info that one thread was given is a Stream: what its thread queues goes
\* out once and in order, whatever the threads of other buffers do.
THEOREM ImplementsStream == Spec => OwnBufferStream
<1>1. Init => OwnInv /\ Promised!Init
  <2>1. Init => Unsent(Own) = <<>> /\ wire[Own] = <<>> /\ ~overlap[Own]
    BY SendInfoAssumption, EmptyPrefix DEF Init, Unsent, Content, Readers, Sending
  <2> QED
    BY <2>1, DeliveryInit DEF OwnInv, Promised!Init
<1> QED
  BY <1>1, OwnNext, OwnStep, PTL DEF Spec, OwnBufferStream, Promised!Spec

-----------------------------------------------------------------------------
(* No frame is forgotten. *)

\* Frames in a buffer have a thread that will send them.
Attended ==
  \A i \in Infos : len[i] > 0 => \E t \in Threads : Owner[t] = i /\ at[t] # "idle"

\* Why the last sender leaves nothing: while anybody sends, nothing is added, so that
\* who has sent took at least all there is and is about to store no more than zero.
TakesAll ==
  \A t \in Threads :
    /\ at[t] = "sent" => len[Owner[t]] <= wlen[t]
    /\ at[t] = "loaded" => reg[t] <= 0

\* Both are kept by every step, whether or not sends overlap.
LEMMA AttendedNext ==
  ASSUME TypeOK, Attended, TakesAll, [Next]_vars
  PROVE  Attended' /\ TakesAll'
<1> USE SendInfoAssumption DEF TypeOK
<1>1. ASSUME NEW t \in Threads, Copy(t) PROVE Attended' /\ TakesAll'
  <2> DEFINE i == Owner[t]
  <2>1. /\ i \in Infos /\ at' = [at EXCEPT ![t] = "filled"] /\ Readers(i) = {}
        /\ len' = [len EXCEPT ![i] = len[i] + 1] /\ wlen' = wlen /\ reg' = reg
    BY <1>1 DEF Copy
  <2>2. \A j \in Infos : j # i => len'[j] = len[j]
    BY <2>1
  <2>3. \A u \in Threads : u # t => at'[u] = at[u]
    BY <2>1
  <2>4. at'[t] = "filled"
    BY <2>1
  <2>5. \A u \in Threads : Owner[u] = i => at[u] \notin {"sent", "loaded"}
    BY <2>1 DEF Readers, Sending
  <2>6. Attended'
    <3>1. SUFFICES ASSUME NEW j \in Infos, len'[j] > 0
                   PROVE  \E u \in Threads : Owner[u] = j /\ at'[u] # "idle"
      BY DEF Attended
    <3>2. CASE j = i
      BY <2>4, <3>2
    <3>3. CASE j # i
      <4>1. PICK u \in Threads : Owner[u] = j /\ at[u] # "idle"
        BY <2>2, <3>1, <3>3 DEF Attended
      <4> QED
        BY <2>3, <3>3, <4>1
    <3> QED
      BY <3>2, <3>3
  <2>7. TakesAll'
    BY <2>1, <2>2, <2>3, <2>4, <2>5 DEF TakesAll
  <2> QED
    BY <2>6, <2>7
<1>2. ASSUME NEW t \in Threads, SendBegin(t) PROVE Attended' /\ TakesAll'
  <2>1. /\ at' = [at EXCEPT ![t] = "sent"] /\ wlen' = [wlen EXCEPT ![t] = len[Owner[t]]]
        /\ len' = len /\ reg' = reg /\ len[Owner[t]] \in Int
    BY <1>2 DEF SendBegin
  <2>2. \A u \in Threads : u # t => at'[u] = at[u] /\ wlen'[u] = wlen[u]
    BY <2>1
  <2>3. at'[t] = "sent" /\ wlen'[t] = len[Owner[t]]
    BY <2>1
  <2>4. Attended'
    BY <2>1, <2>2, <2>3 DEF Attended
  <2>5. TakesAll'
    BY <2>1, <2>2, <2>3 DEF TakesAll
  <2> QED
    BY <2>4, <2>5
<1>3. ASSUME NEW t \in Threads, SendLoad(t) PROVE Attended' /\ TakesAll'
  <2>1. /\ at' = [at EXCEPT ![t] = "loaded"] /\ at[t] = "sent"
        /\ reg' = [reg EXCEPT ![t] = len[Owner[t]] - wlen[t]]
        /\ len' = len /\ wlen' = wlen /\ len[Owner[t]] \in Int /\ wlen[t] \in Nat
    BY <1>3 DEF SendLoad
  <2>2. \A u \in Threads : u # t => at'[u] = at[u] /\ reg'[u] = reg[u]
    BY <2>1
  <2>3. at'[t] = "loaded" /\ reg'[t] = len[Owner[t]] - wlen[t]
    BY <2>1
  <2>4. reg'[t] <= 0
    BY <2>1, <2>3 DEF TakesAll
  <2>5. Attended'
    BY <2>1, <2>2, <2>3 DEF Attended
  <2>6. TakesAll'
    BY <2>1, <2>2, <2>3, <2>4 DEF TakesAll
  <2> QED
    BY <2>5, <2>6
<1>4. ASSUME NEW t \in Threads, SendStore(t) PROVE Attended' /\ TakesAll'
  <2> DEFINE i == Owner[t]
  <2>1. /\ i \in Infos /\ at' = [at EXCEPT ![t] = "idle"] /\ at[t] = "loaded"
        /\ len' = [len EXCEPT ![i] = reg[t]] /\ wlen' = wlen /\ reg' = reg
        /\ reg[t] \in Int
    BY <1>4 DEF SendStore
  <2>2. \A j \in Infos : j # i => len'[j] = len[j]
    BY <2>1
  <2>3. \A u \in Threads : u # t => at'[u] = at[u]
    BY <2>1
  <2>4. at'[t] = "idle" /\ len'[i] = reg[t] /\ reg[t] <= 0
    BY <2>1 DEF TakesAll
  <2>5. Attended'
    BY <2>1, <2>2, <2>3, <2>4 DEF Attended
  <2>6. \A u \in Threads : wlen[u] \in Nat /\ Owner[u] \in Infos
    OBVIOUS
  <2>7. TakesAll'
    BY <2>1, <2>2, <2>3, <2>4, <2>6 DEF TakesAll
  <2> QED
    BY <2>5, <2>7
<1>5. CASE UNCHANGED <<len, at, wlen, reg>>
  BY <1>5 DEF Attended, TakesAll
<1> QED
  BY <1>1, <1>2, <1>3, <1>4, <1>5 DEF Next, SendStep, Disconnect, Break, Rest, vars

\* A buffer with frames in it always has a thread that has copied and not yet sent, or
\* is sending, even where sends overlap (copy_to_buf, send_data).  It is the
\* safety half of Flushed.
THEOREM NoFrameForgotten == Spec => []Attended
<1>1. Init => Attended /\ TakesAll
  BY SendInfoAssumption DEF Init, Attended, TakesAll
<1>2. TypeOK /\ Attended /\ TakesAll /\ [Next]_vars => Attended' /\ TakesAll'
  BY AttendedNext
<1> QED
  BY <1>1, <1>2, TypeCorrect, PTL DEF Spec
=============================================================================
