----------------------------- MODULE FifoProofs -----------------------------
(***************************************************************************)
(* Theorems about Fifo, for any number of clients and any kills: PipeInv   *)
(* is inductive, and the safety properties follow from it.                 *)
(***************************************************************************)
EXTENDS Fifo, SequenceTheorems, TLAPS

-----------------------------------------------------------------------------
(* The inductive invariant. *)

\* Who runs at the same time has met, only -g clients open the reply pipe, and
\* nobody waits for a server that holds the command pipe open.
Partners ==
  \A c \in Clients :
    /\ client[c] = "start" => met[c] = {}
    /\ c \in UnderWay => UnderWay \ {c} \subseteq met[c]
    /\ client[c] \in Waiting => c \in Getters
    /\ client[c] = "opening" => ~ServerReads

\* A pipe with no end open holds nothing.
Drained == Writers = {} /\ ~ServerReads => pipe = <<>>

\* Where the command of a client that ran alone, and did not miss the server's
\* open, is to be found.
OnItsWay(c) ==
  \/ server = "read" /\ pipe # <<>> /\ Head(pipe) = c
  \/ server \in {"close", "switch"} /\ buf = c
  \/ c \in executed

Delivery ==
  \A c \in Setters \ missed :
    met[c] = {} =>
      /\ client[c] = "opening" => pipe = <<>>
      /\ client[c] = "write" => server = "read" /\ pipe = <<>>
      /\ client[c] \in {"close", "done"} => OnItsWay(c)

\* Written, but not yet answered.
Asking(c) == client[c] \in {"close", "reply_enter", "reply_opening"}

\* As long as all -g are orderly, the server only answers one that waits for it.
Answering ==
  Orderly =>
    /\ server # "killed"
    /\ \A i \in DOMAIN pipe : pipe[i] \in Getters => Asking(pipe[i])
    /\ \A i, j \in DOMAIN pipe : pipe[i] \in Getters /\ pipe[j] \in Getters => i = j
    /\ buf \in Getters => server \in {"close", "switch"} /\ Asking(buf)
    /\ buf \in Getters \/ ServerReplies => \A i \in DOMAIN pipe : pipe[i] \notin Getters
    /\ server = "reply_open" => \E g \in Getters : client[g] \in {"close", "reply_enter"}
    /\ server = "reply_write" => \E g \in Getters : client[g] = "reply_read"
    /\ server = "reply_write" => ~reply
    /\ reply => \E g \in Getters : client[g] = "reply_read"

PipeInv == TypeOK /\ Partners /\ Drained /\ Delivery /\ Answering

-----------------------------------------------------------------------------
(* The steps. *)

\* Every step keeps the types.
LEMMA TypeStep ==
  ASSUME TypeOK, [Next]_vars
  PROVE  TypeOK'
<1> USE FifoAssumption DEF TypeOK, Clients, Waiting, UnderWay
<1>1. ASSUME NEW c \in Clients, Enter(c) PROVE TypeOK'
  BY <1>1 DEF Enter, Noted
<1>2. ASSUME NEW c \in Clients, Write(c) PROVE TypeOK'
  <2>1. pipe' \in {Append(pipe, c), pipe, <<>>}
    BY <1>2 DEF Write
  <2>3. <<>> \in Seq(Clients) /\ Append(pipe, c) \in Seq(Clients)
    OBVIOUS
  <2>2. client' \in [Clients -> {"start", "opening", "write", "close", "done", "empty",
                                 "killed"} \cup Waiting]
    BY <1>2 DEF Write
  <2> QED
    BY <1>2, <2>1, <2>2, <2>3 DEF Write
<1>3. ASSUME NEW c \in Clients, Close(c) PROVE TypeOK'
  BY <1>3 DEF Close
<1>4. ASSUME NEW c \in Clients, ReplyEnter(c) PROVE TypeOK'
  BY <1>4 DEF ReplyEnter
<1>5. ASSUME NEW c \in Clients, ReplyRead(c) PROVE TypeOK'
  BY <1>5 DEF ReplyRead
<1>6. ASSUME NEW c \in Clients, Die(c) PROVE TypeOK'
  <2>1. pipe' \in {pipe, <<>>} /\ reply' \in BOOLEAN
    BY <1>6 DEF Die
  <2>2. <<>> \in Seq(Clients)
    OBVIOUS
  <2>3. client' \in [Clients -> {"start", "opening", "write", "close", "done", "empty",
                                 "killed"} \cup Waiting]
    BY <1>6 DEF Die
  <2> QED
    BY <1>6, <2>1, <2>2, <2>3 DEF Die
<1>7. CASE ServerEnter
  BY <1>7 DEF ServerEnter
<1>8. CASE ServerRead
  BY <1>8 DEF ServerRead
<1>9. CASE ServerReadNothing
  BY <1>9 DEF ServerReadNothing
<1>10. CASE ServerClose
  BY <1>10 DEF ServerClose
<1>11. CASE ServerSet
  BY <1>11 DEF ServerSet
<1>12. CASE ServerGet
  BY <1>12 DEF ServerGet
<1>13. CASE ServerReply
  BY <1>13 DEF ServerReply
<1>14. CASE ServerReplyClose
  BY <1>14 DEF ServerReplyClose
<1>15. CASE UNCHANGED vars
  BY <1>15 DEF vars
<1> QED
  BY <1>1, <1>2, <1>3, <1>4, <1>5, <1>6, <1>7, <1>8, <1>9, <1>10, <1>11, <1>12, <1>13,
     <1>14, <1>15 DEF Next, ClientStep, ServerStep

\* Clients meet when one of them begins, and nobody begins twice.
LEMMA PartnersStep ==
  ASSUME TypeOK, Partners, [Next]_vars
  PROVE  Partners'
<1> USE FifoAssumption DEF TypeOK, Partners, Clients, Waiting, UnderWay, Ended,
       ServerReads, ServerReplies
<1>1. ASSUME NEW c \in Clients, Enter(c) PROVE Partners'
  BY <1>1 DEF Enter, Noted
<1>2. ASSUME NEW c \in Clients, Write(c) PROVE Partners'
  BY <1>2 DEF Write
<1>3. ASSUME NEW c \in Clients, Close(c) PROVE Partners'
  BY <1>3 DEF Close
<1>4. ASSUME NEW c \in Clients, ReplyEnter(c) PROVE Partners'
  BY <1>4 DEF ReplyEnter
<1>5. ASSUME NEW c \in Clients, ReplyRead(c) PROVE Partners'
  BY <1>5 DEF ReplyRead
<1>6. ASSUME NEW c \in Clients, Die(c) PROVE Partners'
  BY <1>6 DEF Die
<1>7. CASE ServerEnter
  BY <1>7 DEF ServerEnter
<1>8. CASE ServerRead
  BY <1>8 DEF ServerRead
<1>9. CASE ServerReadNothing
  BY <1>9 DEF ServerReadNothing
<1>10. CASE ServerClose
  BY <1>10 DEF ServerClose
<1>11. CASE ServerSet
  BY <1>11 DEF ServerSet
<1>12. CASE ServerGet
  BY <1>12 DEF ServerGet
<1>13. CASE ServerReply
  BY <1>13 DEF ServerReply
<1>14. CASE ServerReplyClose
  BY <1>14 DEF ServerReplyClose
<1>15. CASE UNCHANGED vars
  BY <1>15 DEF vars
<1> QED
  BY <1>1, <1>2, <1>3, <1>4, <1>5, <1>6, <1>7, <1>8, <1>9, <1>10, <1>11, <1>12, <1>13,
     <1>14, <1>15 DEF Next, ClientStep, ServerStep

\* The last end that is closed takes what nobody has read with it.
LEMMA DrainedStep ==
  ASSUME TypeOK, Drained, Partners, [Next]_vars
  PROVE  Drained'
<1> USE FifoAssumption DEF TypeOK, Drained, Partners, Writers, Clients, Waiting, ServerReads
<1>1. ASSUME NEW c \in Clients, Enter(c) PROVE Drained'
  BY <1>1 DEF Enter, Noted
<1>2. ASSUME NEW c \in Clients, Write(c) PROVE Drained'
  BY <1>2 DEF Write
<1>3. ASSUME NEW c \in Clients, Close(c) PROVE Drained'
  BY <1>3 DEF Close
<1>4. ASSUME NEW c \in Clients, ReplyEnter(c) PROVE Drained'
  BY <1>4 DEF ReplyEnter
<1>5. ASSUME NEW c \in Clients, ReplyRead(c) PROVE Drained'
  BY <1>5 DEF ReplyRead
<1>6. ASSUME NEW c \in Clients, Die(c) PROVE Drained'
  BY <1>6 DEF Die
<1>7. CASE ServerEnter
  BY <1>7 DEF ServerEnter
<1>8. CASE ServerRead
  BY <1>8 DEF ServerRead
<1>9. CASE ServerReadNothing
  BY <1>9 DEF ServerReadNothing
<1>10. CASE ServerClose
  BY <1>10 DEF ServerClose
<1>11. CASE ServerSet
  BY <1>11 DEF ServerSet
<1>12. CASE ServerGet
  BY <1>12 DEF ServerGet
<1>13. CASE ServerReply
  BY <1>13 DEF ServerReply
<1>14. CASE ServerReplyClose
  BY <1>14 DEF ServerReplyClose
<1>15. CASE UNCHANGED vars
  BY <1>15 DEF vars
<1> QED
  BY <1>1, <1>2, <1>3, <1>4, <1>5, <1>6, <1>7, <1>8, <1>9, <1>10, <1>11, <1>12, <1>13,
     <1>14, <1>15 DEF Next, ClientStep, ServerStep

\* A lone command: its client finds the pipe empty, the server reads it first, and
\* executes it before it reads again.
LEMMA DeliveryStep ==
  ASSUME PipeInv, [Next]_vars
  PROVE  Delivery'
<1> USE FifoAssumption DEF PipeInv, TypeOK, Partners, Drained, Delivery, OnItsWay,
       Clients, Waiting, UnderWay, Ended, Writers, ServerReads
<1>1. ASSUME NEW c \in Clients, Enter(c) PROVE Delivery'
  BY <1>1 DEF Enter, Noted
<1>2. ASSUME NEW c \in Clients, Write(c) PROVE Delivery'
  BY <1>2 DEF Write
<1>3. ASSUME NEW c \in Clients, Close(c) PROVE Delivery'
  BY <1>3 DEF Close
<1>4. ASSUME NEW c \in Clients, ReplyEnter(c) PROVE Delivery'
  BY <1>4 DEF ReplyEnter
<1>5. ASSUME NEW c \in Clients, ReplyRead(c) PROVE Delivery'
  BY <1>5 DEF ReplyRead
<1>6. ASSUME NEW c \in Clients, Die(c) PROVE Delivery'
  BY <1>6 DEF Die
<1>7. CASE ServerEnter
  BY <1>7 DEF ServerEnter
<1>8. CASE ServerRead
  BY <1>8 DEF ServerRead
<1>9. CASE ServerReadNothing
  BY <1>9 DEF ServerReadNothing
<1>10. CASE ServerClose
  BY <1>10 DEF ServerClose
<1>11. CASE ServerSet
  BY <1>11 DEF ServerSet
<1>12. CASE ServerGet
  BY <1>12 DEF ServerGet
<1>13. CASE ServerReply
  BY <1>13 DEF ServerReply
<1>14. CASE ServerReplyClose
  BY <1>14 DEF ServerReplyClose
<1>15. CASE UNCHANGED vars
  BY <1>15 DEF vars
<1> QED
  BY <1>1, <1>2, <1>3, <1>4, <1>5, <1>6, <1>7, <1>8, <1>9, <1>10, <1>11, <1>12, <1>13,
     <1>14, <1>15 DEF Next, ClientStep, ServerStep

\* An orderly -g is the only one under way, so every step of the answer concerns it.
LEMMA AnsweringStep ==
  ASSUME PipeInv, [Next]_vars
  PROVE  Answering'
<1> USE FifoAssumption DEF PipeInv, TypeOK, Partners, Answering, Orderly, Asking,
       Clients, Waiting, UnderWay, Ended, Writers, Readers, ServerReads, ServerReplies
<1>1. ASSUME NEW c \in Clients, Enter(c) PROVE Answering'
  BY <1>1 DEF Enter, Noted
<1>2. ASSUME NEW c \in Clients, Write(c) PROVE Answering'
  <2> SUFFICES ASSUME Orderly' PROVE Answering'
    OBVIOUS
  <2>1. Orderly
    BY <1>2 DEF Write
  <2>2. CASE ~ServerReads
    <3>1. pipe' \in {pipe, <<>>} /\ client' = [client EXCEPT ![c] = "killed"]
      BY <1>2, <2>2 DEF Write
    <3>2. c \notin Getters
      BY <3>1
    <3>3. \A g \in Getters : client'[g] = client[g]
      BY <3>1, <3>2
    <3>4. CASE pipe' = pipe
      BY <1>2, <2>1, <3>2, <3>3, <3>4 DEF Write
    <3>5. CASE pipe' = <<>>
      BY <1>2, <2>1, <3>2, <3>3, <3>5 DEF Write
    <3> QED
      BY <3>1, <3>4, <3>5
  <2>3. CASE ServerReads
    <3>1. pipe' = Append(pipe, c) /\ client' = [client EXCEPT ![c] = "close"]
      BY <1>2, <2>3 DEF Write
    <3>2. ASSUME NEW g \in Getters, c \in Getters
          PROVE  client[g] # "reply_read" /\ ~Asking(g)
      BY <1>2, <2>1, <3>2 DEF Write
    <3>3. \A i \in DOMAIN pipe : c \in Getters => pipe[i] \notin Getters
      BY <2>1, <3>2
    <3>4. /\ DOMAIN pipe' = 1..(Len(pipe) + 1) /\ DOMAIN pipe = 1..Len(pipe)
          /\ Len(pipe) \in Nat /\ pipe'[Len(pipe) + 1] = c
          /\ \A i \in DOMAIN pipe : pipe'[i] = pipe[i]
      BY <3>1
    <3>5. buf \in Getters => c \notin Getters
      BY <2>1, <3>2
    <3>6. \A g \in Getters : Asking(g) => Asking(g)'
      BY <3>1
    <3>7. \A g \in Getters : client[g] = "reply_read" => client'[g] = "reply_read"
      BY <1>2, <3>1 DEF Write
    <3> QED
      BY <1>2, <2>1, <2>3, <3>1, <3>3, <3>4, <3>5, <3>6, <3>7 DEF Write
  <2> QED
    BY <2>2, <2>3
<1>3. ASSUME NEW c \in Clients, Close(c) PROVE Answering'
  BY <1>3 DEF Close
<1>4. ASSUME NEW c \in Clients, ReplyEnter(c) PROVE Answering'
  BY <1>4 DEF ReplyEnter
<1>5. ASSUME NEW c \in Clients, ReplyRead(c) PROVE Answering'
  <2> SUFFICES ASSUME Orderly' PROVE Answering'
    OBVIOUS
  <2>1. Orderly
    BY <1>5 DEF ReplyRead
  <2>2. server # "reply_write" \/ reply
    BY <1>5 DEF ReplyRead
  <2> QED
    BY <1>5, <2>1, <2>2 DEF ReplyRead
<1>6. ASSUME NEW c \in Clients, Die(c) PROVE Answering'
  BY <1>6 DEF Die
<1>7. CASE ServerEnter
  BY <1>7 DEF ServerEnter
<1>8. CASE ServerRead
  BY <1>8 DEF ServerRead
<1>9. CASE ServerReadNothing
  BY <1>9 DEF ServerReadNothing
<1>10. CASE ServerClose
  BY <1>10 DEF ServerClose
<1>11. CASE ServerSet
  BY <1>11 DEF ServerSet
<1>12. CASE ServerGet
  BY <1>12 DEF ServerGet
<1>13. CASE ServerReply
  BY <1>13 DEF ServerReply
<1>14. CASE ServerReplyClose
  BY <1>14 DEF ServerReplyClose
<1>15. CASE UNCHANGED vars
  BY <1>15 DEF vars
<1> QED
  BY <1>1, <1>2, <1>3, <1>4, <1>5, <1>6, <1>7, <1>8, <1>9, <1>10, <1>11, <1>12, <1>13,
     <1>14, <1>15 DEF Next, ClientStep, ServerStep

\* Nobody has begun.
LEMMA InitInv == Init => PipeInv
<1> SUFFICES ASSUME Init PROVE PipeInv
  OBVIOUS
<1>1. pipe = <<>> /\ pipe \in Seq(Clients) /\ DOMAIN pipe = {}
  BY DEF Init
<1>2. TypeOK
  BY <1>1 DEF Init, TypeOK, Waiting
<1>3. Partners
  BY FifoAssumption DEF Init, Partners, UnderWay, Waiting
<1>4. Drained /\ Delivery
  BY DEF Init, Drained, Delivery, Clients
<1>5. Answering
  BY <1>1, FifoAssumption DEF Init, Answering, Clients, ServerReplies
<1> QED
  BY <1>2, <1>3, <1>4, <1>5 DEF PipeInv

\* The invariant holds, for any number of clients.
THEOREM Inductive == Spec => []PipeInv
<1>1. PipeInv /\ [Next]_vars => PipeInv'
  BY TypeStep, PartnersStep, DrainedStep, DeliveryStep, AnsweringStep DEF PipeInv
<1> QED
  BY <1>1, InitInv, PTL DEF Spec

\* A command whose client ran alone and ended normally is lost in one way only: its
\* client opened the pipe while the server had still to read or to close it
\* (write_pipe, start_user_interface).
THEOREM OnlyMissedIsLost == Spec => []LostWasMissed
<1>1. PipeInv => LostWasMissed
  <2> SUFFICES ASSUME PipeInv, server = "open", NEW c \in Setters \ missed,
                      client[c] = "done", met[c] = {}
               PROVE  c \in executed
    BY DEF LostWasMissed
  <2>1. OnItsWay(c)
    BY DEF PipeInv, Delivery
  <2> QED
    BY <2>1 DEF OnItsWay
<1> QED
  BY <1>1, Inductive, PTL

\* The answer to -g kills the server only if a client of -g was killed or two of
\* them overlapped (read_pipe, start_user_interface).
THEOREM ServerDiesForAReason == Spec => []ServerSurvives
<1>1. PipeInv => ServerSurvives
  BY DEF PipeInv, Answering, Orderly, ServerSurvives
<1> QED
  BY <1>1, Inductive, PTL

\* As long as all -g are orderly, nobody waits for somebody who waits as well: when
\* nothing moves, the server is in the open of its loop and nobody has a command to
\* hand over (write_pipe, read_pipe, start_user_interface).  It is the safety half of
\* NobodyHangs.
THEOREM NoCircle == Spec => []RestsAtOpen
<1>1. PipeInv => RestsAtOpen
  <2> SUFFICES ASSUME PipeInv, Orderly, ~ServerGoesOn,
                      \A c \in Clients : ~ClientGoesOn(c)
               PROVE  server = "open" /\ Writers = {}
    BY DEF RestsAtOpen
  <2>1. server # "killed"
    BY DEF PipeInv, Answering
  <2>2. server # "reply_open"
    <3>1. \A g \in Getters : client[g] \notin {"close", "reply_enter"}
      BY DEF ClientGoesOn, Clients
    <3> QED
      BY <3>1 DEF PipeInv, Answering
  <2>3. \A c \in Writers : client[c] = "opening" /\ ~ServerReads
    BY DEF Writers, ClientGoesOn, PipeInv, Partners
  <2>4. server \in {"open", "read"}
    BY <2>1, <2>2 DEF PipeInv, TypeOK, ServerGoesOn
  <2>5. Writers = {}
    BY <2>3, <2>4 DEF ServerReads
  <2> QED
    BY <2>4, <2>5 DEF ServerGoesOn
<1> QED
  BY <1>1, Inductive, PTL
=============================================================================
