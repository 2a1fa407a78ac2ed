------------------------- MODULE ChatSessionProofs -------------------------
(***************************************************************************)
(* Proofs about ChatSession, for every size of the queue and every number  *)
(* of requests and pings.                                                  *)
(***************************************************************************)
EXTENDS ChatSession, Integers, TLAPS

\* What the actions have to say about frames.
LEMMA FrameTypes ==
  /\ Nothing \in Frames
  /\ \A from \in Senders, n \in Nat, isText \in BOOLEAN : Frame(from, n, isText) \in Frames
  /\ \A f \in Frames, b \in BOOLEAN : [f EXCEPT !.text = b] \in Frames
  /\ \A f \in Frames, n \in Nat : [f EXCEPT !.echo = n] \in Frames
BY DEF Nothing, Frame, Frames, Senders

\* Heads and tails of sequences that are not empty, and appended sequences.
LEMMA SeqFacts ==
  ASSUME NEW S, NEW s \in Seq(S)
  PROVE  /\ Len(s) \in Nat
         /\ s = << >> <=> Len(s) = 0
         /\ s # << >> => /\ Head(s) \in S /\ Tail(s) \in Seq(S)
                         /\ Len(Tail(s)) = Len(s) - 1
         /\ \A e \in S : Append(s, e) \in Seq(S) /\ Len(Append(s, e)) = Len(s) + 1
<1>1. Len(s) \in Nat /\ (s = << >> <=> Len(s) = 0)
  OBVIOUS
<1>2. s # << >> => Head(s) \in S /\ Tail(s) \in Seq(S) /\ Len(Tail(s)) = Len(s) - 1
  OBVIOUS
<1>3. \A e \in S : Append(s, e) \in Seq(S) /\ Len(Append(s, e)) = Len(s) + 1
  OBVIOUS
<1>4. QED BY <1>1, <1>2, <1>3

\* The session starts well typed.
LEMMA InitType == Init => TypeOK
<1> SUFFICES ASSUME Init PROVE TypeOK
  OBVIOUS
<1>1. /\ queue_ \in Seq(Frames) /\ Len(queue_) <= QueueSize
      /\ toServer \in Seq(Frames) /\ toClient \in Seq(Frames)
  BY QueueSizeAssumption DEF Init
<1>2. frame \in [Senders -> Frames] /\ reply \in Frames
  BY FrameTypes DEF Init
<1>3. pc \in [Senders -> Pcs]
  BY DEF Init, Pcs
<1>4. QED BY <1>1, <1>2, <1>3 DEF Init, TypeOK

\* No step leaves the types.
LEMMA NextType == TypeOK /\ [Next]_vars => TypeOK'
<1> SUFFICES ASSUME TypeOK, [Next]_vars PROVE TypeOK'
  OBVIOUS
<1> USE DEF Goto, At, Senders, streamVars, clientVars, serverVars, sessionVars
<1>1. ASSUME NEW t \in Senders, NEW from, NEW to \in Pcs, Move(t, from, to) PROVE TypeOK'
  BY <1>1 DEF TypeOK, Move
<1>2. ASSUME NEW from, NEW to \in Pcs, Take(from, to) PROVE TypeOK'
  <2>1. reply' \in Frames /\ queue_' \in Seq(Frames) /\ Len(queue_') <= QueueSize
    BY <1>2, SeqFacts, QueueSizeAssumption DEF TypeOK, Take
  <2>2. QED BY <1>2, <2>1 DEF TypeOK, Take
<1>3. ASSUME NEW from, NEW isText \in BOOLEAN, Request(from, isText) PROVE TypeOK'
  <2>1. Frame("main", asked + 1, isText) \in Frames
    <3>1. asked + 1 \in Nat
      BY DEF TypeOK
    <3>2. QED BY <3>1, FrameTypes, Zenon
  <2>2. QED BY <1>3, <2>1 DEF TypeOK, Request, Pcs
<1>4. ASSUME NEW t \in Senders, SetOpcode(t) PROVE TypeOK'
  <2>1. text' \in BOOLEAN
    BY <1>4 DEF TypeOK, SetOpcode, Frames
  <2>2. QED BY <1>4, <2>1 DEF TypeOK, SetOpcode, Pcs
<1>5. ASSUME NEW t \in Senders, BeginWrite(t) PROVE TypeOK'
  <2>1. frame' \in [Senders -> Frames]
    BY <1>5, FrameTypes DEF TypeOK, BeginWrite
  <2>2. QED BY <1>5, <2>1 DEF TypeOK, BeginWrite, Pcs
<1>6. ASSUME NEW t \in Senders, Written(t) PROVE toServer' \in Seq(Frames)
  BY <1>6, SeqFacts DEF TypeOK, Written
<1>7. CASE SessionSent
  BY <1>6, <1>7 DEF TypeOK, SessionSent, Written, Pcs
<1>8. CASE HeartbeatSent
  BY <1>6, <1>8 DEF TypeOK, HeartbeatSent, Written, Pcs
<1>9. CASE WriteUndefined
  BY <1>9 DEF TypeOK, WriteUndefined
<1>10. CASE CloseFlag
  BY <1>10 DEF TypeOK, CloseFlag, Pcs
<1>11. CASE CloseStream
  BY <1>11 DEF TypeOK, CloseStream, Pcs
<1>12. CASE Receive
  <2>1. /\ Head(toClient) \in Frames /\ toClient' \in Seq(Frames)
        /\ Append(queue_, Head(toClient)) \in Seq(Frames)
        /\ Len(Append(queue_, Head(toClient))) = Len(queue_) + 1
    BY <1>12, SeqFacts DEF TypeOK, Receive
  <2>2. queue_' \in Seq(Frames) /\ Len(queue_') <= QueueSize /\ dropped' \in Nat
    <3>1. Len(queue_) \in Nat
      BY SeqFacts DEF TypeOK
    <3>2. CASE Len(queue_) < QueueSize
      <4>1. queue_' = Append(queue_, Head(toClient)) /\ dropped' = dropped
        BY <1>12, <3>2 DEF Receive, Push
      <4>2. Len(queue_) + 1 <= QueueSize
        BY <3>1, <3>2, QueueSizeAssumption
      <4>3. QED BY <2>1, <4>1, <4>2 DEF TypeOK
    <3>3. CASE ~(Len(queue_) < QueueSize)
      BY <1>12, <3>1, <3>3 DEF TypeOK, Receive, Push
    <3>4. QED BY <3>2, <3>3
  <2>3. QED BY <1>12, <2>1, <2>2 DEF TypeOK, Receive
<1>13. ASSUME NEW c \in {"up", "broken", "closed"}, ReceiverEnds(c) PROVE TypeOK'
  BY <1>13 DEF TypeOK, ReceiverEnds
<1>14. CASE HeartbeatSleep
  <2>1. Frame("hb", pings + 1, TRUE) \in Frames
    <3>1. pings + 1 \in Nat
      BY DEF TypeOK
    <3>2. QED BY <3>1, FrameTypes, Zenon
  <2>2. frame' \in [Senders -> Frames] /\ pc' \in [Senders -> Pcs]
    BY <1>14, <2>1 DEF TypeOK, HeartbeatSleep, Pcs
  <2>3. QED BY <1>14, <2>2 DEF TypeOK, HeartbeatSleep
<1>15. CASE Echo
  <2>1. [Head(toServer) EXCEPT !.echo = echoes + 1] \in Frames
    <3>1. echoes + 1 \in Nat /\ Head(toServer) \in Frames
      BY <1>15, SeqFacts DEF TypeOK, Echo
    <3>2. QED BY <3>1, FrameTypes, Zenon
  <2>2. toServer' \in Seq(Frames) /\ toClient' \in Seq(Frames)
    BY <1>15, <2>1, SeqFacts DEF TypeOK, Echo
  <2>3. QED BY <1>15, <2>2 DEF TypeOK, Echo
<1>16. CASE Greet
  <2>1. [Nothing EXCEPT !.echo = echoes + 1] \in Frames
    <3>1. echoes + 1 \in Nat
      BY DEF TypeOK
    <3>2. QED BY <3>1, FrameTypes, Zenon
  <2>2. toClient' \in Seq(Frames)
    BY <1>16, <2>1, SeqFacts DEF TypeOK, Greet
  <2>3. QED BY <1>16, <2>2 DEF TypeOK, Greet
<1>17. CASE Drop
  BY <1>17 DEF TypeOK, Drop
<1>18. CASE UNCHANGED vars
  BY <1>18 DEF TypeOK, vars
<1>19. CASE MainRuns
  <2>1. CASE Greeting
    BY <2>1, <1>1, <1>2 DEF Greeting, Pcs
  <2>2. CASE SessionLoop
    BY <2>2, <1>1 DEF SessionLoop, Pcs
  <2>3. CASE Send("main")
    BY <2>3, <1>4, <1>5 DEF Send
  <2>4. CASE SessionSendThrows
    BY <2>4, <1>1 DEF SessionSendThrows, Pcs
  <2>5. CASE SpinReceive
    BY <2>5, <1>2 DEF SpinReceive, Pcs
  <2>6. CASE BenchEnds \/ CloseJoin
    BY <2>6, <1>1 DEF BenchEnds, CloseJoin, Pcs
  <2>7. QED BY <1>19, <2>1, <2>2, <2>3, <2>4, <2>5, <2>6, <1>7, <1>10, <1>11 DEF MainRuns
<1>20. CASE SessionInput \/ SessionRequest \/ SessionBench
  BY <1>20, <1>1, <1>3 DEF SessionInput, SessionRequest, SessionBench, Pcs
<1>21. CASE ReadFails \/ ReceiverTest
  BY <1>21, <1>13 DEF ReadFails, ReceiverTest, TypeOK
<1>22. CASE heartbeat_loop
  BY <1>22, <1>1, <1>4, <1>5, <1>8, <1>14 DEF heartbeat_loop, Send, HeartbeatThrows, Pcs
<1>23. QED
  BY <1>9, <1>12, <1>15, <1>16, <1>17, <1>18, <1>19, <1>20, <1>21, <1>22 DEF Next, receive_loop

\* Type correctness: the queue of the client never holds more than QueueSize
\* messages, and every value stays in its type.
THEOREM TypeCorrect == Spec => []TypeOK
BY InitType, NextType, PTL DEF Spec

-----------------------------------------------------------------------------
(***************************************************************************)
(* SpinFed is inductive with the types.  What matters: a sent frame is one *)
(* more on its way, the server and receive_loop pass a frame on, and       *)
(* receive_loop drops one only if the queue is full, so not empty.         *)
(***************************************************************************)

\* A step preserves SpinFed.
LEMMA NextFed == TypeOK /\ SpinFed /\ [Next]_vars => SpinFed'
<1> SUFFICES ASSUME TypeOK, SpinFed, [Next]_vars,
                    pc'["main"] = "spin", conn' = "up"
             PROVE  Len(toServer') + Len(toClient') + Len(queue_') > 0
  BY DEF SpinFed
<1> USE DEF Goto, At, Senders, streamVars, clientVars, serverVars, sessionVars
<1> DEFINE Fed == Len(toServer') + Len(toClient') + Len(queue_') > 0
<1>1. Len(toServer) \in Nat /\ Len(toClient) \in Nat /\ Len(queue_) \in Nat
  BY SeqFacts DEF TypeOK
<1>2. ASSUME pc["main"] = "spin", conn = "up", UNCHANGED <<toServer, toClient, queue_>>
      PROVE  Fed
  BY <1>2 DEF SpinFed
<1>3. ASSUME NEW t \in Senders, NEW from, NEW to, Move(t, from, to), to # "spin"
      PROVE  Fed
  <2>1. pc["main"] = "spin" /\ conn = "up"
    BY <1>3 DEF Move, TypeOK
  <2>2. QED BY <1>2, <1>3, <2>1 DEF Move
<1>4. ASSUME NEW from, NEW to, Take(from, to) PROVE to = "spin"
  BY <1>4 DEF Take, TypeOK
<1>5. ASSUME NEW from, NEW isText, Request(from, isText) PROVE FALSE
  BY <1>5 DEF Request, TypeOK
<1>6. ASSUME NEW t \in Senders, SetOpcode(t) \/ BeginWrite(t) PROVE Fed
  <2>1. pc["main"] = "spin" /\ conn = "up"
    BY <1>6 DEF SetOpcode, BeginWrite, TypeOK
  <2>2. QED BY <1>2, <1>6, <2>1 DEF SetOpcode, BeginWrite
<1>7. ASSUME NEW t \in Senders, Written(t) PROVE Len(toServer') = Len(toServer) + 1
  <2>1. conn = "up" /\ frame[t] \in Frames
    BY <1>7 DEF Written, TypeOK
  <2>2. QED BY <1>7, <2>1, SeqFacts DEF Written, TypeOK
<1>8. CASE SessionSent
  <2>1. UNCHANGED <<toClient, queue_>>
    BY <1>8 DEF SessionSent, Written
  <2>2. Len(toServer') = Len(toServer) + 1
    BY <1>7, <1>8 DEF SessionSent
  <2>3. QED BY <1>1, <2>1, <2>2
<1>9. CASE HeartbeatSent
  <2>1. UNCHANGED <<toClient, queue_>>
    BY <1>9 DEF HeartbeatSent, Written
  <2>2. Len(toServer') = Len(toServer) + 1
    BY <1>7, <1>9 DEF HeartbeatSent
  <2>3. QED BY <1>1, <2>1, <2>2
<1>10. CASE WriteUndefined \/ CloseFlag \/ CloseStream \/ Drop
  <2>1. CASE WriteUndefined
    BY <2>1 DEF WriteUndefined, TypeOK
  <2>2. CASE CloseFlag
    BY <2>2 DEF CloseFlag, TypeOK
  <2>3. CASE CloseStream
    BY <2>3 DEF CloseStream, TypeOK
  <2>4. CASE Drop
    BY <2>4 DEF Drop
  <2>5. QED BY <1>10, <2>1, <2>2, <2>3, <2>4
<1>11. CASE Receive
  <2>1. Head(toClient) \in Frames
    BY <1>11, SeqFacts DEF Receive, TypeOK
  <2>2. CASE Len(queue_) < QueueSize
    <3>1. Len(queue_') = Len(queue_) + 1
      BY <1>11, <2>1, <2>2, SeqFacts DEF Receive, Push, TypeOK
    <3>2. Len(toServer') \in Nat /\ Len(toClient') \in Nat
      BY <1>11, SeqFacts DEF Receive, TypeOK
    <3>3. QED BY <1>1, <3>1, <3>2
  <2>3. CASE ~(Len(queue_) < QueueSize)
    <3>1. Len(queue_') = Len(queue_) /\ Len(queue_) > 0
      BY <1>1, <1>11, <2>3, QueueSizeAssumption DEF Receive, Push
    <3>2. Len(toServer') \in Nat /\ Len(toClient') \in Nat
      BY <1>11, SeqFacts DEF Receive, TypeOK
    <3>3. QED BY <1>1, <3>1, <3>2
  <2>4. QED BY <2>2, <2>3
<1>12. ASSUME NEW c, c = conn \/ c = "closed", ReceiverEnds(c) PROVE Fed
  <2>1. pc["main"] = "spin" /\ conn = "up"
    BY <1>12 DEF ReceiverEnds
  <2>2. QED BY <1>2, <1>12, <2>1 DEF ReceiverEnds
<1>13. CASE HeartbeatSleep
  <2>1. pc["main"] = "spin" /\ conn = "up"
    BY <1>13 DEF HeartbeatSleep, TypeOK
  <2>2. QED BY <1>2, <1>13, <2>1 DEF HeartbeatSleep
<1>14. CASE Echo
  <2>1. [Head(toServer) EXCEPT !.echo = echoes + 1] \in Frames
    <3>1. echoes + 1 \in Nat /\ Head(toServer) \in Frames
      BY <1>14, SeqFacts DEF TypeOK, Echo
    <3>2. QED BY <3>1, FrameTypes, Zenon
  <2>2. Len(toClient') = Len(toClient) + 1
    BY <1>14, <2>1, SeqFacts DEF Echo, TypeOK
  <2>3. Len(toServer') \in Nat /\ Len(queue_') \in Nat
    BY <1>14, SeqFacts DEF Echo, TypeOK
  <2>4. QED BY <1>1, <2>2, <2>3
<1>15. CASE Greet
  <2>1. [Nothing EXCEPT !.echo = echoes + 1] \in Frames
    <3>1. echoes + 1 \in Nat
      BY DEF TypeOK
    <3>2. QED BY <3>1, FrameTypes, Zenon
  <2>2. Len(toClient') = Len(toClient) + 1
    BY <1>15, <2>1, SeqFacts DEF Greet, TypeOK
  <2>3. Len(toServer') \in Nat /\ Len(queue_') \in Nat
    BY <1>15, SeqFacts DEF Greet, TypeOK
  <2>4. QED BY <1>1, <2>2, <2>3
<1>16. CASE UNCHANGED vars
  BY <1>2, <1>16 DEF vars
<1>17. CASE MainRuns
  <2>1. CASE Greeting \/ SpinReceive
    BY <2>1, <1>3, <1>4 DEF Greeting, SpinReceive
  <2>2. CASE SessionLoop \/ SessionSendThrows \/ BenchEnds \/ CloseJoin
    BY <2>2, <1>3 DEF SessionLoop, SessionSendThrows, BenchEnds, CloseJoin
  <2>3. CASE Send("main")
    BY <2>3, <1>6 DEF Send
  <2>4. QED BY <1>17, <2>1, <2>2, <2>3, <1>8, <1>10 DEF MainRuns
<1>18. CASE SessionInput \/ SessionRequest \/ SessionBench
  BY <1>18, <1>3, <1>5 DEF SessionInput, SessionRequest, SessionBench
<1>19. CASE ReadFails \/ ReceiverTest
  BY <1>19, <1>12 DEF ReadFails, ReceiverTest
<1>20. CASE heartbeat_loop
  BY <1>20, <1>3, <1>6, <1>9, <1>13 DEF heartbeat_loop, Send, HeartbeatThrows
<1>21. QED
  BY <1>10, <1>11, <1>14, <1>15, <1>16, <1>17, <1>18, <1>19, <1>20 DEF Next, receive_loop

\* Whenever the session busy-waits in spin_receive on a connection that is up,
\* something is still to come, although receive_loop drops messages when the queue
\* is full: for every capacity of the queue and any number of pings.
THEOREM NeverStarved == Spec => []SpinFed
<1>1. Init => SpinFed
  BY DEF Init, SpinFed, Senders
<1>2. QED BY <1>1, TypeCorrect, NextFed, PTL DEF Spec

-----------------------------------------------------------------------------
(***************************************************************************)
(* TakenInOrder needs to know what is queued and under way: the frames the *)
(* server numbers come in this order, and without a gap until receive_loop *)
(* drops one.                                                              *)
(***************************************************************************)

\* The number of the last frame that the receiver has read.
Arrived == echoes - Len(toClient)

\* What is under way to the client is numbered without a gap, what is queued comes
\* before it and after the last reply, and up to the first drop nothing is missing.
Order ==
  /\ \A k \in 1 .. Len(toClient) : toClient[k].echo = Arrived + k
  /\ reply.echo <= Arrived
  /\ \A k \in 1 .. Len(queue_) : reply.echo < queue_[k].echo /\ queue_[k].echo <= Arrived
  /\ \A j, k \in 1 .. Len(queue_) : j < k => queue_[j].echo < queue_[k].echo
  /\ dropped = 0 => /\ Arrived = reply.echo + Len(queue_)
                    /\ \A k \in 1 .. Len(queue_) : queue_[k].echo = reply.echo + k

\* The elements of a tail and of an appended sequence.
LEMMA Elements ==
  ASSUME NEW S, NEW s \in Seq(S)
  PROVE  /\ s # << >> => /\ Head(s) = s[1] /\ 1 \in 1 .. Len(s)
                         /\ \A k \in 1 .. Len(s) - 1 : Tail(s)[k] = s[k + 1]
         /\ \A e \in S : /\ Append(s, e)[Len(s) + 1] = e
                         /\ \A k \in 1 .. Len(s) : Append(s, e)[k] = s[k]
<1>1. s # << >> => /\ Head(s) = s[1] /\ 1 \in 1 .. Len(s)
                   /\ \A k \in 1 .. Len(s) - 1 : Tail(s)[k] = s[k + 1]
  OBVIOUS
<1>2. \A e \in S : /\ Append(s, e)[Len(s) + 1] = e
                   /\ \A k \in 1 .. Len(s) : Append(s, e)[k] = s[k]
  OBVIOUS
<1> QED BY <1>1, <1>2

\* The numbers that Order speaks of.
LEMMA EchoTypes ==
  ASSUME TypeOK
  PROVE  /\ Len(toClient) \in Nat /\ Len(queue_) \in Nat /\ echoes \in Nat /\ dropped \in Nat
         /\ Arrived \in Int /\ reply.echo \in Nat
         /\ \A k \in 1 .. Len(toClient) : toClient[k].echo \in Nat
         /\ \A k \in 1 .. Len(queue_) : queue_[k].echo \in Nat
<1>1. Len(toClient) \in Nat /\ Len(queue_) \in Nat /\ echoes \in Nat /\ dropped \in Nat
  BY SeqFacts DEF TypeOK
<1>2. \A f \in Frames : f.echo \in Nat
  BY DEF Frames
<1>3. /\ \A k \in 1 .. Len(toClient) : toClient[k] \in Frames
      /\ \A k \in 1 .. Len(queue_) : queue_[k] \in Frames
  BY DEF TypeOK
<1> QED BY <1>1, <1>2, <1>3 DEF TypeOK, Arrived

\* The session takes the oldest message.
LEMMA TakeOrder ==
  ASSUME TypeOK, Order, NEW from, NEW to, Take(from, to)
  PROVE  /\ Order' /\ reply'.echo > reply.echo
         /\ reply'.echo = reply.echo + 1 \/ dropped > 0
<1>1. /\ queue_ # << >> /\ queue_' = Tail(queue_) /\ reply' = Head(queue_)
      /\ UNCHANGED <<toClient, echoes, dropped>>
  BY DEF Take, serverVars
<1>2. Len(queue_') = Len(queue_) - 1 /\ Len(queue_) > 0
  BY <1>1, SeqFacts DEF TypeOK
<1>3. /\ reply' = queue_[1] /\ 1 \in 1 .. Len(queue_)
      /\ \A k \in 1 .. Len(queue_') : queue_'[k] = queue_[k + 1]
  BY <1>1, <1>2, Elements DEF TypeOK
<1>4. \A k \in 1 .. Len(queue_') : k + 1 \in 1 .. Len(queue_) /\ 1 < k + 1
  BY <1>2, EchoTypes
<1>5. reply'.echo > reply.echo /\ (reply'.echo = reply.echo + 1 \/ dropped > 0)
  BY <1>3, EchoTypes DEF Order
<1>6. Arrived' = Arrived
  BY <1>1 DEF Arrived
<1>7. Order'
  <2>1. \A k \in 1 .. Len(queue_') : reply'.echo < queue_'[k].echo /\ queue_'[k].echo <= Arrived'
    BY <1>3, <1>4, <1>6, EchoTypes DEF Order
  <2>2. ASSUME NEW j \in 1 .. Len(queue_'), NEW k \in 1 .. Len(queue_'), j < k
        PROVE  queue_'[j].echo < queue_'[k].echo
    <3>1. j + 1 \in 1 .. Len(queue_) /\ k + 1 \in 1 .. Len(queue_) /\ j + 1 < k + 1
      BY <1>4, <2>2
    <3> QED BY <1>3, <3>1 DEF Order
  <2>3. dropped = 0 => /\ Arrived' = reply'.echo + Len(queue_')
                       /\ \A k \in 1 .. Len(queue_') : queue_'[k].echo = reply'.echo + k
    <3> SUFFICES ASSUME dropped = 0
                 PROVE  /\ Arrived' = reply'.echo + Len(queue_')
                        /\ \A k \in 1 .. Len(queue_') : queue_'[k].echo = reply'.echo + k
      OBVIOUS
    <3>1. reply'.echo = reply.echo + 1 /\ Arrived = reply.echo + Len(queue_)
      BY <1>3 DEF Order
    <3>2. ASSUME NEW k \in 1 .. Len(queue_') PROVE queue_'[k].echo = reply'.echo + k
      <4>1. k + 1 \in 1 .. Len(queue_) /\ k \in Nat
        BY <1>4
      <4>2. queue_'[k].echo = reply.echo + (k + 1)
        BY <1>3, <4>1 DEF Order
      <4>3. reply.echo \in Nat
        BY EchoTypes
      <4> QED BY <3>1, <4>1, <4>2, <4>3
    <3>3. Arrived' = reply'.echo + Len(queue_')
      BY <1>2, <1>6, <3>1, EchoTypes
    <3> QED BY <3>2, <3>3
  <2>4. reply'.echo <= Arrived'
    BY <1>3, <1>6 DEF Order
  <2> QED BY <1>1, <1>6, <2>1, <2>2, <2>3, <2>4 DEF Order
<1> QED BY <1>5, <1>7

\* receive_loop queues a message behind the others, or drops it.
LEMMA ReceiveOrder == ASSUME TypeOK, Order, Receive PROVE Order'
<1>1. /\ toClient # << >> /\ toClient' = Tail(toClient) /\ Push(Head(toClient))
      /\ UNCHANGED <<echoes, reply>>
  BY DEF Receive, sessionVars
<1>2. /\ Len(toClient') = Len(toClient) - 1 /\ Len(toClient) > 0
      /\ Head(toClient) = toClient[1] /\ Head(toClient) \in Frames /\ 1 \in 1 .. Len(toClient)
      /\ \A k \in 1 .. Len(toClient') : toClient'[k] = toClient[k + 1]
  BY <1>1, SeqFacts, Elements DEF TypeOK
<1>3. Arrived' = Arrived + 1 /\ Head(toClient).echo = Arrived + 1
  BY <1>1, <1>2, EchoTypes DEF Arrived, Order
<1>4. ASSUME NEW k \in 1 .. Len(toClient') PROVE toClient'[k].echo = Arrived' + k
  <2>1. k + 1 \in 1 .. Len(toClient) /\ k \in Nat
    BY <1>2, EchoTypes
  <2>2. toClient'[k].echo = Arrived + (k + 1)
    BY <1>2, <2>1 DEF Order
  <2> QED BY <1>3, <2>1, <2>2, EchoTypes
<1>5. CASE Len(queue_) < QueueSize
  <2>1. queue_' = Append(queue_, Head(toClient)) /\ dropped' = dropped
    BY <1>1, <1>5 DEF Push
  <2>2. /\ Len(queue_') = Len(queue_) + 1 /\ queue_'[Len(queue_) + 1] = Head(toClient)
        /\ \A k \in 1 .. Len(queue_) : queue_'[k] = queue_[k]
    BY <1>2, <2>1, SeqFacts, Elements DEF TypeOK
  <2>3. \A k \in 1 .. Len(queue_') : k \in 1 .. Len(queue_) \/ k = Len(queue_) + 1
    BY <2>2, EchoTypes
  <2>4. ASSUME NEW k \in 1 .. Len(queue_')
        PROVE  reply'.echo < queue_'[k].echo /\ queue_'[k].echo <= Arrived'
    <3>1. CASE k \in 1 .. Len(queue_)
      <4>1. queue_'[k] = queue_[k] /\ queue_[k].echo \in Nat /\ Arrived \in Int
        BY <2>2, <3>1, EchoTypes
      <4>2. reply.echo < queue_[k].echo /\ queue_[k].echo <= Arrived
        BY <3>1 DEF Order
      <4> QED BY <1>1, <1>3, <4>1, <4>2
    <3>2. CASE k = Len(queue_) + 1
      BY <1>1, <1>3, <2>2, <3>2, EchoTypes DEF Order
    <3> QED BY <2>3, <3>1, <3>2
  <2>5. \A j, k \in 1 .. Len(queue_') : j < k => queue_'[j].echo < queue_'[k].echo
    <3> SUFFICES ASSUME NEW j \in 1 .. Len(queue_'), NEW k \in 1 .. Len(queue_'), j < k
                 PROVE  queue_'[j].echo < queue_'[k].echo
      OBVIOUS
    <3>1. j \in 1 .. Len(queue_)
      BY <2>2, EchoTypes
    <3>2. CASE k \in 1 .. Len(queue_)
      BY <2>2, <3>1, <3>2 DEF Order
    <3>3. CASE k = Len(queue_) + 1
      BY <1>3, <2>2, <3>1, <3>3, EchoTypes DEF Order
    <3> QED BY <2>3, <3>2, <3>3
  <2>6. dropped' = 0 => /\ Arrived' = reply'.echo + Len(queue_')
                        /\ \A k \in 1 .. Len(queue_') : queue_'[k].echo = reply'.echo + k
    BY <1>1, <1>3, <2>1, <2>2, <2>3, EchoTypes DEF Order
  <2>7. reply'.echo <= Arrived'
    BY <1>1, <1>3, EchoTypes DEF Order
  <2> QED BY <1>4, <2>4, <2>5, <2>6, <2>7 DEF Order
<1>6. CASE ~(Len(queue_) < QueueSize)
  <2>1. queue_' = queue_ /\ dropped' = dropped + 1
    BY <1>1, <1>6 DEF Push
  <2>2. \A k \in 1 .. Len(queue_) : queue_[k].echo <= Arrived'
    BY <1>3, EchoTypes DEF Order
  <2>3. reply'.echo <= Arrived' /\ dropped' # 0
    BY <1>1, <1>3, <2>1, EchoTypes DEF Order
  <2> QED BY <1>1, <1>4, <2>1, <2>2, <2>3 DEF Order
<1> QED BY <1>5, <1>6

\* The server numbers what it sends.
LEMMA ServerOrder ==
  ASSUME TypeOK, Order, NEW f \in Frames, f.echo = echoes + 1,
         toClient' = Append(toClient, f), echoes' = echoes + 1,
         UNCHANGED <<queue_, reply, dropped>>
  PROVE  Order'
<1>1. /\ Len(toClient') = Len(toClient) + 1 /\ toClient'[Len(toClient) + 1] = f
      /\ \A k \in 1 .. Len(toClient) : toClient'[k] = toClient[k]
  BY SeqFacts, Elements DEF TypeOK
<1>2. Arrived' = Arrived
  BY <1>1, EchoTypes DEF Arrived
<1>3. \A k \in 1 .. Len(toClient') : k \in 1 .. Len(toClient) \/ k = Len(toClient) + 1
  BY <1>1, EchoTypes
<1>4. f.echo = Arrived + (Len(toClient) + 1)
  BY EchoTypes DEF Arrived
<1>5. \A k \in 1 .. Len(toClient') : toClient'[k].echo = Arrived' + k
  BY <1>1, <1>2, <1>3, <1>4 DEF Order
<1> QED BY <1>2, <1>5 DEF Order

\* The steps that neither move a message to the session nor let the server send one.
LEMMA OtherSteps ==
  ASSUME [Next]_vars
  PROVE  \/ Receive \/ Echo \/ Greet \/ \E from, to : Take(from, to)
         \/ UNCHANGED <<queue_, toClient, echoes, reply, dropped>>
BY DEF Next, vars, MainRuns, Greeting, SessionLoop, Send, SessionSent, SessionSendThrows, SpinReceive,
       BenchEnds, CloseFlag, CloseStream, CloseJoin, SessionInput, SessionRequest, SessionBench,
       Request, receive_loop, ReadFails, ReceiverTest, ReceiverEnds, heartbeat_loop, HeartbeatSleep,
       HeartbeatSent, HeartbeatThrows, WriteUndefined, Drop, Move, Written, SetOpcode, BeginWrite,
       streamVars, clientVars, serverVars, sessionVars

\* Order is kept.
LEMMA NextOrder == TypeOK /\ Order /\ [Next]_vars => Order'
<1> SUFFICES ASSUME TypeOK, Order, [Next]_vars PROVE Order'
  OBVIOUS
<1>1. CASE Echo
  <2> DEFINE f == [Head(toServer) EXCEPT !.echo = echoes + 1]
  <2>1. Head(toServer) \in Frames /\ echoes + 1 \in Nat
    BY <1>1, SeqFacts DEF TypeOK, Echo
  <2>2. f \in Frames /\ f.echo = echoes + 1
    BY <2>1, FrameTypes DEF Frames
  <2>3. /\ toClient' = Append(toClient, f) /\ echoes' = echoes + 1
        /\ UNCHANGED <<queue_, reply, dropped>>
    BY <1>1 DEF Echo, clientVars, sessionVars
  <2> QED BY <2>2, <2>3, ServerOrder
<1>2. CASE Greet
  <2> DEFINE f == [Nothing EXCEPT !.echo = echoes + 1]
  <2>1. Nothing \in Frames /\ echoes + 1 \in Nat
    BY FrameTypes DEF TypeOK
  <2>2. f \in Frames /\ f.echo = echoes + 1
    BY <2>1, FrameTypes DEF Frames
  <2>3. /\ toClient' = Append(toClient, f) /\ echoes' = echoes + 1
        /\ UNCHANGED <<queue_, reply, dropped>>
    BY <1>2 DEF Greet, clientVars, sessionVars
  <2> QED BY <2>2, <2>3, ServerOrder
<1>3. CASE UNCHANGED <<queue_, toClient, echoes, reply, dropped>>
  BY <1>3 DEF Order, Arrived
<1> QED BY <1>1, <1>2, <1>3, OtherSteps, ReceiveOrder, TakeOrder

\* The session takes the server's frames in the order they were sent, none twice, and
\* misses none before receive_loop has dropped one: whatever the size of the queue.
THEOREM OrderIsKept == Spec => TakenInOrder
<1>1. ASSUME Init PROVE Order
  <2>1. Len(toClient) = 0 /\ Len(queue_) = 0 /\ echoes = 0 /\ reply.echo = 0
    BY <1>1 DEF Init, Nothing, Frame
  <2>2. Arrived = 0
    BY <2>1 DEF Arrived
  <2>3. \A k : ~(k \in 1 .. 0)
    OBVIOUS
  <2> QED BY <2>1, <2>2, <2>3 DEF Order
<1>2. TypeOK /\ Order /\ [Next]_vars =>
        [reply' # reply => /\ reply'.echo > reply.echo
                           /\ reply'.echo = reply.echo + 1 \/ dropped > 0]_vars
  <2> SUFFICES ASSUME TypeOK, Order, [Next]_vars, reply' # reply
               PROVE  reply'.echo > reply.echo /\ (reply'.echo = reply.echo + 1 \/ dropped > 0)
    OBVIOUS
  <2>1. \E from, to : Take(from, to)
    BY OtherSteps DEF Receive, Echo, Greet, sessionVars
  <2> QED BY <2>1, TakeOrder
<1> QED BY <1>1, <1>2, TypeCorrect, NextOrder, PTL DEF Spec, TakenInOrder

-----------------------------------------------------------------------------
(***************************************************************************)
(* QuietRepliesMatch: requests and replies are matched by order alone.     *)
(* While neither a greeting nor a ping is about there is at most one frame *)
(* between main and itself, only while main waits in spin_receive, and it  *)
(* is the request of that moment, with the opcode it was meant to have, as *)
(* no other thread sets the opcode.                                        *)
(***************************************************************************)

\* Neither a greeting nor a ping was sent.
Quiet == ~greeted /\ frame["hb"] = Nothing

\* The heartbeat that is about to write has a ping to write.
Pinging == pc["hb"] \in {"opcode", "write", "writing"} => frame["hb"].from = "hb"

\* The session's last request, as it goes out and as it comes back.
Expected == {f \in Frames : f.from = "main" /\ f.n = asked /\ f.text = f.meant}

\* How many frames are under way or queued.
UnderWay == Len(toServer) + Len(toClient) + Len(queue_)

\* The frame that main sends is its last request, and gets the opcode it was meant to have.
Sending ==
  /\ pc["main"] = "greeting" => asked = 0
  /\ pc["main"] \in {"opcode", "write", "writing"} =>
       frame["main"].from = "main" /\ frame["main"].n = asked
  /\ pc["main"] = "write" => text = frame["main"].meant
  /\ pc["main"] = "writing" => frame["main"].text = frame["main"].meant

\* There is at most this frame, and main waits for it.
Flow ==
  /\ UnderWay <= IF pc["main"] = "spin" THEN 1 ELSE 0
  /\ toServer \in Seq(Expected) /\ toClient \in Seq(Expected) /\ queue_ \in Seq(Expected)

\* What main has taken is the last request.
Answered == asked > 0 /\ pc["main"] \in {"loop", "input", "bench"} => reply \in Expected

\* The inductive form of QuietRepliesMatch.
QuietInv == Pinging /\ (Quiet => Sending /\ Flow /\ Answered)

\* The frames of the heartbeat are told apart from Nothing.
LEMMA NextPinging ==
  ASSUME TypeOK, Pinging, [Next]_vars
  PROVE  Pinging' /\ (Quiet' => Quiet)
<1> USE DEF Goto, At, Senders, streamVars, clientVars, serverVars, sessionVars
<1>1. ASSUME UNCHANGED <<greeted, frame>>,
             pc'["hb"] \in {"opcode", "write", "writing"} =>
               pc["hb"] \in {"opcode", "write", "writing"}
      PROVE  Pinging' /\ (Quiet' => Quiet)
  BY <1>1 DEF Pinging, Quiet
<1>2. ASSUME NEW t \in Senders, NEW from, NEW to, Move(t, from, to),
             to \notin {"opcode", "write", "writing"}
      PROVE  Pinging' /\ (Quiet' => Quiet)
  BY <1>1, <1>2 DEF Move, TypeOK
<1>3. ASSUME NEW from, NEW to, Take(from, to) PROVE Pinging' /\ (Quiet' => Quiet)
  BY <1>1, <1>3 DEF Take, TypeOK
<1>4. ASSUME NEW from, NEW isText, Request(from, isText) PROVE Pinging' /\ (Quiet' => Quiet)
  BY <1>4 DEF Request, TypeOK, Pinging, Quiet
<1>5. ASSUME NEW t \in Senders, SetOpcode(t) PROVE Pinging' /\ (Quiet' => Quiet)
  BY <1>1, <1>5 DEF SetOpcode, TypeOK
<1>6. ASSUME NEW t \in Senders, BeginWrite(t) PROVE Pinging' /\ (Quiet' => Quiet)
  <2>1. frame'["hb"].from = frame["hb"].from /\ (t = "main" => frame'["hb"] = frame["hb"])
    BY <1>6 DEF BeginWrite, TypeOK, Frames
  <2>2. Pinging' /\ (t = "hb" => frame'["hb"].from = "hb")
    BY <1>6, <2>1 DEF BeginWrite, TypeOK, Pinging
  <2>3. Nothing.from # "hb"
    BY DEF Nothing, Frame
  <2> QED BY <1>6, <2>1, <2>2, <2>3 DEF BeginWrite, Quiet
<1>7. CASE SessionSent \/ HeartbeatSent
  BY <1>1, <1>7 DEF SessionSent, HeartbeatSent, Written, TypeOK
<1>8. CASE WriteUndefined \/ CloseFlag \/ CloseStream
  BY <1>1, <1>8 DEF WriteUndefined, CloseFlag, CloseStream, TypeOK
<1>9. CASE Receive \/ Echo \/ Drop \/ UNCHANGED vars
  BY <1>1, <1>9 DEF Receive, Echo, Drop, vars
<1>10. ASSUME NEW c, ReceiverEnds(c) PROVE Pinging' /\ (Quiet' => Quiet)
  BY <1>1, <1>10 DEF ReceiverEnds
<1>11. CASE HeartbeatSleep
  <2>1. CASE running_
    <3>1. frame'["hb"].from = "hb" /\ Nothing.from # "hb"
      BY <1>11, <2>1 DEF HeartbeatSleep, TypeOK, Frame, Nothing
    <3> QED BY <3>1 DEF Pinging, Quiet
  <2>2. CASE ~running_
    BY <1>1, <1>11, <2>2 DEF HeartbeatSleep, TypeOK
  <2> QED BY <2>1, <2>2
<1>12. CASE Greet
  BY <1>12 DEF Greet, Pinging, Quiet
<1>13. CASE MainRuns
  <2>1. CASE Greeting \/ SpinReceive
    BY <2>1, <1>2, <1>3 DEF Greeting, SpinReceive
  <2>2. CASE SessionLoop \/ SessionSendThrows \/ BenchEnds \/ CloseJoin
    BY <2>2, <1>2 DEF SessionLoop, SessionSendThrows, BenchEnds, CloseJoin
  <2>3. CASE Send("main")
    BY <2>3, <1>5, <1>6 DEF Send
  <2> QED BY <1>13, <2>1, <2>2, <2>3, <1>7, <1>8 DEF MainRuns
<1>14. CASE SessionInput \/ SessionRequest \/ SessionBench
  BY <1>14, <1>2, <1>4 DEF SessionInput, SessionRequest, SessionBench
<1>15. CASE ReadFails \/ ReceiverTest
  BY <1>15, <1>10 DEF ReadFails, ReceiverTest
<1>16. CASE heartbeat_loop
  BY <1>16, <1>2, <1>5, <1>6, <1>7, <1>11 DEF heartbeat_loop, Send, HeartbeatThrows
<1> QED BY <1>8, <1>9, <1>12, <1>13, <1>14, <1>15, <1>16 DEF Next, receive_loop

\* When main does not wait, nothing is under way.
LEMMA NothingUnderWay ==
  ASSUME TypeOK, Flow, pc["main"] # "spin"
  PROVE  toServer = << >> /\ toClient = << >> /\ queue_ = << >> /\ UnderWay = 0
<1>1. Len(toServer) \in Nat /\ Len(toClient) \in Nat /\ Len(queue_) \in Nat
  BY SeqFacts DEF TypeOK
<1>2. Len(toServer) = 0 /\ Len(toClient) = 0 /\ Len(queue_) = 0
  BY <1>1 DEF Flow, UnderWay
<1> QED BY <1>2, SeqFacts DEF TypeOK, UnderWay

\* While it is quiet, every step keeps it so that the replies match.
LEMMA NextQuiet ==
  ASSUME TypeOK, QuietInv, [Next]_vars, Quiet, Quiet'
  PROVE  Sending' /\ Flow' /\ Answered'
<1> USE DEF Goto, At, Senders, streamVars, clientVars, serverVars, sessionVars
<1> DEFINE Kept == Sending' /\ Flow' /\ Answered'
<1>1. Sending /\ Flow /\ Answered /\ pc["hb"] \notin {"opcode", "write", "writing"}
  <2>1. Nothing.from # "hb"
    BY DEF Nothing, Frame
  <2> QED BY <2>1 DEF QuietInv, Quiet, Pinging
<1>2. ASSUME UNCHANGED <<text, toServer, toClient, queue_, asked, reply>>,
             frame'["main"] = frame["main"], pc'["main"] = pc["main"]
      PROVE  Kept
  BY <1>1, <1>2 DEF Sending, Flow, Answered, Expected, UnderWay
<1>3. ASSUME UNCHANGED <<toServer, toClient, queue_, asked, reply>>,
             pc["main"] # "spin",
             pc'["main"] \in {"loop", "input", "close", "close_ws", "join", "closed"},
             pc'["main"] \in {"loop", "input"} =>
               pc["main"] \in {"greeting", "loop", "input", "bench"}
      PROVE  Kept
  BY <1>1, <1>3 DEF Sending, Flow, Answered, Expected, UnderWay
<1>4. ASSUME NEW to, Move("hb", "writing", to) \/ Move("hb", "sleep", to) PROVE Kept
  BY <1>2, <1>4 DEF Move, TypeOK
<1>5. ASSUME NEW to, Take("greeting", to) PROVE Kept
  BY <1>1, <1>5, NothingUnderWay DEF Take
<1>6. ASSUME NEW to \in {"loop", "bench"}, Take("spin", to) PROVE Kept
  <2>1. /\ queue_ # << >> /\ reply' = Head(queue_) /\ queue_' = Tail(queue_)
        /\ pc["main"] = "spin" /\ pc'["main"] = to
        /\ UNCHANGED <<toServer, toClient, asked, frame, text>>
    BY <1>6 DEF Take, TypeOK
  <2>2. reply' \in Expected /\ queue_' \in Seq(Expected) /\ Len(queue_') = Len(queue_) - 1
    BY <1>1, <2>1, SeqFacts DEF Flow
  <2>3. Expected' = Expected
    BY <2>1 DEF Expected
  <2>4. UnderWay' <= 0
    <3>1. Len(toServer) \in Nat /\ Len(toClient) \in Nat /\ Len(queue_) \in Nat
      BY SeqFacts DEF TypeOK
    <3> QED BY <1>1, <2>1, <2>2, <3>1 DEF Flow, UnderWay
  <2> QED BY <1>1, <2>1, <2>2, <2>3, <2>4 DEF Sending, Flow, Answered
<1>7. ASSUME NEW from \in {"input", "bench"}, NEW isText \in BOOLEAN, Request(from, isText)
      PROVE  Kept
  <2>1. /\ pc["main"] # "spin" /\ pc'["main"] = "opcode" /\ asked' = asked + 1
        /\ frame'["main"] = Frame("main", asked + 1, isText)
        /\ UNCHANGED <<toServer, toClient, queue_>>
    BY <1>7 DEF Request, TypeOK
  <2>2. Sending'
    BY <2>1 DEF Sending, Frame
  <2>3. Flow'
    <3>1. << >> \in Seq(Expected')
      OBVIOUS
    <3> QED BY <1>1, <2>1, <3>1, NothingUnderWay DEF Flow, UnderWay
  <2> QED BY <2>1, <2>2, <2>3 DEF Answered
<1>8. CASE SetOpcode("main")
  <2>1. /\ pc["main"] = "opcode" /\ pc'["main"] = "write" /\ text' = frame["main"].meant
        /\ UNCHANGED <<toServer, toClient, queue_, asked, frame>>
    BY <1>8 DEF SetOpcode, TypeOK
  <2> QED BY <1>1, <2>1 DEF Sending, Flow, Answered, Expected, UnderWay
<1>9. CASE BeginWrite("main")
  <2>1. /\ pc["main"] = "write" /\ pc'["main"] = "writing"
        /\ frame'["main"] = [frame["main"] EXCEPT !.text = text]
        /\ UNCHANGED <<toServer, toClient, queue_, asked>>
    BY <1>9 DEF BeginWrite, TypeOK
  <2>2. /\ frame'["main"].from = frame["main"].from /\ frame'["main"].n = frame["main"].n
        /\ frame'["main"].meant = frame["main"].meant /\ frame'["main"].text = text
    BY <2>1 DEF TypeOK, Frames
  <2> QED BY <1>1, <2>1, <2>2 DEF Sending, Flow, Answered, Expected, UnderWay
<1>10. CASE SessionSent
  <2>1. /\ pc["main"] = "writing" /\ pc'["main"] = "spin"
        /\ toServer' = toServer \/ toServer' = Append(toServer, frame["main"])
        /\ UNCHANGED <<toClient, queue_, asked, frame>>
    BY <1>10 DEF SessionSent, Written, TypeOK
  <2>2. frame["main"] \in Expected /\ Expected' = Expected
    BY <1>1, <2>1 DEF Sending, Expected, TypeOK
  <2>3. toServer = << >> /\ toClient = << >> /\ queue_ = << >> /\ UnderWay = 0
    BY <1>1, <2>1, NothingUnderWay
  <2>4. toServer' \in Seq(Expected) /\ Len(toServer') <= 1 /\ Len(toServer') \in Nat
    <3>1. /\ toServer \in Seq(Expected) /\ Append(toServer, frame["main"]) \in Seq(Expected)
          /\ Len(toServer) = 0 /\ Len(Append(toServer, frame["main"])) = Len(toServer) + 1
      BY <1>1, <2>2, <2>3, SeqFacts DEF Flow
    <3>2. Len(Append(toServer, frame["main"])) = 1
      BY <3>1
    <3>3. CASE toServer' = toServer
      <4>1. Len(toServer') = 0
        BY <3>1, <3>3
      <4> QED BY <3>1, <3>3, <4>1
    <3>4. CASE toServer' = Append(toServer, frame["main"])
      <4>1. Len(toServer') = 1
        BY <3>2, <3>4
      <4> QED BY <3>1, <3>4, <4>1
    <3> QED BY <2>1, <3>3, <3>4
  <2>5. UnderWay' <= 1
    BY <2>1, <2>3, <2>4 DEF UnderWay
  <2> QED BY <1>1, <2>1, <2>2, <2>4, <2>5 DEF Sending, Flow, Answered
<1>11. CASE Receive
  <2>1. /\ toClient # << >> /\ toClient' = Tail(toClient) /\ Push(Head(toClient))
        /\ UNCHANGED <<toServer, asked, frame, text, reply, pc>>
    BY <1>11 DEF Receive
  <2>2. /\ Head(toClient) \in Expected /\ toClient' \in Seq(Expected)
        /\ Len(toClient') = Len(toClient) - 1
    BY <1>1, <2>1, SeqFacts DEF Flow
  <2>3. queue_' \in Seq(Expected) /\ Len(queue_') <= Len(queue_) + 1 /\ Len(queue_') \in Nat
    <3>1. /\ queue_ \in Seq(Expected) /\ Append(queue_, Head(toClient)) \in Seq(Expected)
          /\ Len(queue_) \in Nat /\ Len(Append(queue_, Head(toClient))) = Len(queue_) + 1
      BY <1>1, <2>2, SeqFacts DEF Flow
    <3>2. queue_' = queue_ \/ queue_' = Append(queue_, Head(toClient))
      BY <2>1 DEF Push
    <3> QED BY <3>1, <3>2
  <2>4. UnderWay' <= UnderWay /\ UnderWay \in Nat /\ UnderWay' \in Nat
    <3>1. Len(toServer) \in Nat /\ Len(toClient) \in Nat /\ Len(queue_) \in Nat
          /\ Len(toClient') \in Nat
      BY <2>2, SeqFacts DEF TypeOK
    <3> QED BY <2>1, <2>2, <2>3, <3>1 DEF UnderWay
  <2>5. Expected' = Expected
    BY <2>1 DEF Expected
  <2>6. Flow'
    BY <1>1, <2>1, <2>2, <2>3, <2>4, <2>5 DEF Flow
  <2> QED BY <1>1, <2>1, <2>5, <2>6 DEF Sending, Answered
<1>12. CASE Echo
  <2> DEFINE f == [Head(toServer) EXCEPT !.echo = echoes + 1]
  <2>1. /\ toServer # << >> /\ toServer' = Tail(toServer) /\ toClient' = Append(toClient, f)
        /\ UNCHANGED <<queue_, asked, frame, text, reply, pc>>
    BY <1>12 DEF Echo
  <2>2. /\ Head(toServer) \in Expected /\ toServer' \in Seq(Expected)
        /\ Len(toServer') = Len(toServer) - 1
    BY <1>1, <2>1, SeqFacts DEF Flow
  <2>3. f \in Expected
    <3>1. Head(toServer) \in Frames /\ echoes + 1 \in Nat
      BY <2>2 DEF Expected, TypeOK
    <3>2. f \in Frames
      BY <3>1, FrameTypes, Zenon
    <3>3. /\ f.from = Head(toServer).from /\ f.n = Head(toServer).n
          /\ f.text = Head(toServer).text /\ f.meant = Head(toServer).meant
      BY <3>1 DEF Frames
    <3> HIDE DEF f
    <3> QED BY <2>2, <3>2, <3>3 DEF Expected
  <2> HIDE DEF f
  <2>4. toClient' \in Seq(Expected) /\ Len(toClient') = Len(toClient) + 1
    BY <1>1, <2>1, <2>3, SeqFacts DEF Flow
  <2>5. UnderWay' = UnderWay
    <3>1. Len(toServer) \in Nat /\ Len(toClient) \in Nat /\ Len(queue_) \in Nat
      BY SeqFacts DEF TypeOK
    <3> QED BY <2>1, <2>2, <2>4, <3>1 DEF UnderWay
  <2>6. Expected' = Expected
    BY <2>1 DEF Expected
  <2>7. Flow'
    BY <1>1, <2>1, <2>2, <2>4, <2>5, <2>6 DEF Flow
  <2> QED BY <1>1, <2>1, <2>6, <2>7 DEF Sending, Answered
<1>13. CASE Greet
  BY <1>13 DEF Greet, Quiet
<1>14. CASE WriteUndefined \/ Drop \/ ReadFails \/ ReceiverTest \/ UNCHANGED vars
  BY <1>2, <1>14 DEF WriteUndefined, Drop, ReadFails, ReceiverTest, ReceiverEnds, vars
<1>15. CASE CloseFlag \/ CloseStream
  BY <1>3, <1>15 DEF CloseFlag, CloseStream, TypeOK
<1>16. CASE SessionLoop \/ SessionSendThrows \/ BenchEnds \/ CloseJoin \/ SessionInput
            \/ Move("main", "greeting", "loop")
  BY <1>3, <1>16 DEF SessionLoop, SessionSendThrows, BenchEnds, CloseJoin, SessionInput, Move, TypeOK
<1>17. CASE SessionRequest \/ SessionBench
  BY <1>7, <1>17 DEF SessionRequest, SessionBench
<1>18. CASE heartbeat_loop
  <2>1. CASE Send("hb") \/ HeartbeatSent
    BY <1>1, <2>1 DEF Send, SetOpcode, BeginWrite, HeartbeatSent
  <2>2. CASE HeartbeatSleep
    BY <1>2, <2>2 DEF HeartbeatSleep, TypeOK
  <2> QED BY <1>4, <1>18, <2>1, <2>2 DEF heartbeat_loop, HeartbeatThrows
<1>19. CASE MainRuns
  <2>1. CASE Greeting
    BY <2>1, <1>5, <1>16 DEF Greeting
  <2>2. CASE SpinReceive
    BY <2>2, <1>6 DEF SpinReceive
  <2> QED BY <1>19, <2>1, <2>2, <1>8, <1>9, <1>10, <1>15, <1>16 DEF MainRuns, Send
<1> QED BY <1>11, <1>12, <1>13, <1>14, <1>16, <1>17, <1>18, <1>19 DEF Next, receive_loop

\* While nothing but the session's own requests was sent, each reply belongs to its
\* request and comes back as the kind it was sent as: chat_session may match them by
\* order alone, for every size of the queue and however the threads interleave.
THEOREM QuietRepliesAnswer == Spec => []QuietRepliesMatch
<1>1. ASSUME Init PROVE QuietInv
  <2>1. Len(toServer) = 0 /\ Len(toClient) = 0 /\ Len(queue_) = 0
    BY <1>1 DEF Init
  <2>2. Flow
    <3>1. << >> \in Seq(Expected)
      OBVIOUS
    <3> QED BY <1>1, <2>1, <3>1 DEF Init, Flow, UnderWay
  <2>3. Pinging /\ Sending /\ Answered
    BY <1>1 DEF Init, Pinging, Sending, Answered, Senders
  <2> QED BY <2>2, <2>3 DEF QuietInv
<1>2. TypeOK /\ QuietInv /\ [Next]_vars => QuietInv'
  BY NextPinging, NextQuiet DEF QuietInv
<1>3. QuietInv => QuietRepliesMatch
  BY DEF QuietInv, Quiet, Answered, Expected, QuietRepliesMatch, IsReply
<1> QED BY <1>1, <1>2, <1>3, TypeCorrect, PTL DEF Spec
=============================================================================
