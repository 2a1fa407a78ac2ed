------------------------ MODULE LegacyClientProofs ------------------------
(***************************************************************************)
(* Proofs about LegacyClient, for every number of requests.                *)
(***************************************************************************)
EXTENDS LegacyClient, TLAPS

Waiting == {"lock", "test", "wait"}   \* main is in getResponse

\* The one frame that can be under way while main waits.
Expected == IF cmd = "banner" THEN Banner ELSE Frame(asked, cmd = "text")

Types ==
  /\ mutex_ \in {"main", "rx", "none"} /\ conn \in {"none", "up", "broken", "closed"}
  /\ pc \in [Threads -> MainPcs \cup RxPcs] /\ pc["main"] \in MainPcs /\ pc["rx"] \in RxPcs
  /\ cmd \in {"banner", "text", "binary", "unknown"}
  /\ asked \in 0 .. MaxRequests /\ response \in Frames
  /\ banner \in {"due", "sent", "never"}
  /\ outcome \in {"running", "exited", "error", "terminated"}

\* Before connect() there is nothing; the receiver's buffer is in use between the
\* read and the push only.
Start ==
  /\ pc["main"] = "connect" => /\ cmd = "banner" /\ pc["rx"] = "none" /\ conn = "none"
  /\ pc["rx"] \notin {"lock", "push"} => buffer = << >>

\* Frames come one at a time, the one that main waits for, and none when main does
\* not wait or has asked for nothing.
Flow ==
  /\ messages_ \in Seq({Expected}) /\ buffer \in Seq({Expected})
  /\ toClient \in Seq({Expected}) /\ toServer \in Seq({Expected})
  /\ Pending <= 1
  /\ cmd = "banner" => asked = 0
  /\ cmd # "banner" => banner # "due"
  /\ pc["main"] \notin Waiting \cup {"connect"} => Pending = 0 /\ cmd # "unknown"
  /\ cmd = "unknown" => Pending = 0
  /\ pc["main"] \notin Waiting \cup {"connect"} /\ asked > 0 => response = Expected

\* While the connection is up nothing is lost.
Fed == /\ pc["main"] \in Waiting /\ conn = "up" /\ cmd # "unknown" /\ banner # "never"
         => Pending > 0
       /\ pc["main"] = "connect" => banner # "sent"

IInv == Types /\ MutexHeld /\ NoLostWakeup /\ Start /\ Flow /\ Fed

-----------------------------------------------------------------------------
\* Heads and tails of sequences that are not empty, and appended sequences.
LEMMA SeqFacts ==
  ASSUME NEW S, NEW s \in Seq(S)
  PROVE  /\ Len(s) \in Nat
         /\ s = << >> <=> Len(s) = 0
         /\ s # << >> => /\ Head(s) \in S /\ Tail(s) \in Seq(S)
                         /\ Len(Tail(s)) = Len(s) - 1
         /\ \A e \in S : Append(s, e) \in Seq(S) /\ Len(Append(s, e)) = Len(s) + 1
<1>1. Len(s) \in Nat /\ (s = << >> <=> Len(s) = 0)
  OBVIOUS
<1>2. s # << >> => Head(s) \in S /\ Tail(s) \in Seq(S) /\ Len(Tail(s)) = Len(s) - 1
  OBVIOUS
<1>3. \A e \in S : Append(s, e) \in Seq(S) /\ Len(Append(s, e)) = Len(s) + 1
  OBVIOUS
<1>4. QED BY <1>1, <1>2, <1>3

\* The program starts with the invariant.
LEMMA InitInv == Init => IInv
<1> SUFFICES ASSUME Init PROVE IInv
  OBVIOUS
<1>1. Banner \in Frames /\ asked \in 0 .. MaxRequests
  BY MaxRequestsAssumption DEF Init, Banner, Frame, Frames
<1>2. pc \in [Threads -> MainPcs \cup RxPcs] /\ pc["main"] = "connect" /\ pc["rx"] = "none"
  BY DEF Init, Threads, MainPcs, RxPcs
<1>3. Types
  BY <1>1, <1>2 DEF Init, Types, MainPcs, RxPcs
<1>4. MutexHeld /\ NoLostWakeup /\ Start /\ Fed
  BY <1>2 DEF Init, MutexHeld, NoLostWakeup, Start, Fed, Waiting
<1>5. Flow
  <2>1. Len(messages_) = 0 /\ Len(buffer) = 0 /\ Len(toClient) = 0 /\ Len(toServer) = 0
    BY DEF Init
  <2>2. Pending <= 1
    BY <2>1 DEF Pending
  <2>3. QED BY <1>2, <2>2 DEF Init, Flow, Waiting
<1>6. QED BY <1>3, <1>4, <1>5 DEF IInv

\* No step leaves the types.
LEMMA NextTypes == Types /\ Flow /\ [Next]_vars => Types'
<1> SUFFICES ASSUME Types, Flow, [Next]_vars PROVE Types'
  OBVIOUS
<1> USE DEF At, Goto, Types, Threads, MainPcs, RxPcs, queueVars, mainVars, serverVars
<1>1. CASE Connect
  BY <1>1 DEF Connect
<1>2. ASSUME NEW how \in {"exited", "error", "terminated"}, End(how) PROVE Types'
  BY <1>2 DEF End
<1>3. CASE ConnectThrows \/ SendThrows \/ CloseThrows \/ Join
  BY <1>2, <1>3 DEF ConnectThrows, SendThrows, CloseThrows, Join, Throws
<1>4. CASE getResponse
  <2>1. CASE Lock("main", "lock", "test")
    BY <2>1 DEF Lock, Local
  <2>2. CASE Test
    <3>1. Expected \in Frames
      BY MaxRequestsAssumption DEF Expected, Frames, Frame, Banner
    <3>2. messages_ # << >> => Head(messages_) \in Frames
      BY <3>1, SeqFacts DEF Flow
    <3>3. QED BY <2>2, <3>2 DEF Test, Local
  <2>3. QED BY <1>4, <2>1, <2>2 DEF getResponse
<1>5. CASE SpuriousWakeup
  BY <1>5 DEF SpuriousWakeup, Local
<1>6. ASSUME NEW isText \in BOOLEAN, Send(isText) PROVE Types'
  <2>1. asked' \in 0 .. MaxRequests
    BY <1>6, MaxRequestsAssumption DEF Send
  <2>2. QED BY <1>6, <2>1 DEF Send
<1>7. CASE Unknown
  BY <1>7 DEF Unknown
<1>8. CASE EndOfInput \/ Exit \/ Close
  BY <1>8 DEF EndOfInput, Exit, Close, Local
<1>9. CASE receiveContinuous
  <2>1. CASE RxOpen \/ RxReadThrows \/ RxUnlock
    BY <2>1 DEF RxOpen, RxReadThrows, RxUnlock, Local
  <2>2. CASE RxRead \/ RxPush
    BY <2>2 DEF RxRead, RxPush
  <2>3. CASE RxLock
    BY <2>3 DEF RxLock, Lock, Local
  <2>4. CASE RxNotify
    BY <2>4 DEF RxNotify
  <2>5. QED BY <1>9, <2>1, <2>2, <2>3, <2>4 DEF receiveContinuous
<1>10. CASE Greet \/ Echo \/ Drop
  BY <1>10 DEF Greet, Echo, Drop
<1>11. CASE UNCHANGED vars
  BY <1>11 DEF vars
<1>12. QED BY <1>1, <1>3, <1>4, <1>5, <1>6, <1>7, <1>8, <1>9, <1>10, <1>11 DEF Next, close

\* No step breaks the mutual exclusion or loses a wake-up.
LEMMA NextMutex ==
  IInv /\ [Next]_vars => MutexHeld' /\ NoLostWakeup' /\ Start'
<1> SUFFICES ASSUME IInv, [Next]_vars PROVE MutexHeld' /\ NoLostWakeup' /\ Start'
  OBVIOUS
<1> USE DEF At, Goto, IInv, Types, Threads, MainPcs, RxPcs, MutexHeld, NoLostWakeup, Start,
            queueVars, mainVars, serverVars
<1>1. CASE Connect
  BY <1>1 DEF Connect
<1>2. ASSUME NEW how, End(how) PROVE MutexHeld' /\ NoLostWakeup' /\ Start'
  BY <1>2 DEF End
<1>3. CASE ConnectThrows \/ SendThrows \/ CloseThrows \/ Join
  BY <1>2, <1>3 DEF ConnectThrows, SendThrows, CloseThrows, Join, Throws
<1>4. CASE getResponse
  <2>1. CASE Lock("main", "lock", "test")
    BY <2>1 DEF Lock, Local
  <2>2. CASE Test
    BY <2>2 DEF Test, Local
  <2>3. QED BY <1>4, <2>1, <2>2 DEF getResponse
<1>5. CASE SpuriousWakeup
  BY <1>5 DEF SpuriousWakeup, Local
<1>6. ASSUME NEW isText \in BOOLEAN, Send(isText) PROVE MutexHeld' /\ NoLostWakeup' /\ Start'
  BY <1>6 DEF Send
<1>7. CASE Unknown
  BY <1>7 DEF Unknown
<1>8. CASE EndOfInput \/ Exit \/ Close
  BY <1>8 DEF EndOfInput, Exit, Close, Local
<1>9. CASE receiveContinuous
  <2>1. CASE RxOpen \/ RxReadThrows \/ RxUnlock
    BY <2>1 DEF RxOpen, RxReadThrows, RxUnlock, Local
  <2>2. CASE RxRead \/ RxPush
    BY <2>2 DEF RxRead, RxPush
  <2>3. CASE RxLock
    BY <2>3 DEF RxLock, Lock, Local
  <2>4. CASE RxNotify
    BY <2>4 DEF RxNotify
  <2>5. QED BY <1>9, <2>1, <2>2, <2>3, <2>4 DEF receiveContinuous
<1>10. CASE Greet \/ Echo \/ Drop
  BY <1>10 DEF Greet, Echo, Drop
<1>11. CASE UNCHANGED vars
  BY <1>11 DEF vars
<1>12. QED BY <1>1, <1>3, <1>4, <1>5, <1>6, <1>7, <1>8, <1>9, <1>10, <1>11 DEF Next, close

\* Frames are appended and taken away one by one, each by the action that moves it.
LEMMA Lengths ==
  ASSUME Flow
  PROVE  /\ Len(messages_) \in Nat /\ Len(buffer) \in Nat
         /\ Len(toClient) \in Nat /\ Len(toServer) \in Nat
         /\ messages_ = << >> <=> Len(messages_) = 0
         /\ buffer = << >> <=> Len(buffer) = 0
         /\ toClient = << >> <=> Len(toClient) = 0
         /\ toServer = << >> <=> Len(toServer) = 0
BY SeqFacts DEF Flow

\* No step brings a second frame or a wrong one on its way, or loses one.
LEMMA NextFlow == IInv /\ [Next]_vars => Flow' /\ Fed'
<1> SUFFICES ASSUME IInv, [Next]_vars PROVE Flow' /\ Fed'
  OBVIOUS
<1> USE DEF At, Goto, IInv, Types, Threads, MainPcs, RxPcs, Waiting,
            queueVars, mainVars, serverVars
<1>len. /\ Len(messages_) \in Nat /\ Len(buffer) \in Nat
        /\ Len(toClient) \in Nat /\ Len(toServer) \in Nat
        /\ messages_ = << >> <=> Len(messages_) = 0
        /\ buffer = << >> <=> Len(buffer) = 0
        /\ toClient = << >> <=> Len(toClient) = 0
        /\ toServer = << >> <=> Len(toServer) = 0
  BY Lengths
<1>1. CASE Connect
  <2>1. Pending' = Pending /\ Expected' = Expected
    BY <1>1 DEF Connect, Pending, Expected
  <2>2. conn = "none" /\ cmd = "banner" /\ banner # "sent"
    BY <1>1 DEF Connect, Start, Fed
  <2>3. Flow'
    BY <1>1, <2>1, <2>2 DEF Connect, Flow
  <2>4. banner = "due" => Pending > 0
    BY <1>len DEF Pending
  <2>5. QED BY <1>1, <2>1, <2>2, <2>3, <2>4 DEF Connect, Fed
<1>2. ASSUME UNCHANGED <<serverVars, messages_, buffer, mainVars>>,
             conn' = conn \/ conn' # "up",
             \/ pc'["main"] = pc["main"]
             \/ pc["main"] \in Waiting /\ pc'["main"] \in Waiting
             \/ /\ pc["main"] \notin Waiting \cup {"connect"}
                /\ pc'["main"] \notin Waiting \cup {"connect"}
      PROVE  Flow' /\ Fed'
  <2>1. Pending' = Pending /\ Expected' = Expected
    BY <1>2 DEF Pending, Expected
  <2>2. QED BY <1>2, <2>1 DEF Flow, Fed
<1>3. ASSUME NEW how, End(how) PROVE Flow' /\ Fed'
  BY <1>2, <1>3 DEF End
<1>4. CASE ConnectThrows \/ SendThrows \/ CloseThrows \/ Join
  BY <1>3, <1>4 DEF ConnectThrows, SendThrows, CloseThrows, Join, Throws
<1>5. CASE Lock("main", "lock", "test") \/ SpuriousWakeup \/ EndOfInput \/ Exit \/ Close
  BY <1>2, <1>5 DEF Lock, SpuriousWakeup, EndOfInput, Exit, Close, Local
<1>6. CASE Test
  <2>1. CASE messages_ = << >>
    BY <1>2, <1>6, <2>1 DEF Test, Local
  <2>2. CASE messages_ # << >>
    <3>1. /\ pc["main"] = "test" /\ pc'["main"] = "input"
          /\ response' = Head(messages_) /\ messages_' = Tail(messages_)
          /\ UNCHANGED <<conn, buffer, cmd, asked, serverVars>>
      BY <1>6, <2>2 DEF Test, Local
    <3>2. /\ Head(messages_) = Expected /\ Tail(messages_) \in Seq({Expected})
          /\ Len(Tail(messages_)) = Len(messages_) - 1
      BY <2>2, SeqFacts DEF Flow
    <3>3. Expected' = Expected
      BY <3>1 DEF Expected
    <3>4. Pending = 1 /\ Pending' = 0
      BY <1>len, <2>2, <3>1, <3>2 DEF Flow, Pending
    <3>5. cmd # "unknown" /\ cmd' = cmd
      BY <3>1, <3>4 DEF Flow
    <3>6. QED BY <3>1, <3>2, <3>3, <3>4, <3>5 DEF Flow, Fed
  <2>3. QED BY <2>1, <2>2
<1>7. ASSUME NEW isText \in BOOLEAN, Send(isText) PROVE Flow' /\ Fed'
  <2>1. /\ Pending = 0 /\ pc["main"] = "input" /\ pc'["main"] = "lock"
        /\ UNCHANGED <<conn, messages_, buffer, toClient, banner>>
    BY <1>7 DEF Send, Flow
  <2>2. /\ messages_ = << >> /\ buffer = << >> /\ toClient = << >> /\ toServer = << >>
        /\ banner # "due"
    BY <1>len, <2>1 DEF Pending
  <2>3. Expected' = Frame(asked + 1, isText)
    BY <1>7 DEF Send, Expected, Frame
  <2>4. toServer' \in Seq({Expected'}) /\ Len(toServer') = IF conn = "up" THEN 1 ELSE 0
    <3>1. toServer' = IF conn = "up" THEN Append(<< >>, Expected') ELSE << >>
      BY <1>7, <2>2, <2>3 DEF Send
    <3>2. \A e : << >> \in Seq({e}) /\ Append(<< >>, e) \in Seq({e})
      OBVIOUS
    <3>3. \A e : Len(Append(<< >>, e)) = 1
      OBVIOUS
    <3>4. QED BY <3>1, <3>2, <3>3
  <2>5. Pending' = IF conn = "up" THEN 1 ELSE 0
    BY <2>1, <2>2, <2>4 DEF Pending
  <2>6. cmd' \in {"text", "binary"} /\ banner' # "due"
    BY <1>7, <2>2 DEF Send
  <2>7. QED BY <2>1, <2>2, <2>4, <2>5, <2>6 DEF Flow, Fed
<1>8. CASE Unknown
  <2>1. /\ Pending = 0 /\ pc["main"] = "input" /\ pc'["main"] = "lock"
        /\ UNCHANGED <<conn, messages_, buffer, toClient, toServer, banner>> /\ cmd' = "unknown"
    BY <1>8 DEF Unknown, Flow
  <2>2. /\ messages_ = << >> /\ buffer = << >> /\ toClient = << >> /\ toServer = << >>
        /\ banner # "due"
    BY <1>len, <2>1 DEF Pending
  <2>3. Pending' = 0
    BY <2>1 DEF Pending
  <2>4. QED BY <2>1, <2>2, <2>3 DEF Flow, Fed
<1>9. CASE RxOpen \/ RxReadThrows \/ RxLock \/ RxUnlock
  BY <1>2, <1>9 DEF RxOpen, RxReadThrows, RxLock, RxUnlock, Lock, Local
<1>10. CASE RxNotify
  BY <1>2, <1>10 DEF RxNotify
\* A step that hands the frame on.
<1>11. ASSUME Pending' = Pending, UNCHANGED <<conn, mainVars>>, pc'["main"] = pc["main"],
              pc["main"] # "connect",
              messages_' \in Seq({Expected}), buffer' \in Seq({Expected}),
              toClient' \in Seq({Expected}), toServer' \in Seq({Expected}),
              banner' = banner \/ (banner = "due" /\ banner' = "sent")
       PROVE  Flow' /\ Fed'
  <2>1. Expected' = Expected
    BY <1>11 DEF Expected
  <2>2. QED BY <1>11, <2>1 DEF Flow, Fed
<1>12. CASE RxRead
  <2>1. /\ UNCHANGED <<conn, mainVars, messages_, toServer, banner>> /\ pc'["main"] = pc["main"]
        /\ toClient # << >> /\ buffer' = <<Head(toClient)>> /\ toClient' = Tail(toClient)
        /\ pc["main"] # "connect" /\ buffer = << >>
    BY <1>12 DEF RxRead, Start
  <2>2. /\ Head(toClient) \in {Expected} /\ Tail(toClient) \in Seq({Expected})
        /\ Len(Tail(toClient)) = Len(toClient) - 1
    BY <2>1, SeqFacts DEF Flow
  <2>3. buffer' \in Seq({Expected}) /\ Len(buffer') = 1
    BY <2>1, <2>2
  <2>4. Pending' = Pending
    <3>1. /\ Len(toClient') = Len(toClient) - 1 /\ Len(buffer) = 0
          /\ Len(messages_') = Len(messages_) /\ Len(toServer') = Len(toServer)
      BY <1>len, <2>1, <2>2
    <3>2. QED BY <1>len, <2>1, <2>3, <3>1 DEF Pending
  <2>5. QED BY <1>11, <2>1, <2>2, <2>3, <2>4 DEF Flow
<1>13. CASE RxPush
  <2>1. /\ UNCHANGED <<conn, mainVars, toClient, toServer, banner>> /\ pc'["main"] = pc["main"]
        /\ messages_' = messages_ \o buffer /\ buffer' = << >>
        /\ pc["main"] # "connect"
    BY <1>13 DEF RxPush, Start
  <2>2. messages_' \in Seq({Expected}) /\ Len(messages_') = Len(messages_) + Len(buffer)
    BY <2>1 DEF Flow
  <2>3. buffer' \in Seq({Expected}) /\ Len(buffer') = 0
    BY <2>1
  <2>4. Pending' = Pending
    <3>1. /\ Len(messages_') = Len(messages_) + Len(buffer) /\ Len(buffer') = 0
          /\ Len(toServer') = Len(toServer) /\ Len(toClient') = Len(toClient) /\ banner' = banner
      BY <2>1, <2>2, <2>3
    <3>2. CASE banner = "due"
      BY <1>len, <3>1, <3>2 DEF Pending
    <3>3. CASE banner # "due"
      BY <1>len, <3>1, <3>3 DEF Pending
    <3>4. QED BY <3>2, <3>3
  <2>5. QED BY <1>11, <2>1, <2>2, <2>3, <2>4 DEF Flow
<1>14. CASE Greet
  <2>1. /\ UNCHANGED <<conn, mainVars, messages_, buffer, toServer>> /\ pc' = pc
        /\ banner = "due" /\ banner' = "sent" /\ toClient' = Append(toClient, Banner)
        /\ pc["main"] # "connect"
    BY <1>14 DEF Greet, Start
  <2>2. Banner = Expected
    BY <2>1 DEF Flow, Expected
  <2>3. toClient' \in Seq({Expected}) /\ Len(toClient') = Len(toClient) + 1
    BY <2>1, <2>2, SeqFacts DEF Flow
  <2>4. Pending' = Pending
    <3>1. /\ Len(messages_') = Len(messages_) /\ Len(buffer') = Len(buffer)
          /\ Len(toServer') = Len(toServer)
      BY <2>1
    <3>2. QED BY <1>len, <2>1, <2>3, <3>1 DEF Pending
  <2>5. QED BY <1>11, <2>1, <2>3, <2>4 DEF Flow
<1>15. CASE Echo
  <2>1. /\ UNCHANGED <<conn, mainVars, messages_, buffer, banner>> /\ pc' = pc
        /\ toServer # << >> /\ toServer' = Tail(toServer)
        /\ toClient' = Append(toClient, Head(toServer))
        /\ pc["main"] # "connect"
    BY <1>15 DEF Echo, Start
  <2>2. /\ Head(toServer) \in {Expected} /\ toServer' \in Seq({Expected})
        /\ Len(toServer') = Len(toServer) - 1
    BY <2>1, SeqFacts DEF Flow
  <2>3. toClient' \in Seq({Expected}) /\ Len(toClient') = Len(toClient) + 1
    BY <2>1, <2>2, SeqFacts DEF Flow
  <2>4. Pending' = Pending
    <3>1. /\ Len(messages_') = Len(messages_) /\ Len(buffer') = Len(buffer) /\ banner' = banner
          /\ Len(toServer') = Len(toServer) - 1 /\ Len(toClient') = Len(toClient) + 1
      BY <2>1, <2>2, <2>3
    <3>2. CASE banner = "due"
      BY <1>len, <3>1, <3>2 DEF Pending
    <3>3. CASE banner # "due"
      BY <1>len, <3>1, <3>3 DEF Pending
    <3>4. QED BY <3>2, <3>3
  <2>5. QED BY <1>11, <2>1, <2>2, <2>3, <2>4 DEF Flow
<1>16. CASE Drop
  BY <1>2, <1>16 DEF Drop
<1>17. CASE UNCHANGED vars
  BY <1>2, <1>17 DEF vars
<1>18. QED BY <1>1, <1>4, <1>5, <1>6, <1>7, <1>8, <1>9, <1>10, <1>12, <1>13, <1>14, <1>15,
              <1>16, <1>17
       DEF Next, getResponse, close, receiveContinuous

-----------------------------------------------------------------------------
\* The invariant holds in every state.
LEMMA Invariance == Spec => []IInv
<1>1. IInv /\ [Next]_vars => IInv'
  BY NextTypes, NextMutex, NextFlow DEF IInv
<1>2. QED BY InitInv, <1>1, PTL DEF Spec

\* The queue is used under the mutex only, by one thread at a time.
THEOREM MutualExclusion == Spec => []MutexHeld
<1>1. IInv => MutexHeld
  BY DEF IInv
<1>2. QED BY Invariance, <1>1, PTL

\* Main never sleeps on a queue with a message in it that nobody will notify it of.
THEOREM WakeupsArrive == Spec => []NoLostWakeup
<1>1. IInv => NoLostWakeup
  BY DEF IInv
<1>2. QED BY Invariance, <1>1, PTL

\* getResponse waits in vain only where main has asked for nothing.
THEOREM NeverInVain == Spec => []WaitsForSomething
<1>1. IInv => WaitsForSomething
  BY DEF IInv, Fed, WaitsForSomething, InGetResponse, Waiting
<1>2. QED BY Invariance, <1>1, PTL

\* Each reply is the echo of its request, of the same kind.
THEOREM RepliesAnswer == Spec => []RepliesMatch
<1>1. IInv => RepliesMatch
  BY DEF IInv, Types, Flow, RepliesMatch, Expected, Waiting
<1>2. QED BY Invariance, <1>1, PTL

\* The types hold, and the unbounded messages_ never holds more than one message.
THEOREM TypeCorrect == Spec => []TypeOK
<1>1. IInv => TypeOK
  <2> SUFFICES ASSUME IInv PROVE TypeOK
    OBVIOUS
  <2>1. Expected \in Frames
    BY MaxRequestsAssumption DEF IInv, Types, Expected, Frames, Frame, Banner
  <2>2. \A s \in Seq({Expected}) : s \in Seq(Frames)
    BY <2>1
  <2>3. Len(messages_) + Len(buffer) <= 1
    BY Lengths DEF IInv, Flow, Pending
  <2>4. QED BY <2>2, <2>3 DEF IInv, Types, Flow, TypeOK
<1>2. QED BY Invariance, <1>1, PTL

-----------------------------------------------------------------------------
(* close() and the receiver that it joins *)

\* While main is in join(), the receiver can go on wherever it is: a read from a closed
\* stream throws, and main does not hold the mutex.
NotBlocked ==
  pc["main"] = "join" => conn = "closed" /\ (pc["rx"] = "lock" => mutex_ = "none")

\* How many steps the receiver is from its end once the stream is closed.
Left(place) == CASE place \in {"none", "done"} -> 0
                 [] place \in {"open", "read"} -> 1
                 [] place = "unlock" -> 2
                 [] place = "notify" -> 3
                 [] place = "push" -> 4
                 [] place = "lock" -> 5

\* While main is in join(), every step of the receiver brings it nearer to its end: it
\* reads nothing more.
JoinAdvances ==
  [][pc["main"] = "join" /\ pc'["rx"] # pc["rx"] => Left(pc'["rx"]) < Left(pc["rx"])]_vars

\* The stream that close() has closed stays closed.
Closed == pc["main"] = "join" => conn = "closed"

\* Every step keeps it.
LEMMA NextClosed == Types /\ Closed /\ [Next]_vars => Closed'
<1> SUFFICES ASSUME Types, Closed, [Next]_vars PROVE Closed'
  OBVIOUS
<1> USE DEF Closed, Types, Threads, At, Goto, Local, End, Throws
<1>1. CASE Connect \/ ConnectThrows \/ getResponse \/ SpuriousWakeup
  BY <1>1 DEF Connect, ConnectThrows, getResponse, Lock, Test, SpuriousWakeup
<1>2. ASSUME NEW isText \in BOOLEAN, Send(isText) PROVE Closed'
  BY <1>2 DEF Send
<1>3. CASE SendThrows \/ Unknown \/ EndOfInput \/ Exit
  BY <1>3 DEF SendThrows, Unknown, EndOfInput, Exit
<1>4. CASE close
  BY <1>4 DEF close, Close, CloseThrows, Join
<1>5. CASE receiveContinuous
  BY <1>5 DEF receiveContinuous, RxOpen, RxRead, RxReadThrows, RxLock, Lock, RxPush, RxNotify,
              RxUnlock
<1>6. CASE Greet \/ Echo \/ Drop \/ UNCHANGED vars
  BY <1>6 DEF Greet, Echo, Drop, vars
<1> QED BY <1>1, <1>2, <1>3, <1>4, <1>5, <1>6 DEF Next

\* It holds from the start.
LEMMA ClosedInvariance == Spec => []Closed
<1>1. Init => Closed
  BY DEF Init, Closed, Threads
<1>2. IInv /\ Closed /\ [Next]_vars => Closed'
  BY NextClosed DEF IInv
<1>3. QED BY <1>1, <1>2, Invariance, PTL DEF Spec

\* close() does not wait for a receiver that waits for it: neither for a message of the
\* server nor for the mutex.
THEOREM JoinIsNotBlocked == Spec => []NotBlocked
<1>1. IInv /\ Closed => NotBlocked
  BY DEF IInv, Types, MutexHeld, Closed, NotBlocked
<1>2. QED BY <1>1, Invariance, ClosedInvariance, PTL

\* And receiveContinuous() is then at most five steps from its end.
THEOREM ReceiverIsEnding == Spec => JoinAdvances
<1>1. IInv /\ Closed /\ [Next]_vars =>
        [pc["main"] = "join" /\ pc'["rx"] # pc["rx"] => Left(pc'["rx"]) < Left(pc["rx"])]_vars
  <2> SUFFICES ASSUME IInv, Closed, Next, pc["main"] = "join", pc'["rx"] # pc["rx"]
               PROVE  Left(pc'["rx"]) < Left(pc["rx"])
    OBVIOUS
  <2> USE DEF IInv, Types, Threads, At, Goto, Local, End, Throws
  <2>1. receiveContinuous
    BY DEF Next, Connect, ConnectThrows, getResponse, Lock, Test, SpuriousWakeup, Send,
           SendThrows, Unknown, EndOfInput, Exit, close, Close, CloseThrows, Join, Greet, Echo,
           Drop
  <2>2. \/ pc["rx"] \in {"open", "read"} /\ pc'["rx"] = "done"
        \/ pc["rx"] = "lock" /\ pc'["rx"] = "push"
        \/ pc["rx"] = "push" /\ pc'["rx"] = "notify"
        \/ pc["rx"] = "notify" /\ pc'["rx"] = "unlock"
        \/ pc["rx"] = "unlock" /\ pc'["rx"] = "open"
    BY <2>1 DEF Closed, receiveContinuous, RxOpen, RxRead, RxReadThrows, RxLock, Lock, RxPush,
       RxNotify, RxUnlock
  <2>3. QED BY <2>2 DEF Left
<1>2. QED BY <1>1, Invariance, ClosedInvariance, PTL DEF Spec, JoinAdvances
=============================================================================
