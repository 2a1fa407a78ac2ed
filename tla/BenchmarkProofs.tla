-------------------------- MODULE BenchmarkProofs --------------------------
(***************************************************************************)
(* Proofs about Benchmark, for any numbers of messages and sizes, any      *)
(* queue that holds more than a burst and any durations.                   *)
(*                                                                         *)
(* NothingDropped is not inductive: that there is room in the queue when a *)
(* reply comes depends on how many replies can come.  The invariant counts *)
(* what is under way in either direction or queued: not more than main has *)
(* still to fetch, by its own loop counters, and one more if the welcome   *)
(* message was not there when main() looked for it.  Outside the burst     *)
(* this leaves at most one message, the one that was sent last, so the     *)
(* same count carries TrueRtt.                                             *)
(***************************************************************************)
EXTENDS Benchmark, LatencyStatsProofs, SequenceTheorems, TLAPS

-----------------------------------------------------------------------------
(* The scenarios *)

\* What a scenario can be.
Kinds == [burst : BOOLEAN, n : Nat]

\* The burst sends kBenchmarkMessages, any other scenario some number of messages.
LEMMA ScenarioFacts ==
  /\ Len(Scenarios) \in Nat \ {0}
  /\ \A s \in 1 .. Len(Scenarios) :
       /\ Scenarios[s].burst \in BOOLEAN /\ Scenarios[s].n \in Nat
       /\ Scenarios[s].burst => Scenarios[s].n = kBenchmarkMessages
<1> DEFINE K == {k \in Kinds : k.burst => k.n = kBenchmarkMessages}
           fixed == <<Rtt(kBenchmarkMessages), Burst(kBenchmarkMessages),
                      Rtt(kWarmupMessages), Rtt(kBenchmarkMessages)>>
           sizes == [z \in 1 .. Sizes |-> Rtt(kMessagesPerSize)]
<1>1. /\ Rtt(kBenchmarkMessages) \in K /\ Burst(kBenchmarkMessages) \in K
      /\ Rtt(kWarmupMessages) \in K /\ Rtt(kMessagesPerSize) \in K
  BY BurstAssumption, CountAssumption DEF Rtt, Burst, Kinds
<1> HIDE DEF K
<1>2. fixed \in Seq(K) /\ Len(fixed) = 4
  BY <1>1
<1>3. sizes \in Seq(K)
  BY <1>1, CountAssumption
<1> HIDE DEF fixed, sizes
<1>4. fixed \o sizes \in Seq(K) /\ Len(fixed \o sizes) \in Nat \ {0}
  <2>1. Len(sizes) \in Nat
    BY <1>3
  <2>2. fixed \o sizes \in Seq(K) /\ Len(fixed \o sizes) = Len(fixed) + Len(sizes)
    BY <1>2, <1>3, ConcatProperties
  <2> QED BY <1>2, <2>1, <2>2
<1>5. Scenarios = fixed \o sizes
  BY DEF Scenarios, fixed, sizes
<1>6. \A s \in 1 .. Len(Scenarios) : Scenarios[s] \in K
  BY <1>4, <1>5
<1> QED BY <1>4, <1>5, <1>6 DEF K, Kinds

-----------------------------------------------------------------------------
(* The inductive invariant *)

\* How many messages are under way or queued.
UnderWay == Len(toServer) + Len(toClient) + Len(queue_)

\* The replies that main has still to fetch, by its own count.
Outstanding == IF Scenarios[scenario].burst THEN i - received
               ELSE IF pc = "spin" THEN 1 ELSE 0

\* The welcome message comes as a reply, or has displaced one.
Late == welcome = "sent" /\ ~early

\* The types of what the invariant is about.
Types ==
  /\ queue_ \in Seq(Nat) /\ toServer \in Seq(Nat) /\ toClient \in Seq(Nat)
  /\ pc \in {"welcome", "send", "spin"} /\ sent \in Nat
  /\ scenario \in 1 .. Len(Scenarios)
  /\ i \in Nat /\ received \in Nat
  /\ early \in BOOLEAN

\* The loop counters, and the count of the messages.
Counts ==
  /\ i <= num_messages /\ received <= i
  /\ pc = "welcome" => i = 0
  /\ pc = "spin" => ~Scenarios[scenario].burst
  /\ early => welcome = "sent"
  /\ UnderWay <= Outstanding + (IF Late THEN 1 ELSE 0)

\* While main waits for a reply, only that reply can come.
Fresh == pc = "spin" /\ ~Late => /\ queue_ \in Seq({sent}) /\ toClient \in Seq({sent})
                                /\ toServer \in Seq({sent})

IInv == Types /\ Counts /\ Fresh /\ ~dropped

-----------------------------------------------------------------------------
(* Every action keeps it *)

\* What the actions do with a queue.
LEMMA SeqFacts ==
  ASSUME NEW S, NEW s \in Seq(S)
  PROVE  /\ Len(s) \in Nat /\ (s = << >> <=> Len(s) = 0)
         /\ s # << >> => Head(s) \in S /\ Tail(s) \in Seq(S) /\ Len(Tail(s)) = Len(s) - 1
         /\ \A e \in S : Append(s, e) \in Seq(S) /\ Len(Append(s, e)) = Len(s) + 1
<1>1. Len(s) \in Nat /\ (s = << >> <=> Len(s) = 0)
  OBVIOUS
<1>2. s # << >> => Head(s) \in S /\ Tail(s) \in Seq(S) /\ Len(Tail(s)) = Len(s) - 1
  OBVIOUS
<1>3. \A e \in S : Append(s, e) \in Seq(S) /\ Len(Append(s, e)) = Len(s) + 1
  OBVIOUS
<1> QED BY <1>1, <1>2, <1>3

\* Nothing is under way when main() has connected.
LEMMA IInvInit == ASSUME Init PROVE IInv
<1>1. Len(queue_) = 0 /\ Len(toServer) = 0 /\ Len(toClient) = 0
  BY DEF Init
<1>2. Types
  <2>1. << >> \in Seq(Nat) /\ 1 \in 1 .. Len(Scenarios)
    BY ScenarioFacts
  <2> QED BY <2>1 DEF Init, Types
<1>3. Counts
  <2>1. num_messages \in Nat
    BY <1>2, ScenarioFacts DEF num_messages, Types
  <2>2. i <= num_messages /\ received <= i /\ i = 0 /\ pc # "spin" /\ ~Late /\ ~early
    BY <2>1 DEF Init, Late
  <2>3. UnderWay = 0 /\ Outstanding = 0
    BY <1>1, <1>2 DEF Init, UnderWay, Outstanding
  <2> QED BY <2>2, <2>3 DEF Counts
<1> QED BY <1>2, <1>3 DEF IInv, Init, Fresh

\* The numbers that the counts are made of.
LEMMA Lengths ==
  ASSUME Types
  PROVE  /\ Len(queue_) \in Nat /\ Len(toServer) \in Nat /\ Len(toClient) \in Nat
         /\ UnderWay \in Nat /\ num_messages \in Nat
         /\ Scenarios[scenario].burst => num_messages = kBenchmarkMessages
<1>1. Len(queue_) \in Nat /\ Len(toServer) \in Nat /\ Len(toClient) \in Nat
  BY SeqFacts DEF Types
<1>2. UnderWay \in Nat
  BY <1>1 DEF UnderWay
<1> QED BY <1>1, <1>2, ScenarioFacts DEF num_messages, Types

\* A step that moves no message.
LEMMA Idle ==
  ASSUME IInv, UNCHANGED <<toServer, toClient, welcome, queue_, dropped, pc, loopVars, early>>
  PROVE  IInv'
BY DEF IInv, Types, Counts, Fresh, UnderWay, Outstanding, Late, num_messages, loopVars

\* What try_receive finds before the first scenario can only be the welcome message.
LEMMA WelcomeStep == ASSUME IInv, Welcome PROVE IInv'
<1>1. /\ pc = "welcome" /\ pc' = "send"
      /\ UNCHANGED <<toServer, toClient, welcome, dropped, scenario, i, received, sent>>
      /\ \/ UNCHANGED <<queue_, early>>
         \/ queue_ # << >> /\ queue_' = Tail(queue_) /\ early' = TRUE
  BY DEF Welcome, At, netVars, loopVars
<1>2. queue_ # << >> => Tail(queue_) \in Seq(Nat) /\ Len(Tail(queue_)) = Len(queue_) - 1
  BY SeqFacts DEF IInv, Types
<1>3. Types'
  BY <1>1, <1>2 DEF IInv, Types
<1>4. Counts'
  <2>1. Outstanding' = 0 /\ Outstanding = 0 /\ num_messages' = num_messages
    BY <1>1 DEF Outstanding, num_messages, IInv, Counts, Types
  <2>2. CASE UNCHANGED <<queue_, early>>
    BY <1>1, <2>1, <2>2 DEF IInv, Counts, UnderWay, Late
  <2>3. CASE queue_ # << >> /\ queue_' = Tail(queue_) /\ early' = TRUE
    <3>1. UnderWay' = UnderWay - 1 /\ UnderWay >= 1 /\ UnderWay \in Nat
      BY <1>1, <1>2, <2>3, Lengths, SeqFacts DEF UnderWay, IInv, Types
    <3>2. Late /\ UnderWay' = 0
      BY <2>1, <3>1 DEF IInv, Counts
    <3> QED BY <1>1, <2>1, <2>3, <3>2 DEF IInv, Counts, Late
  <2> QED BY <1>1, <2>2, <2>3
<1> QED BY <1>1, <1>3, <1>4 DEF IInv, Fresh

\* send_text: one message more is under way, and one more is to be fetched.
LEMMA SendStep == ASSUME IInv, Send PROVE IInv'
<1>1. /\ pc = "send" /\ pc' = IF Scenarios[scenario].burst THEN "send" ELSE "spin"
      /\ i < num_messages /\ i' = i + 1 /\ sent' = sent + 1
      /\ toServer' = IF conn = "up" THEN Append(toServer, sent + 1) ELSE toServer
      /\ UNCHANGED <<toClient, welcome, queue_, dropped, scenario, received, early>>
  BY DEF Send, At
<1>2. sent + 1 \in Nat /\ i + 1 \in Nat
  BY DEF IInv, Types
<1>3. /\ toServer' \in Seq(Nat) /\ Len(toServer') <= Len(toServer) + 1
      /\ Len(toServer') \in Nat
  BY <1>1, <1>2, SeqFacts DEF IInv, Types
<1>4. Types'
  BY <1>1, <1>2, <1>3 DEF IInv, Types
<1>5. Outstanding' = Outstanding + 1 /\ Outstanding \in Int
  BY <1>1 DEF Outstanding, IInv, Types
<1>6. UnderWay' <= UnderWay + 1 /\ UnderWay \in Nat /\ UnderWay' \in Nat
  BY <1>1, <1>3, Lengths DEF UnderWay, IInv
<1>7. Counts'
  <2>1. num_messages' = num_messages /\ num_messages \in Nat /\ i \in Nat /\ received \in Nat
    BY <1>1, Lengths DEF num_messages, IInv, Types
  <2>2. i' <= num_messages' /\ received' <= i'
    BY <1>1, <2>1 DEF IInv, Counts
  <2>3. Late' <=> Late
    BY <1>1 DEF Late
  <2>4. UnderWay' <= Outstanding' + (IF Late' THEN 1 ELSE 0)
    BY <1>5, <1>6, <2>3 DEF IInv, Counts
  <2> QED BY <1>1, <2>2, <2>4 DEF IInv, Counts
<1>8. Fresh'
  <2> SUFFICES ASSUME ~Scenarios[scenario].burst, ~Late
               PROVE  /\ queue_' \in Seq({sent'}) /\ toClient' \in Seq({sent'})
                      /\ toServer' \in Seq({sent'})
    BY <1>1 DEF Fresh, Late
  <2>1. UnderWay = 0
    BY <1>1, <1>6 DEF IInv, Counts, Outstanding
  <2>2. queue_ = << >> /\ toClient = << >> /\ toServer = << >>
    BY <2>1, Lengths, SeqFacts DEF UnderWay, IInv, Types
  <2>3. \A e : << >> \in Seq({e}) /\ Append(<< >>, e) \in Seq({e})
    OBVIOUS
  <2> QED BY <1>1, <2>2, <2>3
<1> QED BY <1>1, <1>4, <1>7, <1>8 DEF IInv

\* spin_receive and the loop that drains the burst fetch one message.
LEMMA FetchStep ==
  ASSUME IInv, SpinReceive \/ Drain
  PROVE  IInv'
<1>1. /\ queue_ # << >> /\ queue_' = Tail(queue_) /\ pc' = "send"
      /\ UNCHANGED <<toServer, toClient, welcome, dropped, scenario, i, sent, early>>
      /\ \/ pc = "spin" /\ received' = received
         \/ /\ pc = "send" /\ Scenarios[scenario].burst
            /\ received < i /\ received' = received + 1
  BY DEF SpinReceive, Drain, At, netVars, loopVars
<1>2. queue_' \in Seq(Nat) /\ Len(queue_') = Len(queue_) - 1
  BY <1>1, SeqFacts DEF IInv, Types
<1>3. Types'
  BY <1>1, <1>2 DEF IInv, Types
<1>4. Outstanding' = Outstanding - 1 /\ Outstanding \in Int
  BY <1>1 DEF Outstanding, IInv, Types, Counts
<1>5. UnderWay' = UnderWay - 1 /\ UnderWay \in Nat
  BY <1>1, <1>2, Lengths DEF UnderWay, IInv
<1>6. Counts'
  <2>1. num_messages' = num_messages /\ (Late' <=> Late)
    BY <1>1 DEF num_messages, Late
  <2>2. UnderWay' <= Outstanding' + (IF Late' THEN 1 ELSE 0)
    BY <1>4, <1>5, <2>1 DEF IInv, Counts
  <2>3. received' <= i'
    BY <1>1 DEF IInv, Types, Counts
  <2> QED BY <1>1, <2>1, <2>2, <2>3 DEF IInv, Counts
<1> QED BY <1>1, <1>3, <1>6 DEF IInv, Fresh

\* A scenario ends when main has fetched as many messages as it has sent.
LEMMA FinishedStep == ASSUME IInv, Finished PROVE IInv'
<1>1. /\ pc = "send" /\ i >= num_messages /\ (Scenarios[scenario].burst => received = num_messages)
      /\ i' = 0 /\ received' = 0
      /\ scenario' = IF scenario < Len(Scenarios) THEN scenario + 1 ELSE scenario
      /\ UNCHANGED <<toServer, toClient, welcome, queue_, dropped, pc, sent, early>>
  BY DEF Finished, At
<1>2. Types'
  BY <1>1, ScenarioFacts DEF IInv, Types
<1>3. Outstanding = 0
  BY <1>1, Lengths DEF Outstanding, IInv, Types, Counts
<1>4. Outstanding' = 0
  BY <1>1 DEF Outstanding
<1>5. Counts'
  <2>1. num_messages' \in Nat
    BY <1>2, ScenarioFacts DEF num_messages, Types
  <2> QED BY <1>1, <1>3, <1>4, <2>1 DEF IInv, Counts, UnderWay, Late
<1> QED BY <1>1, <1>2, <1>5 DEF IInv, Fresh

\* receive_loop finds room in the queue, as the message it has read is under way too.
LEMMA ReceiveStep == ASSUME IInv, Receive PROVE IInv'
<1>1. /\ toClient # << >> /\ toClient' = Tail(toClient)
      /\ UNCHANGED <<toServer, welcome, pc, scenario, i, received, sent, early>>
  BY DEF Receive, loopVars
<1>2. /\ Head(toClient) \in Nat /\ toClient' \in Seq(Nat)
      /\ Len(toClient') = Len(toClient) - 1 /\ Len(toClient) >= 1
  BY <1>1, SeqFacts DEF IInv, Types
<1>3. Len(queue_) < QueueSize
  <2>1. Outstanding <= kBenchmarkMessages
    BY Lengths, BurstAssumption DEF Outstanding, IInv, Types, Counts
  <2>2. Len(queue_) + 1 <= UnderWay
    BY <1>2, Lengths DEF UnderWay, IInv
  <2>3. UnderWay <= kBenchmarkMessages + 1 /\ Outstanding \in Int
    BY <2>1, BurstAssumption, Lengths DEF IInv, Counts, Outstanding, Types
  <2> QED BY <2>2, <2>3, BurstAssumption, Lengths DEF IInv
<1>4. queue_' = Append(queue_, Head(toClient)) /\ dropped' = dropped
  BY <1>3 DEF Receive
<1>5. queue_' \in Seq(Nat) /\ Len(queue_') = Len(queue_) + 1
  BY <1>2, <1>4, SeqFacts DEF IInv, Types
<1>6. UnderWay' = UnderWay
  BY <1>1, <1>2, <1>5, Lengths DEF UnderWay, IInv
<1>7. Types' /\ Counts'
  BY <1>1, <1>2, <1>5, <1>6 DEF IInv, Types, Counts, Outstanding, Late, num_messages
<1>8. Fresh'
  BY <1>1, <1>4, SeqFacts DEF IInv, Fresh, Late
<1> QED BY <1>4, <1>7, <1>8 DEF IInv

\* The server sends back the message it takes.
LEMMA EchoStep == ASSUME IInv, Echo PROVE IInv'
<1>1. /\ toServer # << >> /\ toServer' = Tail(toServer)
      /\ toClient' = Append(toClient, Head(toServer))
      /\ UNCHANGED <<welcome, queue_, dropped, pc, scenario, i, received, sent, early>>
  BY DEF Echo, Server, loopVars
<1>2. /\ Head(toServer) \in Nat /\ toServer' \in Seq(Nat) /\ Len(toServer') = Len(toServer) - 1
  BY <1>1, SeqFacts DEF IInv, Types
<1>3. toClient' \in Seq(Nat) /\ Len(toClient') = Len(toClient) + 1
  BY <1>1, <1>2, SeqFacts DEF IInv, Types
<1>4. UnderWay' = UnderWay
  BY <1>1, <1>2, <1>3, Lengths DEF UnderWay, IInv
<1>5. Types' /\ Counts'
  BY <1>1, <1>2, <1>3, <1>4 DEF IInv, Types, Counts, Outstanding, Late, num_messages
<1>6. Fresh'
  BY <1>1, SeqFacts DEF IInv, Fresh, Late
<1> QED BY <1>1, <1>5, <1>6 DEF IInv

\* The server greets once.
LEMMA GreetStep == ASSUME IInv, Greet PROVE IInv'
<1>1. /\ welcome = "due" /\ welcome' = "sent" /\ toClient' = Append(toClient, 0)
      /\ UNCHANGED <<toServer, queue_, dropped, pc, scenario, i, received, sent, early>>
  BY DEF Greet, Server, loopVars
<1>2. ~early /\ ~Late /\ Late'
  BY <1>1 DEF IInv, Counts, Late, Types
<1>3. toClient' \in Seq(Nat) /\ Len(toClient') = Len(toClient) + 1
  BY <1>1, SeqFacts DEF IInv, Types
<1>4. UnderWay' = UnderWay + 1 /\ UnderWay \in Nat
  BY <1>1, <1>3, Lengths DEF UnderWay, IInv
<1>5. Outstanding' = Outstanding /\ Outstanding \in Int /\ num_messages' = num_messages
  BY <1>1 DEF IInv, Types, Outstanding, num_messages
<1>6. UnderWay' <= Outstanding' + (IF Late' THEN 1 ELSE 0)
  BY <1>2, <1>4, <1>5 DEF IInv, Counts
<1>7. Types' /\ Counts'
  BY <1>1, <1>2, <1>3, <1>5, <1>6 DEF IInv, Types, Counts
<1> QED BY <1>1, <1>2, <1>7 DEF IInv, Fresh

\* Whatever happens, the invariant is kept.
LEMMA IInvStep == ASSUME IInv, [Next]_vars PROVE IInv'
<1>1. CASE SendThrows \/ ReadFails \/ Drop \/ UNCHANGED vars
  BY <1>1, Idle DEF SendThrows, ReadFails, Drop, vars, netVars
<1> QED BY <1>1, WelcomeStep, SendStep, FetchStep, FinishedStep, ReceiveStep, EchoStep,
           GreetStep DEF Next, main

-----------------------------------------------------------------------------
(* Theorems *)

\* The inductive invariant holds throughout the benchmark.
THEOREM Invariance == Spec => []IInv
<1> QED BY IInvInit, IInvStep, PTL DEF Spec

\* receive_loop never drops a message of the benchmark, so that the burst of
\* benchmark_throughput, which waits for num_messages replies without an end, cannot
\* lose one to a full queue.
THEOREM QueueSuffices == Spec => []NothingDropped
<1>1. IInv => NothingDropped
  BY DEF IInv, NothingDropped
<1> QED BY <1>1, Invariance, PTL

\* benchmark_sequential_rtt and the others of its kind record the round-trip time of
\* the very message they have sent, unless the welcome message came late.
THEOREM RttIsTrue == Spec => TrueRtt
<1>1. IInv /\ [Next]_vars =>
        [samples_ns_' # samples_ns_ /\ samples_ns_' # << >> =>
           Head(queue_) = sent \/ (welcome = "sent" /\ ~early)]_vars
  <2> SUFFICES ASSUME IInv, Next, samples_ns_' # samples_ns_, samples_ns_' # << >>, ~Late
               PROVE  Head(queue_) = sent
    BY DEF Late
  <2>1. SpinReceive
    BY DEF Next, main, Welcome, Send, SendThrows, Drain, Finished, Receive, ReadFails, Echo, Greet,
           Server, Drop
  <2> QED BY <2>1, SeqFacts DEF IInv, Fresh, SpinReceive, At
<1> QED BY <1>1, Invariance, PTL DEF Spec, TrueRtt

\* Main waits: spin_receive, or the loop that drains the burst.
Waiting ==
  \/ pc = "spin"
  \/ pc = "send" /\ Scenarios[scenario].burst /\ i = num_messages /\ received < num_messages

\* What main waits for is with the server, under way or queued.
Fed == conn = "up" /\ Waiting => toServer # << >> \/ toClient # << >> \/ queue_ # << >>

\* As long as the connection is up, no reply is missing.
Complete == conn = "up" => UnderWay >= Outstanding

\* A message leaves the count only when main fetches it.
LEMMA CompleteStep == ASSUME IInv, IInv', Complete, [Next]_vars PROVE Complete'
<1> SUFFICES ASSUME conn' = "up" PROVE UnderWay' >= Outstanding'
  BY DEF Complete
<1>1. conn = "up"
  BY DEF Next, main, Welcome, Send, SendThrows, SpinReceive, Drain, Finished, Receive, ReadFails,
         Echo, Greet, Server, Drop, netVars, vars
<1>2. UnderWay >= Outstanding /\ UnderWay \in Nat
  BY <1>1, Lengths DEF Complete, IInv
<1> UnderWay' \in Nat
  <2>1. queue_' \in Seq(Nat) /\ toServer' \in Seq(Nat) /\ toClient' \in Seq(Nat)
    BY DEF IInv, Types
  <2>2. Len(queue_') \in Nat /\ Len(toServer') \in Nat /\ Len(toClient') \in Nat
    BY <2>1, SeqFacts
  <2> QED BY <2>2 DEF UnderWay
<1>3. CASE Welcome
  <2>1. Outstanding' = 0
    BY <1>3 DEF Welcome, At, loopVars, Outstanding, IInv, Counts, Types
  <2> QED BY <1>2, <2>1
<1>4. CASE Send
  <2>1. /\ toServer' = Append(toServer, sent + 1) /\ UNCHANGED <<toClient, queue_>>
        /\ pc = "send" /\ pc' = IF Scenarios[scenario].burst THEN "send" ELSE "spin"
        /\ i' = i + 1 /\ UNCHANGED <<scenario, received>>
    BY <1>1, <1>4 DEF Send, At
  <2>2. Len(toServer') = Len(toServer) + 1
    BY <2>1, SeqFacts DEF IInv, Types
  <2>3. UnderWay' = UnderWay + 1
    BY <2>1, <2>2, Lengths DEF UnderWay, IInv
  <2>4. Outstanding' = Outstanding + 1 /\ Outstanding \in Int
    BY <2>1 DEF Outstanding, IInv, Types
  <2> QED BY <1>2, <2>3, <2>4
<1>5. CASE SpinReceive \/ Drain
  <2>1. /\ queue_ # << >> /\ queue_' = Tail(queue_) /\ UNCHANGED <<toServer, toClient>>
        /\ pc' = "send" /\ UNCHANGED <<scenario, i>>
        /\ \/ pc = "spin" /\ received' = received
           \/ pc = "send" /\ Scenarios[scenario].burst /\ received' = received + 1
    BY <1>5 DEF SpinReceive, Drain, At, netVars, loopVars
  <2>2. Len(queue_') = Len(queue_) - 1
    BY <2>1, SeqFacts DEF IInv, Types
  <2>3. UnderWay' = UnderWay - 1
    BY <2>1, <2>2, Lengths DEF UnderWay, IInv
  <2>4. i \in Nat /\ received \in Nat /\ (pc = "spin" => ~Scenarios[scenario].burst)
    BY DEF IInv, Types, Counts
  <2>5. Outstanding' = Outstanding - 1 /\ Outstanding \in Int
    BY <2>1, <2>4 DEF Outstanding
  <2> QED BY <1>2, <2>3, <2>5
<1>6. CASE Finished
  <2>1. Outstanding' = 0
    BY <1>6 DEF Finished, At, Outstanding
  <2> QED BY <1>2, <2>1
<1>7. CASE Receive
  <2>1. /\ toClient # << >> /\ toClient' = Tail(toClient)
        /\ queue_' = Append(queue_, Head(toClient))
        /\ UNCHANGED <<toServer, pc, scenario, i, received>>
    BY <1>7 DEF Receive, loopVars, IInv
  <2>2. /\ Head(toClient) \in Nat /\ Len(toClient') = Len(toClient) - 1
    BY <2>1, SeqFacts DEF IInv, Types
  <2>3. Len(queue_') = Len(queue_) + 1
    BY <2>1, <2>2, SeqFacts DEF IInv, Types
  <2>4. UnderWay' = UnderWay
    BY <2>1, <2>2, <2>3, Lengths DEF UnderWay, IInv
  <2> QED BY <1>2, <2>1, <2>4 DEF Outstanding
<1>8. CASE Echo
  <2>1. /\ toServer # << >> /\ toServer' = Tail(toServer)
        /\ toClient' = Append(toClient, Head(toServer))
        /\ UNCHANGED <<queue_, pc, scenario, i, received>>
    BY <1>8 DEF Echo, Server, loopVars
  <2>2. Head(toServer) \in Nat /\ Len(toServer') = Len(toServer) - 1
    BY <2>1, SeqFacts DEF IInv, Types
  <2>3. Len(toClient') = Len(toClient) + 1
    BY <2>1, <2>2, SeqFacts DEF IInv, Types
  <2>4. UnderWay' = UnderWay
    BY <2>1, <2>2, <2>3, Lengths DEF UnderWay, IInv
  <2> QED BY <1>2, <2>1, <2>4 DEF Outstanding
<1>9. CASE Greet
  <2>1. toClient' = Append(toClient, 0) /\ UNCHANGED <<toServer, queue_, pc, scenario, i, received>>
    BY <1>9 DEF Greet, Server, loopVars
  <2>2. Len(toClient') = Len(toClient) + 1
    BY <2>1, SeqFacts DEF IInv, Types
  <2>3. UnderWay' = UnderWay + 1 /\ Outstanding' = Outstanding /\ Outstanding \in Int
    BY <2>1, <2>2, Lengths DEF UnderWay, Outstanding, IInv, Types
  <2> QED BY <1>2, <2>3
<1>10. CASE SendThrows \/ ReadFails \/ Drop \/ UNCHANGED vars
  <2>1. UNCHANGED <<toServer, toClient, queue_, pc, scenario, i, received>>
    BY <1>10 DEF SendThrows, ReadFails, Drop, vars, netVars, loopVars
  <2> QED BY <1>2, <2>1 DEF UnderWay, Outstanding
<1> QED BY <1>3, <1>4, <1>5, <1>6, <1>7, <1>8, <1>9, <1>10 DEF Next, main

\* While the connection is up, neither spin_receive nor the loop that drains the burst
\* waits for a message that nobody has: the reply is with the server, on its way or in
\* the queue, even if the welcome message took the place of one.
THEOREM NeverStarved == Spec => []Fed
<1>1. Init => Complete
  <2> SUFFICES ASSUME Init PROVE UnderWay >= Outstanding
    BY DEF Complete
  <2>1. UnderWay \in Nat
    BY IInvInit, Lengths DEF IInv
  <2>2. Outstanding = 0
    BY DEF Init, Outstanding
  <2> QED BY <2>1, <2>2
<1>2. IInv /\ IInv' /\ Complete /\ [Next]_vars => Complete'
  BY CompleteStep
<1>3. IInv /\ Complete => Fed
  <2> SUFFICES ASSUME IInv, Complete, conn = "up", Waiting,
                      toServer = << >>, toClient = << >>, queue_ = << >>
               PROVE  FALSE
    BY DEF Fed
  <2>1. UnderWay = 0
    BY SeqFacts DEF UnderWay, IInv, Types
  <2>2. Outstanding >= 1
    BY Lengths DEF Waiting, Outstanding, IInv, Types, Counts
  <2>3. Outstanding \in Int
    BY DEF Outstanding, IInv, Types
  <2> QED BY <2>1, <2>2, <2>3 DEF Complete
<1> QED BY <1>1, <1>2, <1>3, Invariance, PTL DEF Spec

\* The samples, which a step extends, starts anew or leaves alone.
Recorded == samples_ns_ \in Seq(Nat)

\* stats.record is given durations only.
LEMMA RecordedStep == ASSUME Recorded, [Next]_vars PROVE Recorded'
<1>1. CASE SpinReceive
  BY <1>1, DurationAssumption, SeqFacts DEF SpinReceive, record, Recorded
<1>2. CASE Finished
  <2>1. << >> \in Seq(Nat)
    OBVIOUS
  <2> QED BY <1>2, <2>1 DEF Finished, Recorded
<1>3. CASE UNCHANGED samples_ns_
  BY <1>3 DEF Recorded
<1> QED BY <1>1, <1>2, <1>3 DEF Next, main, Welcome, Send, SendThrows, Drain, Receive, ReadFails,
                               Echo, Greet, Server, Drop, vars

\* Whatever has been recorded when print_report() is called, its percentiles, and the
\* p99 of the table of sizes, are percentiles of the samples by count.
THEOREM PercentilesAreByCount == Spec => []PercentilesByCount
<1>1. ASSUME Recorded PROVE PercentilesByCount
  <2> SUFFICES ASSUME samples_ns_ # << >>
               PROVE  LET sorted == Sorted(samples_ns_)
                          r == Report(sorted)
                      IN  /\ IsPercentile(samples_ns_, 500, r.med)
                          /\ IsPercentile(samples_ns_, 950, r.p95)
                          /\ IsPercentile(samples_ns_, 990, r.p99)
                          /\ IsPercentile(samples_ns_, 999, r.p999)
                          /\ IsPercentile(samples_ns_, 990, 1000 * sorted[p99_idx(sorted) + 1])
    BY DEF PercentilesByCount
  <2> DEFINE sorted == Sorted(samples_ns_)
             r == Report(sorted)
  <2>1. samples_ns_ \in Seq(Nat)
    BY <1>1 DEF Recorded
  <2>2. /\ r.med = Percentile(sorted, 500) /\ r.p95 = Percentile(sorted, 950)
        /\ r.p99 = Percentile(sorted, 990) /\ r.p999 = Percentile(sorted, 999)
    BY DEF Report
  <2>3. /\ IsPercentile(samples_ns_, 500, Percentile(sorted, 500))
        /\ IsPercentile(samples_ns_, 950, Percentile(sorted, 950))
        /\ IsPercentile(samples_ns_, 990, Percentile(sorted, 990))
        /\ IsPercentile(samples_ns_, 999, Percentile(sorted, 999))
    BY <2>1, PercentileByCount
  <2>4. IsPercentile(samples_ns_, 990, 1000 * sorted[p99_idx(sorted) + 1])
    BY <2>1, P99IndexByCount
  <2> QED BY <2>2, <2>3, <2>4
<1>2. Init => Recorded
  <2>1. << >> \in Seq(Nat)
    OBVIOUS
  <2> QED BY <2>1 DEF Init, Recorded
<1> QED BY <1>1, <1>2, RecordedStep, PTL DEF Spec

\* The lines of every report that print_report() prints fit together.
THEOREM ReportsAreConsistent == Spec => []ReportConsistent
<1>1. ASSUME Recorded PROVE ReportConsistent
  BY <1>1, ReportFits DEF Recorded, ReportConsistent
<1>2. Init => Recorded
  BY DEF Init, Recorded
<1> QED BY <1>1, <1>2, RecordedStep, PTL DEF Spec
=============================================================================
