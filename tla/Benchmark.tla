----------------------------- MODULE Benchmark -----------------------------
(***************************************************************************)
(* benchmarks/benchmark_client.cpp: the four scenarios, run one after the  *)
(* other over one client.  Three of them send a message and wait for the   *)
(* reply; benchmark_throughput sends all its messages first and then       *)
(* fetches as many, out of a queue that drops what it cannot hold.         *)
(*                                                                         *)
(* The client is the one of ChatSession.  A message is known by its        *)
(* number, the welcome message is number 0; a duration is one of a few     *)
(* numbers.  Left out: connect(), payloads and all output.                 *)
(***************************************************************************)
EXTENDS LatencyStats

CONSTANTS
  kBenchmarkMessages, kWarmupMessages, kMessagesPerSize,
  Sizes,       \* how many payload sizes are tried
  QueueSize,   \* how many messages the queue holds: kQueueCapacity - 1
  Durations    \* the round-trip times that occur

\* The burst and a welcome message that comes late fit into the queue.
ASSUME BurstAssumption == /\ kBenchmarkMessages \in Nat \ {0} /\ QueueSize \in Nat
                          /\ kBenchmarkMessages < QueueSize
ASSUME CountAssumption == /\ kWarmupMessages \in Nat \ {0} /\ Sizes \in Nat
                          /\ kMessagesPerSize \in Nat \ {0}
ASSUME DurationAssumption == Durations \subseteq Nat

VARIABLES
  conn,        \* "up", "broken" or "closed"
  queue_,
  toServer, toClient,   \* messages under way
  welcome,     \* the server's: "due", "sent" or "never"
  dropped,     \* receive_loop has dropped a message
  pc,          \* where main is
  scenario,    \* which scenario is running
  i, received, \* loop counters: sent, and (in the burst) fetched
  sent,        \* the number of the last message
  samples_ns_, \* of the scenario's LatencyStats
  early,       \* the welcome message was fetched before the first scenario
  outcome

netVars == <<conn, toServer, toClient, welcome>>
loopVars == <<scenario, i, received, sent>>
vars == <<netVars, queue_, dropped, pc, loopVars, samples_ns_, early, outcome>>

Rtt(n) == [burst |-> FALSE, n |-> n]
Burst(n) == [burst |-> TRUE, n |-> n]

\* Sequential RTT, throughput, cold and warm state, one round for each size.
Scenarios == <<Rtt(kBenchmarkMessages), Burst(kBenchmarkMessages),
               Rtt(kWarmupMessages), Rtt(kBenchmarkMessages)>>
             \o [z \in 1 .. Sizes |-> Rtt(kMessagesPerSize)]

num_messages == Scenarios[scenario].n

Init == /\ conn = "up" /\ queue_ = << >> /\ dropped = FALSE
        /\ toServer = << >> /\ toClient = << >> /\ welcome \in {"due", "never"}
        /\ pc = "welcome" /\ scenario = 1 /\ i = 0 /\ received = 0 /\ sent = 0
        /\ samples_ns_ = << >> /\ early = FALSE /\ outcome = "running"

At(loc) == outcome = "running" /\ pc = loc

\* try_receive has found nothing 50 times, or the welcome message.
Welcome ==
  /\ At("welcome") /\ pc' = "send"
  /\ \/ UNCHANGED <<queue_, early>>
     \/ queue_ # << >> /\ queue_' = Tail(queue_) /\ early' = TRUE
  /\ UNCHANGED <<netVars, dropped, loopVars, samples_ns_, outcome>>

\* send_text, and spin_receive is called, or in the burst the next send_text.
Send ==
  /\ At("send") /\ i < num_messages /\ conn # "closed"
  /\ i' = i + 1 /\ sent' = sent + 1
  /\ toServer' = IF conn = "up" THEN Append(toServer, sent + 1) ELSE toServer
  /\ pc' = IF Scenarios[scenario].burst THEN "send" ELSE "spin"
  /\ UNCHANGED <<conn, toClient, welcome, queue_, dropped, scenario, received, samples_ns_,
                 early, outcome>>

\* It throws: main() catches it when the client is destroyed.
SendThrows ==
  /\ At("send") /\ i < num_messages /\ conn # "up"
  /\ outcome' = "exit1"
  /\ UNCHANGED <<netVars, queue_, dropped, pc, loopVars, samples_ns_, early>>

\* spin_receive returns and stats.record is called.
SpinReceive ==
  /\ At("spin") /\ pc' = "send"
  /\ queue_ # << >> /\ queue_' = Tail(queue_)
  /\ \E ns \in Durations : samples_ns_' = record(samples_ns_, ns)
  /\ UNCHANGED <<netVars, dropped, loopVars, early, outcome>>

\* while (received < num_messages) of the burst
Drain ==
  /\ At("send") /\ Scenarios[scenario].burst /\ i = num_messages /\ received < num_messages
  /\ queue_ # << >> /\ queue_' = Tail(queue_) /\ received' = received + 1
  /\ UNCHANGED <<netVars, dropped, pc, scenario, i, sent, samples_ns_, early, outcome>>

\* Mutant: the last reply of the burst is not waited for.
FinishedEarly ==
  /\ At("send") /\ i >= num_messages /\ (Scenarios[scenario].burst => received + 1 >= num_messages)
  /\ samples_ns_' = << >> /\ i' = 0 /\ received' = 0
  /\ IF scenario < Len(Scenarios)
     THEN scenario' = scenario + 1 /\ UNCHANGED <<conn, outcome>>
     ELSE conn' = "closed" /\ outcome' = "exit0" /\ UNCHANGED scenario
  /\ UNCHANGED <<toServer, toClient, welcome, queue_, dropped, pc, sent, early>>

\* The report is printed; the next scenario begins, or main() closes and returns.
Finished ==
  /\ At("send") /\ i >= num_messages /\ (Scenarios[scenario].burst => received = num_messages)
  /\ samples_ns_' = << >> /\ i' = 0 /\ received' = 0
  /\ IF scenario < Len(Scenarios)
     THEN scenario' = scenario + 1 /\ UNCHANGED <<conn, outcome>>
     ELSE conn' = "closed" /\ outcome' = "exit0" /\ UNCHANGED scenario
  /\ UNCHANGED <<toServer, toClient, welcome, queue_, dropped, pc, sent, early>>

\* Mutant: the queue holds less than a burst.
ReceiveSmallQueue ==
  /\ outcome = "running" /\ conn # "closed" /\ toClient # << >>
  /\ toClient' = Tail(toClient)
  /\ IF Len(queue_) + 2 < QueueSize
     THEN queue_' = Append(queue_, Head(toClient)) /\ UNCHANGED dropped
     ELSE dropped' = TRUE /\ UNCHANGED queue_
  /\ UNCHANGED <<conn, toServer, welcome, pc, loopVars, samples_ns_, early, outcome>>

\* receive_loop: read and push, or drop; or the read fails.
Receive ==
  /\ outcome = "running" /\ conn # "closed" /\ toClient # << >>
  /\ toClient' = Tail(toClient)
  /\ IF Len(queue_) < QueueSize
     THEN queue_' = Append(queue_, Head(toClient)) /\ UNCHANGED dropped
     ELSE dropped' = TRUE /\ UNCHANGED queue_
  /\ UNCHANGED <<conn, toServer, welcome, pc, loopVars, samples_ns_, early, outcome>>

ReadFails ==
  /\ outcome = "running" /\ conn = "broken" /\ conn' = "closed"
  /\ UNCHANGED <<toServer, toClient, welcome, queue_, dropped, pc, loopVars, samples_ns_, early, outcome>>

Server(from, to, w) ==
  /\ outcome = "running" /\ conn = "up"
  /\ toServer' = from /\ toClient' = to /\ welcome' = w
  /\ UNCHANGED <<conn, queue_, dropped, pc, loopVars, samples_ns_, early, outcome>>

Echo == toServer # << >> /\ Server(Tail(toServer), Append(toClient, Head(toServer)), welcome)

\* The server greets whenever it likes.
Greet == welcome = "due" /\ Server(toServer, Append(toClient, 0), "sent")

Drop ==
  /\ outcome = "running" /\ conn = "up" /\ conn' = "broken"
  /\ UNCHANGED <<toServer, toClient, welcome, queue_, dropped, pc, loopVars, samples_ns_, early, outcome>>

main == Welcome \/ Send \/ SendThrows \/ SpinReceive \/ Drain \/ Finished

Next == main \/ Receive \/ ReadFails \/ Echo \/ Greet \/ Drop

Spec == Init /\ [][Next]_vars

\* Both threads run, and the server echoes while the connection is up.
Fairness == WF_vars(main) /\ WF_vars(Receive) /\ WF_vars(Echo)

FairSpec == Spec /\ Fairness

-----------------------------------------------------------------------------
(* Properties *)

\* No message is dropped, so that the burst, which counts to num_messages without an
\* end, gets them all.
NothingDropped == ~dropped

\* A round-trip time is the one of the message it is recorded for ("measure true
\* per-message RTT"), unless the welcome message was not there when main() looked for it.
TrueRtt == [][samples_ns_' # samples_ns_ /\ samples_ns_' # << >> =>
                Head(queue_) = sent \/ (welcome = "sent" /\ ~early)]_vars

\* The percentiles of a report, and of the table of sizes, are percentiles of the
\* samples by count.
PercentilesByCount ==
  samples_ns_ # << >> =>
    LET sorted == Sorted(samples_ns_)
        r == Report(sorted)
    IN  /\ IsPercentile(samples_ns_, 500, r.med) /\ IsPercentile(samples_ns_, 950, r.p95)
        /\ IsPercentile(samples_ns_, 990, r.p99) /\ IsPercentile(samples_ns_, 999, r.p999)
        /\ IsPercentile(samples_ns_, 990, 1000 * sorted[p99_idx(sorted) + 1])

\* The lines of a report fit together: the percentiles lie in order between minimum
\* and maximum, so does the mean, and mean and median differ by at most the standard
\* deviation.
ReportConsistent ==
  samples_ns_ # << >> =>
    LET r == Report(Sorted(samples_ns_))
        n == Len(samples_ns_)
        gap == 1000 * r.sum - n * r.med
    IN  /\ 1000 * r.min <= r.med /\ r.med <= r.p95 /\ r.p95 <= r.p99
        /\ r.p99 <= r.p999 /\ r.p999 <= 1000 * r.max
        /\ n * r.min <= r.sum /\ r.sum <= n * r.max
        /\ n * gap * gap <= 1000 * 1000 * r.sq_sum

\* The benchmark comes to its end as long as the connection lasts.
Finishes == <>(outcome # "running" \/ conn # "up")
=============================================================================
