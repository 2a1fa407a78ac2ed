# A TLA+ verification of the C++ WebSocket client

This directory holds TLA+ models of the client in `src/`, the TLC
configurations that check them on small instances, and proofs checked by TLAPS.

    tlc -workers 2 -config SPSCQueue.cfg MCSPSCQueue          # one run
    tlapm SPSCQueueProofs.tla                                 # the proofs

`PROJECT.json` lists the components, the runs, the source lines behind every
definition, the hazards and the findings.

## 1. Inventory

The program is a console chat client for a WebSocket echo server. A receiver
thread reads frames and hands them to the main thread through a lock-free
queue. The main thread sends, waits for the reply and keeps latency statistics.
With `--reconnect`, a connection manager owns the client and replaces it
when the connection is lost.

| Component | State | Operations | Correct when |
|---|---|---|---|
| SPSC queue, `include/spsc_queue.h` | `head_`, `tail_` (atomics), `buffer_` | `try_push` (receiver thread), `try_pop` (main), `size_approx` | the threads never touch one slot at a time; FIFO, nothing lost or duplicated; `size_approx` errs to the safe side; what is pushed is popped |
| Connection manager, `include/connection_manager.h` | `state_`, `should_run_`, `reconnect_count_`, `client_` (a plain `unique_ptr`), three `std::thread` members | `start`, `stop`, `try_connect`, `reconnect_loop`, `monitor_loop`, `heartbeat_loop`, destructor | one thread at a time replaces `client_`; Connected means there is a client; every lost connection is noticed; the backoff is capped and ends; `stop` ends everything |
| WebSocket client, `include/websocket_client.h` | `ws_`, `running_`, `receiver_thread_`, `recv_queue_` | `connect`, `close`, `send_text`, `send_binary`, `spin_receive`, `receive_loop` | the receiver ends when the connection does; `close` can be called at any time; no reply is lost; a frame goes out with the opcode it was given |
| Chat session, `src/main.cpp` | latency statistics, locals | commands, send and wait for the reply, `bench`, `/exit` | a reply belongs to its request; `/exit` quits |
| Memory pool, `include/memory_pool.h` | `free_head_`, `free_count_`, links inside the blocks; `PoolPtr::ptr_`, `pool_` | `allocate`, `deallocate`, `owns`; `PoolPtr` construction, moves, `release`, destruction | a block has one owner; the free list is exactly the free blocks |
| Latency statistics, `include/latency_stats.h` | `samples_ns_` | `record`, `percentile`, `print_report` | a percentile lies between the samples on both sides of its rank; the lines of a report fit together |
| Command line, `src/main.cpp` | `CliArgs` | `parse_args`, choice of the branch | options mean what the help says, in any order |
| Secure client, `include/secure_websocket_client.h` | as WebSocket client, over TLS | as WebSocket client | `connect` and `close` come to an end; `running_` tells when the stream is closed |
| Benchmarks, `benchmarks/benchmark_client.cpp` | counters, a `LatencyStats` per scenario | four scenarios over one client | a burst fits into the queue and is drained; a round-trip time belongs to its message |
| Legacy client, `main.cpp` in the root | `messages_`, `mutex_`, `cv_` | `connect`, sends, `getResponse`, `close`, `receiveContinuous` | mutual exclusion; no lost wake-up; a reply belongs to its request |
| `thread_utils.h` | affinity of a thread | `pin_thread_to_core`, `get_cpu_count` | the receiver is pinned to the core that was asked for, or else the last |
| `config.h`, `message.h` | none | constants, unused policies; a struct | - |

**Interaction.** `ConnectionManager` creates and destroys `WebSocketClient`s;
each of these runs a receiver thread of its own. `main` obtains a reference to
the current client from the manager and keeps it for the session. The
manager's heartbeat calls the client's `send_text` from a third thread; its
monitor polls the client's `running_`. The client's receiver pushes into its
queue, the session pops.

**What is hard.** Four threads use the unsynchronised `client_` and the
unsynchronised thread members. A client may be destroyed while another thread
uses it. The second half of `connect()` may run after a `close()`. A finished
thread stays joinable. `stop()` joins in a fixed order while one of the joined
threads may start another. In the queue, the full and the empty test work with
stale indexes. In the pool, users write over the words that hold the links. In
the legacy client, a notification must not fall between a test and a wait. No
client has a timeout: a server that falls silent holds up whoever waits for it.
The list with the lines is under "hazards" in `PROJECT.json`.

## 2. Modules

    BoundedFIFO            what a single-producer single-consumer queue promises
      ^ implemented by
    SPSCQueue              the ring buffer        <- MCSPSCQueue, SPSCQueueProofs
    ConnectionManager      manager, threads, clients, the --reconnect session
                                                  <- MCConnectionManager,
                                                     ConnectionManagerProofs
    ChatSession            the messages of one connection: session, client,
                           heartbeat, server      <- ChatSessionProofs
    MemoryPool             pools and PoolPtr      <- MemoryPoolProofs
    CommandLine            parse_args
      ^ extended by
    ClientProgram          main() from its arguments to its exit code, with one
                           plain or secure client <- MCClientProgram,
                                                     ClientProgramProofs
    LatencyStats           the statistics as operators
      ^ extended by                               <- LatencyStatsProofs
    Benchmark              the scenarios of the benchmark
                                                  <- BenchmarkProofs
    LegacyClient           the mutex-based client <- LegacyClientProofs

Definitions keep the names of the source. An operator whose comment begins with
"Mutant" is not part of a specification: it is a plausible bug, put in the place
of the definition it precedes to show that a property would notice.

### SPSCQueue

A step is one access the other thread can observe: the acquire load with the
test, the access to the slot, the release store. The relaxed load of the own
index belongs to the step that follows, as nobody else writes that index.

| Code | Definitions |
|---|---|
| `try_push` | `PushFull`, `PushCheck`, `PushWrite`, `PushPublish` |
| `try_pop` | `PopEmpty`, `PopCheck`, `PopMove`, `PopPublish` |
| `& kMask` | `Succ`, `Distance` (a remainder; `MCSPSCQueue` has TLC compare it with the bitwise "and" for the capacities up to 16, including the wrap-around of the unsigned subtraction) |
| `size_approx` | `ProducerSizeApprox`, `ConsumerSizeApprox` |
| the memory model | `headSeen`, `tailSeen`, `HeadVisible`, `TailVisible` |

A release store becomes visible to the other thread's acquire load at some later
time. The values a thread sees follow the modification order and may skip
some. The contents of a slot are visible with the index that publishes it, which is
what acquire and release guarantee. Weaker orders than those the code uses are
not modelled.

`BoundedFIFO` is the promise: one sequence of items, credits for the producer,
offers for the consumer. A push is refused only without credit, a pop returns
`nullopt` only without an offer, and credits and offers arrive in the end. A
plain FIFO in which "full" means full and "empty" means empty would be too much to ask:
the code refuses a push when there is room that it does not know of yet.

### ConnectionManager

Threads are `main`, `rec` (`reconnect_thread_`), `mon` (`monitor_thread_`) and
`hb` (`heartbeat_thread_`); `pc` says where each of them is. A step is one
access to what the threads share.

| Code | Definitions |
|---|---|
| `start` | `Start`, `Connect("main")`, `StartFailed`, `StartReconnect` |
| `try_connect`, `connect` | `TryConnect`, `Handshake`, `SetRunning`, `StartReceiver`, `ConnectFails` |
| after a successful `try_connect` | `Connected`, `SpawnHeartbeat`, `SpawnMonitor` |
| `reconnect_loop` | `LoopTest`, `GiveUp`, `Backoff` and the above |
| `monitor_loop` | `MonitorTest`, `MonitorPoll`, `MonitorLost`, `MonitorReset`, `MonitorResetJoin` |
| `heartbeat_loop` | `HeartbeatTest`, `HeartbeatCheck`, `HeartbeatRunning`, `HeartbeatPing`, `HeartbeatUndefined` |
| `receive_loop`, the network | `ReadFails`, `ReceiverTest` (both `ReceiverEnds`), `Drop` |
| `main` with `--reconnect`, `chat_session` | `WaitConnected`, `CheckConnected`, `BeginSession`, `SessionLoop`, `SessionInput`, `SessionSend`, `SessionReply`, `SessionQuit`, `CloseFlag`, `CloseStream`, `CloseJoin`, `MainUndefined` |
| `stop`, the destructors | `StopBegin`, `StopFlag`, `StopClient`, `CloseFlag`, `CloseStream`, `CloseJoin`, `StopJoin`, `StopClosed`, `Destroy` |

Decisions that matter:

- *Clients are objects.* `life` is "free", "live" or "dying" (its destructor
  waits for the receiver). `held` is a pointer that `main` or `hb` keeps. A use
  through a dangling pointer is undefined behaviour: the program ends with
  outcome "undefined" or goes on with an arbitrary value. A new client takes an
  identity that no held pointer names, so a dangling pointer stays recognisable.
- *The race on `client_`.* It is read and written without synchronisation. The
  model takes a pointer-sized access as indivisible, and lets the heartbeat's
  later uses of it either read it again or go on with the value it had read
  (`HeartbeatPointers`).
- *`connect()` and `close()` step by step.* `connect()` opens the stream, sets
  `running_`, assigns the receiver thread; `close()` clears `running_`, closes an
  open stream, joins the receiver. Their steps interleave when main stops the
  manager while another thread connects.
- *A broken connection.* A send on it may succeed (the socket takes it) or
  throw; on a closed one it throws; the receiver notices it at its next read.
- *The session* is reduced to its uses of the client: local commands, sends,
  waiting for a reply (which may never come), `/exit`. Which message is received
  is left out here.
- *Callbacks* only print and are left out. Sleeps are steps that may take any time.
- *Destruction after `stop()`.* The destructor's own `stop()` returns at once,
  because `should_run_` is false; a thread member that is still joinable calls
  `std::terminate` (`Destroy`).

Outcomes: "exited", "uncaught" (an exception left `main`), "terminated"
(a joinable thread was destroyed), "undefined".

### ChatSession

The same client seen from the side of its messages, for one connection. Main,
the receiver and (with `--reconnect`) the heartbeat share the stream; the
server echoes and may greet.

| Code | Definitions |
|---|---|
| `send_text`, `send_binary` | `SetOpcode`, `BeginWrite`, `Written`; `WriteUndefined` when two threads write at a time |
| `chat_session` | `Greeting`, `SessionLoop`, `SessionInput`, `SessionRequest`, `SessionBench`, `SessionSent`, `BenchEnds` |
| the `catch` clauses of `main` | `SessionSendThrows` |
| `try_receive`, `spin_receive` | `Take`, `SpinReceive` |
| `close`, `receive_loop` | `CloseFlag`, `CloseStream`, `CloseJoin`; `Receive`, `Push`, `ReadFails`, `ReceiverTest` |
| `heartbeat_loop` | `HeartbeatSleep`, `HeartbeatSent`, `HeartbeatThrows` |
| `websocket_server.py`, the network | `Echo`, `Greet`, `Drop` |

A frame is known by its sender and number; `meant` is the kind of the call that sent
it, `text` the opcode it went out with. The queue is a bounded sequence without
the delays of `SPSCQueue`: between main's pop and the echo of main's next
request lie a system call and a round trip. A lost connection is modelled
without `--reconnect` only, as with it the manager destroys the client
(`ConnectionManager`). A read and a write at the same time, which Beast's
documentation does not allow either, are taken to be harmless.

### MemoryPool

A pool is used by one thread, so an action is a whole call. `mem` is the first
word of each block: a link while the block is free, the user's data while it is
not. Blocks are pairs of pool and number and stand for addresses. Handles
are constructed, moved, assigned, released and destroyed in every order, and
`Write` overwrites the word. Calling `deallocate` twice for a block, or
keeping a pointer after its release, is a misuse the code does not defend
against and is not modelled. The alignment and the size of blocks are left out.

### CommandLine and ClientProgram

`CommandLine` is the loop of `parse_args`, one action per branch (`ParseHost`,
`ParsePort`, `ParsePin`, `ParseReconnect`, `ParseSsl`, `ParsePositional`,
`ParseReturns`; `-h` and `--help` are `AskedForHelp`). `std::stoi` is a constant, any
function from strings to numbers that is not defined for an option. The reference is
`Documented`: what the help says of a whole line, whatever the order. It is for lines that
are `WellFormed`: an option that needs a value has one and there are no other values (the
code takes stray ones by their position, or ignores them). One exception is named:
`--port 80 --ssl` gives port 443, as the code cannot tell the 80 from its default
(`Port80BeforeSsl`).

`ClientProgram` goes on from there.

| Code | Definitions |
|---|---|
| `main`, its branches and `catch` clauses | `ParseArgs`, `Help`, `BranchReconnect`, `BranchSsl`, `BranchNoSsl`, `BranchPlain`, `Throws`, `Returns` |
| `connect` | `ConnectPhase` (resolve, TCP, server name, TLS, upgrade), `ConnectThrows`, `Connected` |
| `chat_session` | `SessionLoop`, `SessionInput`, `SessionSend`, `SessionSendThrows`, `SpinReceive` |
| `close`, the destructor | `CloseFlag`, `CloseStream`, `Returns` |
| `receive_loop` | `ReceiverPin`, `ReceiverLoop`, `ReceiverEngine`, `ReceiverRead`, `ReceiverThrows` (the `catch` clause), `ReceiverReadFails`, `ReceiverEnds` |
| `get_cpu_count`, `pin_thread_to_core` | the same names |
| the environment | `Drop`, `GoesSilent`, and `EngineRace`: the receiver inside the TLS engine while main sends or closes |

The plain and the secure client have the same control, but for the two TLS phases
and the engine, so that one set of actions serves both. `pinned` tells a receiver that
nobody wanted to pin (`NotPinned`) from one that the system has `Refused` to pin. Both builds are checked
(`ssl_built`). Of the messages only the request under way is kept: `ChatSession`
has the rest. With `--reconnect` the model stops at "managed", where
`ConnectionManager` begins. A server may fall silent at any time: the handshakes
and the closing handshake then have no answer, while name service and TCP have
timeouts of their own.

### LatencyStats and Benchmark

`LatencyStats` has `record`, `Sorted`, `Percentile`, `sq_sum` and `Report`
after `print_report`, and the benchmark's own `p99_idx`. Doubles are
exact: a percentile is a thousandfold, and nothing is divided: `SumOf` is `std::accumulate`
as a recursive function, `sq_sum` adds up the squares of n times the deviations. `std::sort`
is any rearrangement that is ascending (`Sorts`): all of them give the same copy. The
reference `IsPercentile` counts samples and neither sorts nor ranks.

`Benchmark` runs the scenarios one after the other: `Scenarios` is the list of
their lengths, `Send`, `SpinReceive`, `Drain` and `Finished` are their loops,
`Welcome` is the search for the welcome message before them, `Receive` and `ReadFails` the
receiver thread. A duration is any of a few numbers, so that the statistics see every
vector of samples of the lengths that occur.

### LegacyClient

| Code | Definitions |
|---|---|
| `connect`, `main` | `Connect`, `ConnectThrows`, `Throws` |
| `getResponse` | `Lock`, `Test` (predicate, wait, pop), `SpuriousWakeup` |
| `chatSession`, `sendText`, `sendBinary` | `Send`, `SendThrows`, `Unknown`, `EndOfInput`, `Exit` |
| `close` | `Close`, `CloseThrows`, `Join` |
| `receiveContinuous` | `RxOpen`, `RxRead`, `RxReadThrows`, `RxLock`, `RxPush`, `RxNotify`, `RxUnlock` |
| server and network | `Greet`, `Echo`, `Drop` |

A step is one access to the mutex, the queue, the condition variable or the stream.
The server may send no banner; then main waits for one for ever, as it does after an
unknown command (`WaitsForSomething` names these two). An exception after
`connect()` destroys a joinable thread: outcome "terminated". The end of
the input is a busy loop in the code, here a place without a next step ("eof").

## 3. Runs

| Run | Instance | Distinct states | Result |
|---|---|---|---|
| `spsc_queue` | 4 slots, 2 items | 8 448 | holds |
| `connection_manager` | 3 clients, 3 tries, 2 drops, symmetry | 277 322 | holds |
| `connection_manager_live` | 3 clients, 1 try, 1 drop | 135 346 | holds |
| `chat_session` | queue of 2, 2 requests, 2 pings, a greeting | 203 560 | holds |
| `memory_pool` | 2 pools of 2 blocks, 2 handles | 24 888 | holds |
| `client_program` | all lines of up to 3 arguments or 4 options, 0 or 4 cores | 243 348 | holds |
| `benchmark` | scenarios of 5, 1 and 2 messages, queue of 6, 3 durations | 50 614 | holds |
| `legacy_client` | 3 requests | 1 012 | holds |
| `second_drop`, `session_client`, `wrong_reply`, `reconnect_options` | as small as shows it | - | violated, see section 5 |

**`spsc_queue`**: `NoDataRace` and `NoOverwrite` (the index protocol keeps the
plain accesses to the slots apart), `SizeApproxSafe` (what each side computes
errs to the safe side), `ImplementsFIFO` (refinement of `BoundedFIFO`),
`FIFOIsFair` (published items are popped, freed slots are found).

**`connection_manager`**: `ConnectedHasClient`, `OneReplacer` (the unlocked
`client_` has one replacing thread at a time, and `make_unique` never assigns
over a client), `NoClientLeaked`, `BackoffSchedule` (attempt n waits for the
capped n-th backoff and there are at most `max_reconnect_tries`),
`UndisturbedWhileUp` (nothing but a lost connection or the end of the session
leaves the heartbeat with a stale pointer, ends it, or makes anybody meet a
destroyed client or an exception), `ClosedIsFinal`, `GaveUpIsFinal`.

**`connection_manager_live`**: `StopTerminates`, `ReconnectSettles`,
`LostConnectionNoticed`. `StopTerminates` excepts `Reopened`: `stop()` closes a
client whose handshake is under way, `connect()` then sets `running_` again and
starts a receiver that `stop()` waits for and nobody ends. Without the exception
TLC finds just this hang; with it, there is no other.

**`chat_session`**: `SpinFed` and `SpinReturns` (`receive_loop` drops messages when
the queue is full, but only then, so `spin_receive` always finds one while the
connection lasts), `TakenInOrder` (order, no duplicates, a gap only after a drop),
`QuietRepliesMatch` (replies are matched by order alone; that is right as long as
nobody sends unasked), `CloseReturns`.

**`memory_pool`**: `NoSharedBlock`, `FreeListExact` (following the links visits
`free_count_` different blocks, exactly those nobody owns, and ends in nullptr).

**`client_program`**: `OptionsAsDocumented`, `PinnedAsAsked` (a receiver that reads is
pinned exactly if `--pin` was given, to the core of the line or the last one, unless the
system refuses it), `ClosedIsSaid` (a session on a closed stream, or whose receiver
has ended in whatever way, is told or about to be told by `running_`), `ConnectSettles` and
`CloseReturns` (both end unless the server is silent: the code sets no timeout).

**`benchmark`**: `NothingDropped` and `Finishes` (the burst and a late welcome message
fit into the queue, `BurstAssumption`, so the loop that counts the replies ends), `TrueRtt`
(a recorded time belongs to the message just sent, unless the welcome message came
too late to be consumed), `PercentilesByCount`, `ReportConsistent`.

**`legacy_client`**: `MutexHeld`, `NoLostWakeup`, `WaitsForSomething`,
`RepliesMatch`, `ResponseComes`, `CloseReturns`.

**Bounds.** *Capacity 4* is the least power of two at which full, empty, one
item and one free slot are all different; the proofs cover the rest. *Two items* tell
order and duplication apart. *Three clients* suffice, since a fourth identity could
be needed only if three were held or alive: `client_` and the two held pointers.
*Two drops* let a reconnection be followed by another, which is where the thread
members matter; *one drop* in the live run is the case that works. *Three
tries* with backoff 1, 2, 3 (instead of 100 ms to 30 s) reach first, doubled
and capped backoff, and giving up. *Two blocks in each of two pools* reach the exhausted, partly
used and full pool and a move between pools; three blocks (2.6 million states)
give the same result. *A queue of two* is filled by a greeting and two
pings, so that requests meet the empty, the partly filled and the full queue.
*Three arguments* of any kind reach every branch of `parse_args` at every position
that it tells apart (first, second, last); *four options* with their values
reach every pair of options in both orders with a repetition. The numerals -1, 3 and 80 ask for the
last core, for a core, and for one that the machine does not have. *0 cores* is what
`hardware_concurrency()` returns if it does not know. *A burst of 5 in a queue of 6*
is the tightest that `BurstAssumption` allows, with the late welcome message
filling the last slot (100 in 1023 in the code); *three durations* give vectors with ties and gaps in every order.
*Three requests* of the legacy client repeat the cycle of request and reply after
both kinds of request.

**Fairness.** Queue: a call that was begun is finished, a store becomes visible
in finite time, and the consumer keeps polling (`spin_receive` loops over
`try_pop`). Nobody has to push. Manager: a thread that can go on does: sleeps
are finite, a read from a stream that is not open fails. The client sets no
timeout (`heartbeat_timeout_s` is never read), so that `connect()` returns or
throws, and that `ws_.close()` returns, is an assumption about the operating system
and the server: a server that accepts a connection and never answers the
handshake would hold up `reconnect_loop` and with it `stop()`. Nothing is
assumed of the user (`SessionInput`, `SessionQuit`), of the server's messages
(`SessionReply`, `ReceiverTest`) or of the network (`Drop`). Session: main and the
receiver run, and the server echoes while the connection is up; nothing is assumed of the
user, the heartbeat or the network. The benchmark: the same. `ClientProgram`: both
threads run; nothing is assumed of the server, which is why its liveness
properties name `silent`. Legacy client: as the session, and in addition
strong fairness for `RxLock`: main may wake up, lock, look and wait again any number
of times, and a receiver that finds the mutex free again and again gets it in the
end. Its `close()` assumes, like the manager's, that `ws_.close()` returns.

**Deadlock** is checked wherever the system may not stop. It is switched off in the
runs in which the hang `Reopened` is a reachable dead end and the property
speaks about hanging itself, and in `ChatSession`, `ClientProgram`, `Benchmark` and
`LegacyClient`, which may end, and in which `spin_receive` or `getResponse` waits for ever once the
connection is lost. A program that has ended stutters (`Ended`).

## 4. Proofs

`SPSCQueueProofs` proves, for every capacity of at least one and every set of items
(`CapacityAssumption`, `ItemsAssumption`):

| Theorem | States |
|---|---|
| `TypeCorrect` | `Spec => []TypeOK` |
| `RaceFree` | `Spec => []NoDataRace` |
| `KeepsUnread` | `Spec => []NoOverwrite` |
| `SizeBounds` | `Spec => []SizeApproxSafe` |
| `Refinement` | `Spec => ImplementsFIFO` |

None of these properties is inductive. The invariant is

    IInv == IndexesOK /\ RingOrder /\ PushRoom /\ PopRoom /\ SlotsOK /\ InHand

`RingOrder` is the heart: going round the ring from what the producer knows of
the head one meets the head, what the consumer knows of the tail and the tail,
in this order and within one lap. Stale knowledge is therefore conservative: a
test that passes on a stale index passes on the real one. `PushRoom` and `PopRoom`
carry the result of a test on to the access, `SlotsOK` says which slots are full,
`InHand` what the calls in progress hold. The remainders are dealt with once, in
lemmas about `Succ` and `Distance` (`DistanceSum`, `DistanceToSucc`,
`DistanceFromSucc` and others), so that the steps need linear arithmetic
only. For the refinement, `PushPublish` is the abstract push, `PopPublish` the pop,
`HeadVisible` and `TailVisible` grant and offer, and everything else stutters:
`Contents` counts an item that `try_pop` holds in its local as still queued.

`ChatSessionProofs` proves, for every size of the queue (`QueueSizeAssumption`) and
any number of requests and pings (`BoundsAssumption`):

| Theorem | States |
|---|---|
| `TypeCorrect` | `Spec => []TypeOK`, the bound of the queue included |
| `NeverStarved` | `Spec => []SpinFed` |
| `OrderIsKept` | `Spec => TakenInOrder` |
| `QuietRepliesAnswer` | `Spec => []QuietRepliesMatch` |

`SpinFed` is inductive together with the types: a sent frame is one more on its
way, the server and the receiver pass frames on, and a frame is dropped only when
the queue is full and therefore not empty. `TakenInOrder` needs `Order`: the server's
numbers on the way to the client have no gap, those in the queue lie between the last reply
and them, in order, and have no gap either before the first drop. `QuietRepliesMatch` needs
`QuietInv`: as long as there is neither greeting nor ping, at most one frame is between
main and itself, only while main waits, it is main's last request (`Flow`), and
it went out with the opcode that was meant, because no other thread sets it (`Sending`).

`LegacyClientProofs` proves, for any number of requests (`MaxRequestsAssumption`):

| Theorem | States |
|---|---|
| `TypeCorrect` | `Spec => []TypeOK`, with at most one message in the unbounded `messages_` |
| `MutualExclusion` | `Spec => []MutexHeld` |
| `WakeupsArrive` | `Spec => []NoLostWakeup` |
| `NeverInVain` | `Spec => []WaitsForSomething` |
| `RepliesAnswer` | `Spec => []RepliesMatch` |
| `JoinIsNotBlocked` | `Spec => []NotBlocked`: when `close()` joins, the stream is closed and the mutex free |
| `ReceiverIsEnding` | `Spec => JoinAdvances`: every step of a joined receiver brings it nearer to its end |

The invariant is

    IInv == Types /\ MutexHeld /\ NoLostWakeup /\ Start /\ Flow /\ Fed

`Flow` is the heart: there is at most one frame under way, from the server's side
to the queue, it is the one main waits for (`Expected`), and there is none when main
does not wait. That is why matching by order works here: main does nothing before it
has the banner. `Fed` is the other direction, that the frame is not lost while the
connection is up. `Start` says that the receiver's buffer is in use only between a read and a push.
The last two theorems are the part of `CloseReturns` that is within the provers' reach:
`NotBlocked` says that the receiver that main waits for can always take its next step,
`JoinAdvances` that it has at most five of them left (`Left`).

`ConnectionManagerProofs` proves, for any set of clients, any configuration and any number
of lost connections (`ClientsAssumption`, `ConfigAssumption`):

| Theorem | States |
|---|---|
| `Invariance`, `TypeCorrect` | `Spec => []IInv`, `Spec => []TypeOK` |
| `ConnectedHasAClient` | `Spec => []ConnectedHasClient` |
| `OneReplacerAtATime` | `Spec => []OneReplacer` |
| `NoLeak` | `Spec => []NoClientLeaked` |
| `Undisturbance` | `Spec => []UndisturbedWhileUp` |
| `ClosingIsFinal` | `Spec => ClosedIsFinal` |
| `GivingUpIsFinal` | `Spec => GaveUpIsFinal` |
| `BackoffIsScheduled` | `Spec => []BackoffSchedule` |
| `ResetIsNotBlocked` | `Spec => []DyingIsClosed`: the monitor joins the receiver of a closed stream only |
| `StopWithoutReconnect` | without `auto_reconnect`, `Spec => [](outcome # "terminated" /\ ~Reopened)` |
| `SessionKeepsItsClient` | `Spec => [](drops = 0 /\ ~quit => SessionClientLive)` |

No lock protects `client_`; what keeps its users apart is the order in which threads are
started and joined. So the invariant is built on the program counters, in layers:

    IInv == /\ Places /\ ManagerTypes /\ Counters /\ ClientTypes
            /\ Order /\ StateSaid /\ Ownership /\ Calm

`Order` says who runs while whom: `start()` is alone, the reconnect thread and the monitor
follow each other, and a thread that is started after `stop()` has joined its predecessor
reads `should_run_` first and returns. `StateSaid` says what `state_` tells about
the threads, `Ownership` at which places there is a client and which client lives, `Calm`
what holds until the network or the user disturbs a connection. `BackoffIsScheduled` rests
on a second invariant, `Attempts`, and on the equations of `Power` (`PowersOfMultiplier`), which
are proved from its recursive definition: lists of powers exist for every length, two of them
agree, and `Power` picks one.

The last three theorems say how far the known weaknesses reach. `stop()` can fail in two
ways, `std::terminate` for a thread that was started too late and the hang `Reopened`;
`StopWithoutReconnect` shows that both need `auto_reconnect` (the invariants are `StartOnly`,
`Joined` and `Shut`: only `start()` makes threads and clients, so that what was joined
stays joined and what was closed stays closed). `SessionKeepsItsClient` shows that the dangling
reference of finding 2 needs a lost connection or the end of the session.

`MemoryPoolProofs` proves, for any pools, blocks and handles (`NumBlocksAssumption`,
`PoolsAssumption`):

| Theorem | States |
|---|---|
| `Invariance`, `TypeCorrect` | `Spec => []IInv`, `Spec => []TypeOK` |
| `SoleOwner` | `Spec => []NoSharedBlock` |
| `FreeListIsExact` | `Spec => []FreeListExact` |
| `AssertionHolds` | `Spec /\ [][WithinPool]_vars => []~aborted` |
| `OnePoolNeverAborts` | with one pool, `Spec => []~aborted` |

`FreeListExact` follows the links and is not inductive. The invariant (`Lists`) says that for
each pool there is a sequence of `free_count_` blocks, exactly the ones nobody owns, through
which the links run: `allocate` takes its first block away, `deallocate` puts one in
front, and a write of a user reaches none of them. `LinksFollowed` then shows by
induction that the definition of `FreeListExact` walks along this sequence. The assertion of
`deallocate` can fail (`pool_` is a reference and does not move with `ptr_`), but
`AssertionHolds` shows that only an assignment between handles of different pools
leads there: `WithinPool` forbids that step and nothing else, and keeps every block with its
pool (`Home`). The program has one pool.

`ClientProgramProofs` proves, for any set of command lines of any length, whatever
numerals `std::stoi` accepts, and any number of cores (`CommandLinesAssumption`,
`StoiAssumption`, `HardwareAssumption`):

| Theorem | States |
|---|---|
| `Invariance` | `Spec => []IInv` |
| `OptionsMeanWhatTheySay` | `Spec => []OptionsAsDocumented` |
| `PinningIsAsked` | `Spec => []PinnedAsAsked` |
| `ClosingIsSaid` | `Spec => []ClosedIsSaid` |
| `AsAskedWithoutReconnect` | `Spec => [](~args.auto_reconnect => ClientAsAsked)` |
| `JoinIsNotBlocked` | `Spec => []ReadReturns`: a receiver that is joined reads from a closed stream |
| `ReceiverIsEnding` | `Spec => JoinAdvances`: every step of a joined receiver brings it nearer to its end |

`OptionsAsDocumented` speaks of the end of `parse_args` only. Its inductive form `Collected`
says the same of the arguments passed so far, and that the loop never stands between an
option and its value. `Configured` carries the pinning from the arguments to the client
and from there to its receiver; `PinnedAsAsked` says nothing of the receivers of
`--reconnect`, which belong to `ConnectionManager`. `AsAskedWithoutReconnect` shows that
findings 4 and 5 need `--reconnect`: without it, no client misses the TLS or the pinning
that was asked for. The last two are the safety half of `CloseReturns` (invariant `Closing`: the cleared
`running_` and the closed stream stay as they are): the receiver can always go on, and has
at most three steps left.

`BenchmarkProofs` proves, for any numbers of messages, any queue that holds more than a
burst and any durations (`BurstAssumption`, `CountAssumption`, `DurationAssumption`):

| Theorem | States |
|---|---|
| `Invariance` | `Spec => []IInv` |
| `QueueSuffices` | `Spec => []NothingDropped` |
| `RttIsTrue` | `Spec => TrueRtt` |
| `NeverStarved` | `Spec => []Fed`: while the connection is up, what main waits for is on its way or queued |
| `PercentilesAreByCount` | `Spec => []PercentilesByCount` |
| `ReportsAreConsistent` | `Spec => []ReportConsistent` |

The heart of the invariant is a count (`Counts`): what is under way or queued is no more than
main has still to fetch by its own loop counters, and one more if the welcome message came
late. So there is room for a burst; and while main waits for a single reply, only
this reply can come (`Fresh`), which gives `RttIsTrue`. The same count from below
(`Complete`: while the connection is up, no less than main has still to fetch) gives
`NeverStarved`, the safety half of `Finishes`. The percentiles follow from
`LatencyStatsProofs`, for any samples: `PercentileByCount` for the interpolated
percentiles and `P99IndexByCount` for the benchmark's own index. The argument: samples can be sorted (the
place of a sample is the number of samples in front of it plus one, so that this
needs no induction), the sorted copy is a permutation, so `Below` and `UpTo` count
the same in it, and it is ascending, so that they are bounded by the rank.

`ReportFits` of `LatencyStatsProofs` gives `ReportsAreConsistent`, for any samples. An
interpolated percentile lies between its two neighbours and grows with the rank
(`InterpolatedInOrder`). The sums are recursive functions; `SumOfIsSum` turns one into a
list of partial sums, and `StepByStep` compares two such lists by their steps: this gives the
bounds of the mean (`MeanBetween`). For the distance of mean and median (`MeanNearMedian`),
let a be the mean less the median, times n. At least half of the samples (`MedianHalves`) lie on the far side
of the median, hence at least 2a from the point that is a beyond the mean. The sum of squares
around that point is therefore at least n/2 times the square of 2a, and it is n times the square of a
more than the sum of squares around the mean, which is left with n times the square of a at least.

Only proved, and no property of a run: `TypeOK` of `ConnectionManager` and of `MemoryPool`.

Every invariant and action property that a passing run checks is proved. Only model-checked
is liveness under fairness (`FIFOIsFair`, `StopTerminates`, `ReconnectSettles`,
`LostConnectionNoticed`, `SpinReturns`, `CloseReturns`, `ConnectSettles`, `Finishes`,
`ResponseComes`), which is out of the prover's reach. For the waits behind them the proofs
have the safety half: who waits is fed (`SpinFed`, `Fed`, `WaitsForSomething`), and who is
joined can go on (`NotBlocked`, `ReadReturns`, `DyingIsClosed`).

On the provers: induction over the natural numbers is used as a lemma about sets
(`NatSetInduction` in `MemoryPoolProofs`, `LatencyStatsProofs` and `ConnectionManagerProofs`: a set
of numbers that has 0 and with n also n + 1 has them all), as the library's schemes with a
predicate as parameter cannot be instantiated. A recursive function is a `CHOOSE` to
the provers: that there is a function with its equations, and one only, is proved each time.
Products of two variables get a name and a lemma each (`Rank`, `Mix`, `Moved`), large
numerals a name (`Million`).
No prover knows that a literal is in `STRING`, hence `Strings` in `ClientProgramProofs`.

## 5. Findings

Each is a run that TLC finds violated; `PROJECT.json` quotes the sentence of the
source that is contradicted.

1. `second_drop`. The monitor that reconnects returns afterwards. No new one is
   started, as the calling thread itself is the joinable `monitor_thread_`. The
   second lost connection is never noticed.
2. `session_client`. The session keeps a reference to a client that the monitor
   destroys.
3. `wrong_reply`. With `--reconnect` the server echoes the heartbeat's pings like
   any message, and the session takes such an echo for the reply of the user's
   next message.
4. `reconnect_options`. With `--ssl --reconnect` the manager's plain client
   connects, to port 443 and without TLS.
5. `reconnect_options`. With `--pin 3 --reconnect`, an example of the README and of the
   help, the pinning reaches `ConnectionConfig` and goes no further: `try_connect` makes
   the client with the default `ClientConfig`. The run's lines have all three options, so
   that the state TLC shows has both faults.

More shows in the models without a run of its own:

- `Reopened` (section 3): `stop()` may wait for ever for a client it has closed too early.
- `HeartbeatUndefined`: the heartbeat may use a `client_` that was reset since it was
  tested. A heartbeat that has returned is still joinable and is not started
  again after a reconnection (`SpawnHeartbeat`).
- Outcome "uncaught": the `--reconnect` branch of `main` does not catch what a send on a
  lost connection throws.
- Outcome "terminated": `/exit` closes the client, the monitor may take that for a
  lost connection and reconnect, and a thread it starts after `stop()` has joined
  its predecessor is destroyed while joinable.
- `MoveAssign` between two pools: `PoolPtr` keeps its own pool and returns the block to
  the wrong one, which the assert of `deallocate` stops. The program has one pool.
- `EngineRace`: the secure client reads and writes through one TLS engine from two threads,
  in a send and in `close()`.
- `LegacyClient`: an exception after `connect()` ends in `std::terminate`; an unknown
  command, a missing banner or a lost connection leaves `getResponse` waiting for
  ever; the end of the input is a busy loop.

## 6. Not modelled

- The wait policies and feature flags of `config.h`, which nothing uses, thread names, and
  the Windows variants of the code.
- What is printed, and the certificates of the TLS context.
- The bytes of messages, the WebSocket framing and TLS: Boost.Beast's part. It is
  modelled by how the client uses it (`conn`).
- The echo server is the environment: it accepts, refuses, answers or
  not, and drops.
- A connection that is lost silently, except in `ClientProgram` (`GoesSilent`): elsewhere
  `Drop` is a loss that the next read reports.
- Times: a sleep takes some time.
- Exceptions inside `receive_loop` (no memory for a message), except in `ClientProgram`
  (`ReceiverThrows`).

## 7. Plan

Every part that changes state is modelled, and every safety property is proved. What is left
is liveness, as far as a prover with rules for fairness is at hand: `CloseReturns` of
`ClientProgram` and of `LegacyClient` would follow from `JoinIsNotBlocked` and `ReceiverIsEnding`
with weak fairness of the receiver, `Finishes` from `NeverStarved` and the loop counters.
