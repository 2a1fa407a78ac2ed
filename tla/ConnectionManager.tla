------------------------- MODULE ConnectionManager -------------------------
(***************************************************************************)
(* ConnectionManager of include/connection_manager.h, driven by the        *)
(* --reconnect branch of src/main.cpp.                                     *)
(*                                                                         *)
(* Four threads share the manager: "main" (start, the chat session, stop,  *)
(* the destructor), "rec" (reconnect_loop), "mon" (monitor_loop, which     *)
(* calls reconnect_loop too) and "hb" (heartbeat_loop).  Each WebSocket    *)
(* client has a receiver thread of its own.  Nothing but state_,           *)
(* should_run_ and running_ is synchronised: a step is one access to what  *)
(* the threads share, so a value that is read in one step may be stale in  *)
(* the next.                                                               *)
(*                                                                         *)
(* The clients are objects that are created and destroyed.  A pointer to   *)
(* a destroyed client may crash the program (outcome "undefined") or read  *)
(* whatever the freed memory holds.  A new client gets an identity that    *)
(* nobody holds a pointer to, so a dangling pointer stays recognisable.    *)
(*                                                                         *)
(* Left out: what is sent and received (the chat session is reduced to its *)
(* uses of the client) and the callbacks, which only print.                *)
(***************************************************************************)
EXTENDS Naturals, FiniteSets

CONSTANTS
  Clients, NoClient,          \* identities of WebSocketClient objects, nullptr
  AutoReconnect,              \* config_.auto_reconnect
  HeartbeatEnabled,           \* config_.heartbeat_enabled
  MaxTries,                   \* config_.max_reconnect_tries
  InitialBackoff, MaxBackoff, Multiplier,   \* config_.*backoff*
  MaxDrops                    \* bound: how often the network fails

ASSUME ClientsAssumption == NoClient \notin Clients
ASSUME ConfigAssumption ==
  /\ AutoReconnect \in BOOLEAN /\ HeartbeatEnabled \in BOOLEAN
  /\ MaxTries \in Nat /\ MaxDrops \in Nat
  /\ InitialBackoff \in Nat /\ MaxBackoff \in Nat /\ Multiplier \in Nat

VARIABLES
  state_, should_run_, reconnect_count_, client_,   \* members of the manager
  joinable,    \* the std::thread members that are joinable
  pc,          \* where each thread is
  backoff_ms,  \* the local of reconnect_loop, per calling thread
  held,        \* a pointer to a client that main or hb keeps
  life,        \* of each client: "free", "live" or "dying" (in its destructor)
  running_,    \* of each client
  conn,        \* ws_ of each client: "none", "up", "broken" or "closed"
  receiver,    \* receiver_thread_ of each client: "none", "run" or "done"
  drops,       \* network failures so far
  quit,        \* the user has ended the session
  outcome      \* how the program ended, or "running"

managerVars == <<state_, should_run_, reconnect_count_, client_, joinable>>
clientVars == <<life, running_, conn, receiver>>
otherVars == <<backoff_ms, held, drops, quit, outcome>>
vars == <<managerVars, pc, clientVars, otherVars>>

Workers == {"hb", "mon", "rec"}
Threads == Workers \cup {"main"}
Reconnectors == {"rec", "mon"}

Init == /\ state_ = "Disconnected" /\ should_run_ = FALSE
        /\ reconnect_count_ = 0 /\ client_ = NoClient
        /\ joinable = {}
        /\ pc = [t \in Threads |-> IF t = "main" THEN "start" ELSE "none"]
        /\ backoff_ms = [t \in Reconnectors |-> 0]
        /\ held = [t \in {"main", "hb"} |-> NoClient]
        /\ life = [k \in Clients |-> "free"]
        /\ running_ = [k \in Clients |-> FALSE]
        /\ conn = [k \in Clients |-> "none"]
        /\ receiver = [k \in Clients |-> "none"]
        /\ drops = 0 /\ quit = FALSE /\ outcome = "running"

At(t, loc) == outcome = "running" /\ pc[t] = loc
Goto(t, loc) == pc' = [pc EXCEPT ![t] = loc]

\* A step of thread t that changes nothing the others can see.
Move(t, from, to) == /\ At(t, from) /\ Goto(t, to)
                     /\ UNCHANGED <<managerVars, clientVars, otherVars>>

set_state(t, from, new, to) ==
  /\ At(t, from) /\ Goto(t, to)
  /\ state_' = new
  /\ UNCHANGED <<should_run_, reconnect_count_, client_, joinable, clientVars, otherVars>>

\* A step in which t takes hold of a client, or lets go of it.
Hold(t, from, k, to) == /\ At(t, from) /\ Goto(t, to)
                        /\ held' = [held EXCEPT ![t] = k]
                        /\ UNCHANGED <<managerVars, clientVars, backoff_ms, drops, quit, outcome>>

\* The program ends.
End(how) == /\ outcome' = how
            /\ UNCHANGED <<managerVars, pc, clientVars, backoff_ms, held, drops, quit>>

\* The std::thread member w is assigned a new thread, by t.
Spawn(t, from, w, to) ==
  /\ At(t, from)
  /\ joinable' = joinable \cup {w}
  /\ pc' = [pc EXCEPT ![t] = to, ![w] = "top"]
  /\ UNCHANGED <<state_, should_run_, reconnect_count_, client_, clientVars, otherVars>>

\* A pointer whose object is gone, or is being destroyed.
Dangling(k) == k # NoClient /\ life[k] # "live"

\* What is_running() returns through pointer k (there is no answer from nullptr).
IsRunning(k) == IF k = NoClient THEN {}
                ELSE IF Dangling(k) THEN BOOLEAN ELSE {running_[k]}

\* A write to a broken connection may still be taken by the socket buffer.
SendMayWork(k) == k # NoClient /\ (Dangling(k) \/ conn[k] \in {"up", "broken"})
SendMayThrow(k) == k # NoClient /\ (Dangling(k) \/ conn[k] # "up")

-----------------------------------------------------------------------------
(* try_connect and what follows it, in start (main) and reconnect_loop (rec, mon) *)

\* client_ = std::make_unique<WebSocketClient>(...)
TryConnect(t) ==
  /\ At(t, "try") /\ Goto(t, "connecting")
  /\ \E k \in Clients :
       /\ life[k] = "free" /\ \A u \in DOMAIN held : held[u] # k
       /\ client_' = k
       /\ life' = [j \in Clients |-> IF j = k THEN "live"
                                     ELSE IF j = client_ THEN "free" ELSE life[j]]
  /\ UNCHANGED <<state_, should_run_, reconnect_count_, joinable, running_, conn, receiver, otherVars>>

\* connect(): the handshake is done, ws_ is open ...
Handshake(t) ==
  /\ At(t, "connecting") /\ Goto(t, "open")
  /\ conn' = [conn EXCEPT ![client_] = "up"]
  /\ UNCHANGED <<managerVars, life, running_, receiver, otherVars>>

\* ... running_ is set ...
SetRunning(t) ==
  /\ At(t, "open") /\ Goto(t, "receiver")
  /\ running_' = [running_ EXCEPT ![client_] = TRUE]
  /\ UNCHANGED <<managerVars, life, conn, receiver, otherVars>>

\* ... and the receiver thread is started.
StartReceiver(t) ==
  /\ At(t, "receiver") /\ Goto(t, "connected")
  /\ receiver' = [receiver EXCEPT ![client_] = "run"]
  /\ UNCHANGED <<managerVars, life, running_, conn, otherVars>>

\* std::min(backoff_ms * backoff_multiplier, max_backoff_ms)
Longer(ms) == IF ms * Multiplier < MaxBackoff THEN ms * Multiplier ELSE MaxBackoff

\* connect() throws: the client is destroyed.  reconnect_loop() tries again.
ConnectFails(t) ==
  /\ At(t, "connecting") /\ Goto(t, IF t = "main" THEN "failed" ELSE "loop")
  /\ client_' = NoClient
  /\ life' = [life EXCEPT ![client_] = "free"]
  /\ backoff_ms' = IF t = "main" THEN backoff_ms ELSE [backoff_ms EXCEPT ![t] = Longer(@)]
  /\ UNCHANGED <<state_, should_run_, reconnect_count_, joinable, running_, conn, receiver,
                 held, drops, quit, outcome>>

\* Mutant: the attempts of the last reconnection still count.
ConnectedNoReset(t) == set_state(t, "connected", "Connected", "spawn_hb")

\* try_connect() returned true.
Connected(t) ==
  /\ At(t, "connected") /\ Goto(t, "spawn_hb")
  /\ state_' = "Connected" /\ reconnect_count_' = 0
  /\ UNCHANGED <<should_run_, client_, joinable, clientVars, otherVars>>

\* start() spawns whatever the thread members hold; reconnect_loop() spawns only
\* where there is no joinable thread.
SpawnHeartbeat(t) ==
  IF HeartbeatEnabled /\ (t = "main" \/ "hb" \notin joinable)
  THEN Spawn(t, "spawn_hb", "hb", "spawn_mon")
  ELSE Move(t, "spawn_hb", "spawn_mon")

SpawnMonitor(t) ==
  LET next == IF t = "main" THEN "wait" ELSE "done"
  IN  IF t = "main" \/ "mon" \notin joinable THEN Spawn(t, "spawn_mon", "mon", next)
      ELSE Move(t, "spawn_mon", next)

Connect(t) == \/ TryConnect(t) \/ Handshake(t) \/ SetRunning(t) \/ StartReceiver(t)
              \/ ConnectFails(t) \/ Connected(t) \/ SpawnHeartbeat(t) \/ SpawnMonitor(t)

-----------------------------------------------------------------------------
(* reconnect_loop, run by rec and called by mon *)

\* Mutant: the attempts are not counted.
LoopTestUncounted(t) ==
  Move(t, "loop", IF ~should_run_ THEN "done"
                  ELSE IF MaxTries > 0 /\ reconnect_count_ > MaxTries THEN "give_up" ELSE "backoff")

LoopTest(t) ==
  IF ~should_run_ THEN Move(t, "loop", "done")
  ELSE /\ At(t, "loop")
       /\ Goto(t, IF MaxTries > 0 /\ reconnect_count_ + 1 > MaxTries THEN "give_up" ELSE "backoff")
       /\ reconnect_count_' = reconnect_count_ + 1
       /\ UNCHANGED <<state_, should_run_, client_, joinable, clientVars, otherVars>>

\* Mutant: the "return" after the last attempt is forgotten.
GiveUpNot(t) == set_state(t, "give_up", "Disconnected", "backoff")

\* The attempts are used up; or the connection is lost and auto_reconnect is off.
GiveUp(t) == set_state(t, "give_up", "Disconnected", "done")

\* sleep_for(backoff_ms); should_run_ is not read again before try_connect.
Backoff(t) == Move(t, "backoff", "try")

reconnect_loop(t) == LoopTest(t) \/ GiveUp(t) \/ Backoff(t) \/ Connect(t)

-----------------------------------------------------------------------------
(* monitor_loop *)

\* The loop's test, and the same test after sleep_for(1s).
MonitorTest == \/ Move("mon", "top", IF should_run_ THEN "sleep" ELSE "done")
               \/ Move("mon", "sleep", IF should_run_ THEN "poll" ELSE "done")

Lost == client_ # NoClient /\ ~running_[client_]

\* Mutant: the monitor does not ask is_running().
MonitorPollAny == Move("mon", "poll", IF client_ # NoClient THEN "lost" ELSE "top")

\* Mutant: the monitor looks once.
MonitorPollOnce == Move("mon", "poll", IF Lost THEN "lost" ELSE "done")

MonitorPoll == Move("mon", "poll", IF Lost THEN "lost" ELSE "top")

\* Mutant: the state is not set before the client is destroyed.
MonitorLostSilent == Move("mon", "lost", "reset")

MonitorLost == set_state("mon", "lost", "Reconnecting", "reset")

\* Mutant: client_.release() instead of client_.reset().
MonitorRelease ==
  /\ At("mon", "reset") /\ Goto("mon", "reset_join")
  /\ client_' = NoClient
  /\ UNCHANGED <<state_, should_run_, reconnect_count_, joinable, clientVars, otherVars>>

\* client_.reset(): the pointer is cleared, ~WebSocketClient begins and closes ...
MonitorReset ==
  /\ At("mon", "reset") /\ Goto("mon", "reset_join")
  /\ client_' = NoClient
  /\ life' = [life EXCEPT ![client_] = "dying"]
  /\ running_' = [running_ EXCEPT ![client_] = FALSE]
  /\ conn' = [conn EXCEPT ![client_] = "closed"]
  /\ UNCHANGED <<state_, should_run_, reconnect_count_, joinable, receiver, otherVars>>

\* ... it joins the receiver thread and returns; reconnect_loop() is called, or not.
MonitorResetJoin ==
  /\ At("mon", "reset_join") /\ Goto("mon", IF AutoReconnect THEN "loop" ELSE "give_up")
  /\ \A k \in Clients : life[k] = "dying" => receiver[k] # "run"
  /\ life' = [k \in Clients |-> IF life[k] = "dying" THEN "free" ELSE life[k]]
  /\ conn' = [k \in Clients |-> IF life[k] = "dying" THEN "none" ELSE conn[k]]
  /\ receiver' = [k \in Clients |-> IF life[k] = "dying" THEN "none" ELSE receiver[k]]
  /\ backoff_ms' = [backoff_ms EXCEPT !["mon"] = InitialBackoff]
  /\ UNCHANGED <<managerVars, running_, held, drops, quit, outcome>>

monitor_loop == \/ MonitorTest \/ MonitorPoll \/ MonitorLost \/ MonitorReset
                \/ MonitorResetJoin \/ reconnect_loop("mon")

-----------------------------------------------------------------------------
(* heartbeat_loop *)

\* The loop's test, and the test after sleep_for(heartbeat_interval_s).
HeartbeatTest ==
  \/ Move("hb", "top", IF should_run_ /\ state_ = "Connected" THEN "sleep" ELSE "done")
  \/ Move("hb", "sleep", IF should_run_ THEN "check" ELSE "done")

\* client_ is a plain pointer: a later use of it may read it again or go on with
\* the value that was read before.
HeartbeatPointers == {client_, held["hb"]}

\* if (!client_ || !client_->is_running()) break;
HeartbeatCheck == Hold("hb", "check", client_, IF client_ = NoClient THEN "done" ELSE "running")

HeartbeatRunning ==
  \E k \in HeartbeatPointers : \E r \in IsRunning(k) :
    Hold("hb", "running", IF r THEN k ELSE NoClient, IF r THEN "ping" ELSE "done")

\* client_->send_text("__ping__"), with the catch.
HeartbeatPing ==
  \E k \in HeartbeatPointers : \/ SendMayWork(k) /\ Hold("hb", "ping", NoClient, "top")
                               \/ SendMayThrow(k) /\ Hold("hb", "ping", NoClient, "done")

\* The client is used through nullptr or after its destruction.
HeartbeatUndefined ==
  /\ At("hb", "running") \/ At("hb", "ping")
  /\ \E k \in HeartbeatPointers : k = NoClient \/ Dangling(k)
  /\ End("undefined")

heartbeat_loop == HeartbeatTest \/ HeartbeatCheck \/ HeartbeatRunning \/ HeartbeatPing \/ HeartbeatUndefined

-----------------------------------------------------------------------------
(* The receiver thread of a client, and the network *)

\* receive_loop() ends, and ws_ is left as c.
ReceiverEnds(k, c) ==
  /\ outcome = "running"
  /\ receiver[k] = "run"
  /\ receiver' = [receiver EXCEPT ![k] = "done"]
  /\ running_' = [running_ EXCEPT ![k] = FALSE]
  /\ conn' = [conn EXCEPT ![k] = c]
  /\ UNCHANGED <<managerVars, pc, life, otherVars>>

\* The read fails: the stream is no longer open.
ReadFails(k) == conn[k] # "up" /\ ReceiverEnds(k, "closed")

\* The loop's test, before the first read or after a message has come.
ReceiverTest(k) == ~running_[k] /\ ReceiverEnds(k, conn[k])

\* The server closes or the network fails.
Drop(k) ==
  /\ outcome = "running"
  /\ conn[k] = "up" /\ drops < MaxDrops
  /\ conn' = [conn EXCEPT ![k] = "broken"]
  /\ drops' = drops + 1
  /\ UNCHANGED <<managerVars, pc, life, running_, receiver, backoff_ms, held, quit, outcome>>

-----------------------------------------------------------------------------
(* Main thread: start() *)

Start ==
  /\ At("main", "start") /\ Goto("main", "try")
  /\ should_run_' = TRUE /\ state_' = "Connecting"
  /\ UNCHANGED <<reconnect_count_, client_, joinable, clientVars, otherVars>>

\* The reconnect thread is started and main goes on at "next".
StartReconnect(next) ==
  /\ At("main", "failed") /\ pc' = [pc EXCEPT !["main"] = next, !["rec"] = "loop"]
  /\ state_' = "Reconnecting"
  /\ joinable' = joinable \cup {"rec"}
  /\ backoff_ms' = [backoff_ms EXCEPT !["rec"] = InitialBackoff]
  /\ UNCHANGED <<should_run_, reconnect_count_, client_, clientVars, held, drops, quit, outcome>>

\* Mutant: start() goes on to spawn the heartbeat and the monitor.
StartFailedGoesOn == StartReconnect("spawn_hb")

\* try_connect() returned false.
StartFailed == IF AutoReconnect THEN StartReconnect("wait")
               ELSE set_state("main", "failed", "Disconnected", "wait")

-----------------------------------------------------------------------------
(* Main thread: waiting for the connection, and the chat session *)

\* At most 100 naps of 100 ms: connected or not, the loop ends.
WaitConnected == Move("main", "wait", "check")

\* if (mgr.is_connected() && mgr.client())
CheckConnected ==
  \/ Move("main", "check", IF state_ = "Connected" THEN "check_client" ELSE "stop")
  \/ Move("main", "check_client", IF client_ # NoClient THEN "deref" ELSE "stop")

\* chat_session(*mgr.client())
BeginSession == Hold("main", "deref", client_, "session")

\* while (client.is_running())
SessionLoop ==
  \E r \in IsRunning(held["main"]) : Move("main", "session", IF r THEN "input" ELSE "close")

\* /exit or end of file.
SessionQuit ==
  /\ At("main", "input") /\ Goto("main", "close")
  /\ quit' = TRUE
  /\ UNCHANGED <<managerVars, clientVars, backoff_ms, held, drops, outcome>>

\* A command that needs no server, or something to send.
SessionInput == Move("main", "input", "session") \/ Move("main", "input", "send")

\* send_text or send_binary.  Nobody catches what they throw.
SessionSend == \/ SendMayWork(held["main"]) /\ Move("main", "send", "spin")
               \/ SendMayThrow(held["main"]) /\ At("main", "send") /\ End("uncaught")

\* spin_receive() returns if a message comes; "bench" then sends the next one.
SessionReply == Move("main", "spin", "session") \/ Move("main", "spin", "send")

\* client.close(), at the end of the session ("close") and in stop ("stop_close"):
\* running_ is cleared ...
CloseFlag ==
  LET k == held["main"]
  IN  /\ \/ At("main", "close") /\ Goto("main", "close_ws")
         \/ At("main", "stop_close") /\ Goto("main", "stop_ws")
      /\ k # NoClient
      /\ running_' = IF Dangling(k) THEN running_ ELSE [running_ EXCEPT ![k] = FALSE]
      /\ UNCHANGED <<managerVars, life, conn, receiver, otherVars>>

\* ... a stream that is open is closed ...
CloseStream ==
  LET k == held["main"]
  IN  /\ \/ At("main", "close_ws") /\ Goto("main", "close_join")
         \/ At("main", "stop_ws") /\ Goto("main", "stop_join")
      /\ conn' = IF Dangling(k) \/ conn[k] = "none" THEN conn ELSE [conn EXCEPT ![k] = "closed"]
      /\ UNCHANGED <<managerVars, life, running_, receiver, otherVars>>

\* ... and the receiver thread is joined.
CloseJoin ==
  /\ \/ Hold("main", "close_join", NoClient, "stop")
     \/ Hold("main", "stop_join", NoClient, "join_hb")
  /\ Dangling(held["main"]) \/ receiver[held["main"]] # "run"

\* The client is used through nullptr or after its destruction.
MainUndefined ==
  /\ \E loc \in {"session", "send", "spin", "close", "close_ws", "close_join",
                 "stop_close", "stop_ws", "stop_join"} : At("main", loc)
  /\ held["main"] = NoClient \/ Dangling(held["main"])
  /\ End("undefined")

-----------------------------------------------------------------------------
(* Main thread: stop() and the destructor *)

StopBegin == set_state("main", "stop", "Closing", "stop_flag")

\* Mutant: the threads are not told.
StopFlagForgotten == Move("main", "stop_flag", "stop_client")

StopFlag ==
  /\ At("main", "stop_flag") /\ Goto("main", "stop_client")
  /\ should_run_' = FALSE
  /\ UNCHANGED <<state_, reconnect_count_, client_, joinable, clientVars, otherVars>>

\* if (client_) client_->close()
StopClient == Hold("main", "stop_client", client_, IF client_ = NoClient THEN "join_hb" ELSE "stop_close")

\* if (thread.joinable()) thread.join()
Join(w, from, to) ==
  /\ At("main", from) /\ Goto("main", to)
  /\ w \in joinable => pc[w] = "done"
  /\ joinable' = joinable \ {w}
  /\ UNCHANGED <<state_, should_run_, reconnect_count_, client_, clientVars, otherVars>>

\* Mutant: the reconnect thread is not waited for.
StopJoinForgotten == \/ Join("hb", "join_hb", "join_mon") \/ Join("mon", "join_mon", "join_rec")
                     \/ Move("main", "join_rec", "closed")

StopJoin == \/ Join("hb", "join_hb", "join_mon") \/ Join("mon", "join_mon", "join_rec")
            \/ Join("rec", "join_rec", "closed")

StopClosed == set_state("main", "closed", "Closed", "destroy")

\* ~ConnectionManager: stop() finds should_run_ false and returns; a joinable std::thread
\* member calls std::terminate; otherwise the client is closed and main returns.
Destroy == At("main", "destroy") /\ End(IF joinable = {} THEN "exited" ELSE "terminated")

-----------------------------------------------------------------------------
\* The steps that main takes by itself, and those that depend on the user and
\* on the messages of the server.
MainRuns == \/ Start \/ Connect("main") \/ StartFailed \/ WaitConnected \/ CheckConnected
            \/ BeginSession \/ SessionLoop \/ SessionSend \/ CloseFlag \/ CloseStream \/ CloseJoin
            \/ MainUndefined
            \/ StopBegin \/ StopFlag \/ StopClient \/ StopJoin \/ StopClosed \/ Destroy
MainWaits == SessionQuit \/ SessionInput \/ SessionReply

Ended == outcome # "running" /\ UNCHANGED vars

Next == \/ MainRuns \/ MainWaits
        \/ reconnect_loop("rec") \/ monitor_loop \/ heartbeat_loop
        \/ \E k \in Clients : ReadFails(k) \/ ReceiverTest(k) \/ Drop(k)
        \/ Ended

Spec == Init /\ [][Next]_vars

\* Every thread that can go on does so in the end: sleeps are finite and a read
\* from a stream that is not open fails.  The code sets no timeout: that connect()
\* succeeds or throws, and that close() returns, is assumed of the operating system
\* and of the server, which answers a handshake.  Nothing is assumed of the user, of
\* the server's other messages or of the network.
Fairness == /\ WF_vars(MainRuns)
            /\ WF_vars(reconnect_loop("rec")) /\ WF_vars(monitor_loop) /\ WF_vars(heartbeat_loop)
            /\ \A k \in Clients : WF_vars(ReadFails(k))

FairSpec == Spec /\ Fairness

-----------------------------------------------------------------------------
(* Properties *)

States == {"Disconnected", "Connecting", "Connected", "Reconnecting", "Closing", "Closed"}

ConnectPcs == {"try", "connecting", "open", "receiver", "connected", "spawn_hb", "spawn_mon"}
LoopPcs == ConnectPcs \cup {"loop", "give_up", "backoff"}

MainPcs == ConnectPcs \cup
  {"start", "failed", "wait", "check", "check_client", "deref", "session", "input", "send",
   "spin", "close", "close_ws", "close_join", "stop", "stop_flag", "stop_client", "stop_close",
   "stop_ws", "stop_join", "join_hb", "join_mon", "join_rec", "closed", "destroy"}
Pcs == [main |-> MainPcs,
        rec |-> LoopPcs \cup {"none", "done"},
        mon |-> LoopPcs \cup {"none", "top", "sleep", "poll", "lost", "reset", "reset_join", "done"},
        hb |-> {"none", "top", "sleep", "check", "running", "ping", "done"}]

TypeOK ==
  /\ state_ \in States /\ should_run_ \in BOOLEAN
  /\ reconnect_count_ \in Nat
  /\ client_ \in Clients \cup {NoClient}
  /\ joinable \subseteq Workers
  /\ DOMAIN pc = Threads /\ \A t \in Threads : pc[t] \in Pcs[t]
  /\ backoff_ms \in [Reconnectors -> Nat]
  /\ held \in [{"main", "hb"} -> Clients \cup {NoClient}]
  /\ life \in [Clients -> {"free", "live", "dying"}]
  /\ running_ \in [Clients -> BOOLEAN]
  /\ conn \in [Clients -> {"none", "up", "broken", "closed"}]
  /\ receiver \in [Clients -> {"none", "run", "done"}]
  /\ drops \in 0 .. MaxDrops /\ quit \in BOOLEAN
  /\ outcome \in {"running", "exited", "uncaught", "terminated", "undefined"}

\* is_connected() can be relied on at the moment it is called: while state_ is
\* Connected, client_ points to a client that nobody has begun to destroy.
ConnectedHasClient == state_ = "Connected" => client_ # NoClient /\ life[client_] = "live"

\* The threads that create, connect or replace client_.
Replacing == {t \in {"main", "rec", "mon"} :
                pc[t] \in LoopPcs \cup {"failed", "lost", "reset", "reset_join"}}

\* client_ is not protected by a lock.  Its writers are kept apart by the order in
\* which the threads are started alone: there is never more than one of them, and
\* it never assigns over a client (std::make_unique in try_connect destroys nothing).
OneReplacer ==
  /\ Cardinality(Replacing) <= 1
  /\ \A t \in Replacing : pc[t] \in {"loop", "backoff", "try"} => client_ = NoClient

\* No connection is leaked: a client that is alive is the one of client_, and a
\* receiver thread belongs to a client that waits for it.
NoClientLeaked ==
  \A k \in Clients : /\ life[k] = "live" => k = client_
                     /\ receiver[k] = "run" => life[k] # "free"

\* reconnect_loop() makes at most max_reconnect_tries attempts for each lost
\* connection, and attempt n waits for initial_backoff_ms * multiplier^(n-1),
\* at most max_backoff_ms.
Capped(n) == IF n < MaxBackoff THEN n ELSE MaxBackoff
Power(n) ==
  LET p[k \in 0 .. n] == IF k = 0 THEN 1 ELSE p[k - 1] * Multiplier
  IN  p[n]
BackoffSchedule ==
  \A t \in Reconnectors :
    pc[t] \in {"backoff", "try", "connecting"} =>
      /\ reconnect_count_ >= 1
      /\ MaxTries > 0 => reconnect_count_ <= MaxTries
      /\ backoff_ms[t] = IF reconnect_count_ = 1 THEN InitialBackoff
                         ELSE Capped(InitialBackoff * Power(reconnect_count_ - 1))

\* Heartbeat, monitor and main use client_ without a lock, several times in a row.
\* Only a lost connection or the end of the session may disturb them: until then the
\* pointer that the heartbeat goes on with is the one of a living client, the heartbeat
\* is not over, and nobody meets a destroyed client or an exception.
UndisturbedWhileUp ==
  drops = 0 /\ ~quit /\ should_run_ /\ state_ = "Connected" =>
    /\ pc["hb"] \in {"running", "ping"} => held["hb"] = client_ /\ ~Dangling(held["hb"])
    /\ pc["hb"] # "done" /\ outcome = "running"

\* stop() leaves nothing behind: once state_ is Closed it stays so, client_ is no
\* longer replaced, and no thread touches a client any more.
ClosedIsFinal ==
  [][state_ = "Closed" =>
       /\ state_' = "Closed" /\ client_' = client_
       /\ Replacing = {} /\ pc["hb"] \notin {"check", "running", "ping"}]_vars

\* Giving up is final: after Disconnected nobody connects again behind the back of
\* the application, only stop() changes the state.
GaveUpIsFinal ==
  [][state_ = "Disconnected" /\ should_run_ => state_' \in {"Disconnected", "Closing"}]_vars

\* Main waits for the receiver thread of a client that was connected after main
\* had closed it: connect() has set running_ again and nobody closes ws_.
Reopened == /\ pc["main"] \in {"close_join", "stop_join"}
            /\ receiver[held["main"]] = "run" /\ conn[held["main"]] = "up"

\* stop() comes back and the program ends, whatever the other threads were doing:
\* no thread waits for a thread that waits for it.  The one exception is Reopened.
StopTerminates == pc["main"] = "stop" ~> outcome # "running" \/ Reopened

\* A reconnection comes to an end, with a connection, with giving up, or with stop().
ReconnectSettles ==
  state_ = "Reconnecting" ~> state_ # "Reconnecting" \/ outcome # "running"

\* A connection that was lost does not stay Connected (monitor_loop: "Polls for
\* connection drops, triggers reconnect").
LostConnectionNoticed ==
  (state_ = "Connected" /\ should_run_ /\ client_ # NoClient /\ ~running_[client_])
    ~> (state_ # "Connected" \/ ~should_run_ \/ outcome # "running" \/ running_[client_])

\* The session's reference stays valid ("Wraps WebSocketClient with lifecycle
\* management"): chat_session never uses a client that was destroyed.
SessionClientLive ==
  pc["main"] \in {"session", "send", "spin", "close"} =>
    held["main"] # NoClient /\ ~Dangling(held["main"])
=============================================================================
