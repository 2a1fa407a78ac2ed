---------------------- MODULE ConnectionManagerProofs ----------------------
(***************************************************************************)
(* Proofs about ConnectionManager, for any set of clients, any             *)
(* configuration and any number of network failures.                       *)
(*                                                                         *)
(* client_ has no lock.  What keeps its users apart is the order in which  *)
(* the threads are started and joined, so the inductive invariant is built *)
(* on the program counters, in layers: Order (who runs while whom),        *)
(* StateSaid (what state_ tells about them), Ownership (what they tell     *)
(* about client_ and the clients), Calm (what holds until the network or   *)
(* the user disturbs a connection) and Attempts (the arithmetic of         *)
(* reconnect_loop).  A step preserves a layer given the layers before it.  *)
(***************************************************************************)
EXTENDS ConnectionManager, FiniteSetTheorems, WellFoundedInduction, TLAPS

\* The threads that run try_connect().
Builders == {"main", "rec", "mon"}

-----------------------------------------------------------------------------
(* The inductive invariant *)

RecPcs == LoopPcs \cup {"none", "done"}
MonPcs == LoopPcs \cup {"none", "top", "sleep", "poll", "lost", "reset", "reset_join", "done"}
HbPcs == {"none", "top", "sleep", "check", "running", "ping", "done"}

\* TypeOK in four parts: the places of the threads ...
Places == /\ DOMAIN pc = Threads
          /\ pc["main"] \in MainPcs /\ pc["rec"] \in RecPcs
          /\ pc["mon"] \in MonPcs /\ pc["hb"] \in HbPcs

\* ... the members of the manager and the end of the program ...
ManagerTypes ==
  /\ state_ \in States /\ should_run_ \in BOOLEAN /\ quit \in BOOLEAN
  /\ client_ \in Clients \cup {NoClient}
  /\ joinable \subseteq Workers
  /\ outcome \in {"running", "exited", "uncaught", "terminated", "undefined"}

\* ... what is counted ...
Counters == /\ reconnect_count_ \in Nat /\ drops \in 0 .. MaxDrops
            /\ backoff_ms \in [Reconnectors -> Nat]

\* ... and the clients and the pointers to them.
ClientTypes ==
  /\ held \in [{"main", "hb"} -> Clients \cup {NoClient}]
  /\ life \in [Clients -> {"free", "live", "dying"}]
  /\ running_ \in [Clients -> BOOLEAN]
  /\ conn \in [Clients -> {"none", "up", "broken", "closed"}]
  /\ receiver \in [Clients -> {"none", "run", "done"}]

\* Main is in start(); main has cleared should_run_ in stop().
Starting == ConnectPcs \cup {"start", "failed"}
Stopped == {"stop_client", "stop_close", "stop_ws", "stop_join",
            "join_hb", "join_mon", "join_rec", "closed", "destroy"}

\* Where a thread that is started too late can be: it reads should_run_ first.
Idle == {"none", "top", "done"}

\* Who runs while whom.  start() is alone, the reconnect thread and the monitor
\* follow each other, a thread that runs can be joined, and a thread that was joined
\* comes back only to see that should_run_ is false.
Order ==
  /\ pc["main"] \in Starting =>
       /\ pc["rec"] = "none" /\ pc["mon"] = "none"
       /\ pc["main"] # "spawn_mon" => pc["hb"] = "none"
  /\ pc["rec"] \in LoopPcs => pc["mon"] = "none"
  /\ \A w \in Workers : pc[w] \notin {"none", "done"} => w \in joinable
  /\ should_run_ <=> pc["main"] \notin Stopped \cup {"start"}
  /\ pc["main"] \in {"join_mon", "join_rec", "closed", "destroy"} => pc["hb"] \in Idle
  /\ pc["main"] \in {"join_rec", "closed", "destroy"} => pc["mon"] \in Idle
  /\ pc["main"] \in {"closed", "destroy"} => pc["rec"] \in {"none", "done"}

\* The places of a builder that has no connection yet, or none any more.
Unconnected == {"start", "failed", "reset", "reset_join", "loop", "give_up", "backoff",
                "try", "connecting", "open", "receiver", "connected"}

\* What state_ tells about the threads.
StateSaid ==
  /\ state_ = "Closed" => pc["main"] = "destroy"
  /\ \A t \in Builders : pc[t] \in Unconnected => state_ # "Connected"
  /\ state_ = "Disconnected" /\ should_run_ =>
       /\ pc["main"] \notin Starting
       /\ pc["rec"] \in {"none", "done"} /\ pc["mon"] \in {"none", "done"}

WithoutClient == {"start", "failed", "loop", "give_up", "backoff", "try", "reset_join"}
WithClient == {"connecting", "open", "receiver", "connected", "spawn_hb", "spawn_mon",
               "lost", "reset"}

\* Who has a client, which client lives, and that a client is new when connect() is called.
Ownership ==
  /\ \A t \in Builders : /\ pc[t] \in WithoutClient => client_ = NoClient
                         /\ pc[t] \in WithClient => client_ # NoClient
  /\ state_ = "Connected" => client_ # NoClient
  /\ \A k \in Clients :
       /\ life[k] = "live" <=> k = client_
       /\ life[k] = "dying" => pc["mon"] = "reset_join" /\ ~running_[k]
       /\ life[k] = "free" \/ (k = client_ /\ \E t \in Builders : pc[t] = "connecting") =>
            receiver[k] = "none" /\ conn[k] = "none" /\ ~running_[k]

\* Neither the network nor the user nor stop() has touched the connection.
Undisturbed == drops = 0 /\ ~quit /\ should_run_

Up == client_ # NoClient /\ conn[client_] = "up" /\ running_[client_]

\* Until then the monitor polls in vain, the session does not end, and the heartbeat
\* begins after the only connection that is made ...
CalmThreads ==
  /\ outcome = "running"
  /\ pc["mon"] \in {"none", "top", "sleep", "poll"}
  /\ pc["main"] \notin {"close", "close_ws", "close_join"}
  /\ pc["main"] \in {"check_client", "deref", "session", "input", "send", "spin"} =>
       state_ = "Connected"
  /\ pc["hb"] = "done" => state_ # "Connected"
  /\ pc["hb"] # "none" => \A t \in Builders : pc[t] \notin Unconnected \cup {"spawn_hb"}
  /\ pc["mon"] # "none" => \A t \in Builders : pc[t] \notin LoopPcs

\* ... and the client is up for whoever uses it.
CalmClient ==
  /\ \/ state_ = "Connected" \/ pc["hb"] # "none" \/ pc["mon"] # "none"
     \/ \E t \in Builders : pc[t] \in {"connected", "spawn_hb", "spawn_mon"}
     => Up
  /\ pc["main"] \in {"session", "input", "send", "spin"} => held["main"] = client_
  /\ pc["hb"] \in {"running", "ping"} => held["hb"] = client_
  /\ \A t \in Builders : /\ pc[t] \in {"open", "receiver"} => conn[client_] = "up"
                         /\ pc[t] = "receiver" => running_[client_]
  /\ \A k \in Clients : receiver[k] = "run" => conn[k] = "up" /\ running_[k]

Calm == Undisturbed => CalmThreads /\ CalmClient

IInv == /\ Places /\ ManagerTypes /\ Counters /\ ClientTypes
        /\ Order /\ StateSaid /\ Ownership /\ Calm

\* How long attempt n waits.
Wait(n) == IF n = 1 THEN InitialBackoff ELSE Capped(InitialBackoff * Power(n - 1))

\* The attempts of one reconnection are counted from the connection before it.
Attempts ==
  /\ \A t \in Reconnectors :
       /\ pc[t] = "loop" => backoff_ms[t] = Wait(reconnect_count_ + 1)
       /\ pc[t] \in {"backoff", "try", "connecting"} =>
            /\ reconnect_count_ >= 1
            /\ MaxTries > 0 => reconnect_count_ <= MaxTries
            /\ backoff_ms[t] = Wait(reconnect_count_)
       /\ pc[t] \in {"spawn_hb", "spawn_mon", "top", "sleep", "poll", "lost", "reset",
                     "reset_join"} => reconnect_count_ = 0
  /\ pc["main"] \in Starting => reconnect_count_ = 0

-----------------------------------------------------------------------------
(* The types *)

\* A step takes every thread from a place of its own to a place of its own.
LEMMA PlacesStep == ASSUME Places, [Next]_vars PROVE Places'
<1> USE DEF Places, Threads, Workers, Reconnectors, MainPcs, RecPcs, MonPcs, HbPcs, LoopPcs,
            ConnectPcs, At, Goto, Move, set_state, Hold, End, Spawn, managerVars, clientVars,
            otherVars
<1>1. ASSUME NEW t \in Builders, Connect(t) PROVE Places'
  BY <1>1 DEF Builders, Connect, TryConnect, Handshake, SetRunning, StartReceiver,
      ConnectFails, Longer, Connected, SpawnHeartbeat, SpawnMonitor
<1>2. ASSUME NEW t \in Reconnectors, LoopTest(t) \/ GiveUp(t) \/ Backoff(t) PROVE Places'
  BY <1>2 DEF LoopTest, GiveUp, Backoff
<1>3. CASE MonitorTest \/ MonitorPoll \/ MonitorLost \/ MonitorReset \/ MonitorResetJoin
  BY <1>3 DEF MonitorTest, MonitorPoll, MonitorLost, MonitorReset, MonitorResetJoin
<1>4. CASE heartbeat_loop
  BY <1>4 DEF heartbeat_loop, HeartbeatTest, HeartbeatCheck, HeartbeatRunning,
      HeartbeatPointers, HeartbeatPing, HeartbeatUndefined
<1>5. ASSUME NEW k \in Clients, ReadFails(k) \/ ReceiverTest(k) \/ Drop(k) PROVE Places'
  BY <1>5 DEF ReadFails, ReceiverEnds, ReceiverTest, Drop
<1>6. CASE Start \/ StartFailed
  BY <1>6 DEF Start, StartFailed, StartReconnect
<1>7. CASE WaitConnected \/ CheckConnected \/ BeginSession \/ SessionLoop
  BY <1>7 DEF WaitConnected, CheckConnected, BeginSession, SessionLoop
<1>8. CASE MainWaits \/ SessionSend
  BY <1>8 DEF MainWaits, SessionQuit, SessionInput, SessionReply, SessionSend
<1>9. CASE CloseFlag \/ CloseStream \/ CloseJoin \/ MainUndefined
  BY <1>9 DEF CloseFlag, CloseStream, CloseJoin, MainUndefined
<1>10. CASE StopBegin \/ StopFlag \/ StopClient \/ StopJoin \/ StopClosed \/ Destroy
  BY <1>10 DEF StopBegin, StopFlag, StopClient, StopJoin, Join, StopClosed, Destroy
<1>11. CASE UNCHANGED vars
  BY <1>11 DEF vars
<1> QED
  BY <1>1, <1>2, <1>3, <1>4, <1>5, <1>6, <1>7, <1>8, <1>9, <1>10, <1>11
  DEF Next, MainRuns, MainWaits, reconnect_loop, monitor_loop, Ended, Builders, Reconnectors

\* The members of the manager keep their types.
LEMMA ManagerTypesStep == ASSUME ManagerTypes, [Next]_vars PROVE ManagerTypes'
<1> USE DEF ManagerTypes, States
<1> USE DEF Threads, Workers, Reconnectors, At, Move, set_state, Hold, End, Spawn,
            managerVars, clientVars, otherVars
<1>1. ASSUME NEW t \in Builders, Connect(t) PROVE ManagerTypes'
  BY <1>1 DEF Builders, Connect, TryConnect, Handshake, SetRunning, StartReceiver,
      ConnectFails, Longer, Connected, SpawnHeartbeat, SpawnMonitor
<1>2. ASSUME NEW t \in Reconnectors, LoopTest(t) \/ GiveUp(t) \/ Backoff(t) PROVE ManagerTypes'
  BY <1>2 DEF LoopTest, GiveUp, Backoff
<1>3. CASE MonitorTest \/ MonitorPoll \/ MonitorLost \/ MonitorReset \/ MonitorResetJoin
  BY <1>3 DEF MonitorTest, MonitorPoll, MonitorLost, MonitorReset, MonitorResetJoin
<1>4. CASE heartbeat_loop
  BY <1>4 DEF heartbeat_loop, HeartbeatTest, HeartbeatCheck, HeartbeatRunning,
      HeartbeatPointers, HeartbeatPing, HeartbeatUndefined
<1>5. ASSUME NEW k \in Clients, ReadFails(k) \/ ReceiverTest(k) \/ Drop(k) PROVE ManagerTypes'
  BY <1>5 DEF ReadFails, ReceiverEnds, ReceiverTest, Drop
<1>6. CASE Start \/ StartFailed
  BY <1>6 DEF Start, StartFailed, StartReconnect
<1>7. CASE WaitConnected \/ CheckConnected \/ BeginSession \/ SessionLoop
  BY <1>7 DEF WaitConnected, CheckConnected, BeginSession, SessionLoop
<1>8. CASE MainWaits \/ SessionSend
  BY <1>8 DEF MainWaits, SessionQuit, SessionInput, SessionReply, SessionSend
<1>9. CASE CloseFlag \/ CloseStream \/ CloseJoin \/ MainUndefined
  BY <1>9 DEF CloseFlag, CloseStream, CloseJoin, MainUndefined
<1>10. CASE StopBegin \/ StopFlag \/ StopClient \/ StopJoin \/ StopClosed \/ Destroy
  BY <1>10 DEF StopBegin, StopFlag, StopClient, StopJoin, Join, StopClosed, Destroy
<1>11. CASE UNCHANGED vars
  BY <1>11 DEF vars
<1> QED
  BY <1>1, <1>2, <1>3, <1>4, <1>5, <1>6, <1>7, <1>8, <1>9, <1>10, <1>11
  DEF Next, MainRuns, MainWaits, reconnect_loop, monitor_loop, Ended, Builders, Reconnectors

\* The counters stay natural numbers, and the network fails no more often than it may.
LEMMA CountersStep == ASSUME Counters, [Next]_vars PROVE Counters'
<1> USE ConfigAssumption DEF Counters
<1> USE DEF Threads, Workers, Reconnectors, At, Move, set_state, Hold, End, Spawn,
            managerVars, clientVars, otherVars
<1>1. ASSUME NEW t \in Builders, Connect(t) PROVE Counters'
  BY <1>1 DEF Builders, Connect, TryConnect, Handshake, SetRunning, StartReceiver,
      ConnectFails, Longer, Connected, SpawnHeartbeat, SpawnMonitor
<1>2. ASSUME NEW t \in Reconnectors, LoopTest(t) \/ GiveUp(t) \/ Backoff(t) PROVE Counters'
  BY <1>2 DEF LoopTest, GiveUp, Backoff
<1>3. CASE MonitorTest \/ MonitorPoll \/ MonitorLost \/ MonitorReset \/ MonitorResetJoin
  BY <1>3 DEF MonitorTest, MonitorPoll, MonitorLost, MonitorReset, MonitorResetJoin
<1>4. CASE heartbeat_loop
  BY <1>4 DEF heartbeat_loop, HeartbeatTest, HeartbeatCheck, HeartbeatRunning,
      HeartbeatPointers, HeartbeatPing, HeartbeatUndefined
<1>5. ASSUME NEW k \in Clients, ReadFails(k) \/ ReceiverTest(k) \/ Drop(k) PROVE Counters'
  BY <1>5 DEF ReadFails, ReceiverEnds, ReceiverTest, Drop
<1>6. CASE Start \/ StartFailed
  BY <1>6 DEF Start, StartFailed, StartReconnect
<1>7. CASE WaitConnected \/ CheckConnected \/ BeginSession \/ SessionLoop
  BY <1>7 DEF WaitConnected, CheckConnected, BeginSession, SessionLoop
<1>8. CASE MainWaits \/ SessionSend
  BY <1>8 DEF MainWaits, SessionQuit, SessionInput, SessionReply, SessionSend
<1>9. CASE CloseFlag \/ CloseStream \/ CloseJoin \/ MainUndefined
  BY <1>9 DEF CloseFlag, CloseStream, CloseJoin, MainUndefined
<1>10. CASE StopBegin \/ StopFlag \/ StopClient \/ StopJoin \/ StopClosed \/ Destroy
  BY <1>10 DEF StopBegin, StopFlag, StopClient, StopJoin, Join, StopClosed, Destroy
<1>11. CASE UNCHANGED vars
  BY <1>11 DEF vars
<1> QED
  BY <1>1, <1>2, <1>3, <1>4, <1>5, <1>6, <1>7, <1>8, <1>9, <1>10, <1>11
  DEF Next, MainRuns, MainWaits, reconnect_loop, monitor_loop, Ended, Builders, Reconnectors

\* The clients and the pointers to them keep their types.
LEMMA ClientTypesStep == ASSUME ManagerTypes, ClientTypes, [Next]_vars PROVE ClientTypes'
<1> USE DEF ManagerTypes, ClientTypes
<1> USE DEF Threads, Workers, Reconnectors, At, Move, set_state, Hold, End, Spawn,
            managerVars, clientVars, otherVars
<1>1. ASSUME NEW t \in Builders, Connect(t) PROVE ClientTypes'
  <2>1. CASE TryConnect(t)
    BY <2>1 DEF TryConnect
  <2>2. CASE Handshake(t) \/ SetRunning(t) \/ StartReceiver(t) \/ ConnectFails(t)
    BY <2>2 DEF Handshake, SetRunning, StartReceiver, ConnectFails
  <2>3. CASE Connected(t) \/ SpawnHeartbeat(t) \/ SpawnMonitor(t)
    BY <2>3 DEF Connected, SpawnHeartbeat, SpawnMonitor
  <2> QED BY <1>1, <2>1, <2>2, <2>3 DEF Connect
<1>2. ASSUME NEW t \in Reconnectors, LoopTest(t) \/ GiveUp(t) \/ Backoff(t) PROVE ClientTypes'
  BY <1>2 DEF LoopTest, GiveUp, Backoff
<1>3. CASE MonitorTest \/ MonitorPoll \/ MonitorLost \/ MonitorReset \/ MonitorResetJoin
  <2>1. CASE MonitorTest \/ MonitorPoll \/ MonitorLost
    BY <2>1 DEF MonitorTest, MonitorPoll, MonitorLost
  <2>2. CASE MonitorReset
    BY <2>2 DEF MonitorReset
  <2>3. CASE MonitorResetJoin
    BY <2>3 DEF MonitorResetJoin
  <2> QED BY <1>3, <2>1, <2>2, <2>3
<1>4. CASE heartbeat_loop
  BY <1>4 DEF heartbeat_loop, HeartbeatTest, HeartbeatCheck, HeartbeatRunning,
      HeartbeatPointers, HeartbeatPing, HeartbeatUndefined
<1>5. ASSUME NEW k \in Clients, ReadFails(k) \/ ReceiverTest(k) \/ Drop(k) PROVE ClientTypes'
  BY <1>5 DEF ReadFails, ReceiverEnds, ReceiverTest, Drop
<1>6. CASE Start \/ StartFailed
  BY <1>6 DEF Start, StartFailed, StartReconnect
<1>7. CASE WaitConnected \/ CheckConnected \/ BeginSession \/ SessionLoop
  BY <1>7 DEF WaitConnected, CheckConnected, BeginSession, SessionLoop
<1>8. CASE MainWaits \/ SessionSend
  BY <1>8 DEF MainWaits, SessionQuit, SessionInput, SessionReply, SessionSend
<1>9. CASE CloseFlag \/ CloseStream \/ CloseJoin \/ MainUndefined
  BY <1>9 DEF CloseFlag, CloseStream, CloseJoin, MainUndefined
<1>10. CASE StopBegin \/ StopFlag \/ StopClient \/ StopJoin \/ StopClosed \/ Destroy
  BY <1>10 DEF StopBegin, StopFlag, StopClient, StopJoin, Join, StopClosed, Destroy
<1>11. CASE UNCHANGED vars
  BY <1>11 DEF vars
<1> QED
  BY <1>1, <1>2, <1>3, <1>4, <1>5, <1>6, <1>7, <1>8, <1>9, <1>10, <1>11
  DEF Next, MainRuns, MainWaits, reconnect_loop, monitor_loop, Ended, Builders, Reconnectors

-----------------------------------------------------------------------------
(* The layers of the invariant *)

\* Threads are started and joined in order.
LEMMA OrderStep == ASSUME Places, Order, [Next]_vars PROVE Order'
<1> USE DEF Order, Starting, Stopped, Idle
<1> USE DEF Places, Threads, Workers, Reconnectors, MainPcs, RecPcs, MonPcs, HbPcs, LoopPcs,
            ConnectPcs, At, Goto, Move, set_state, Hold, End, Spawn, managerVars, clientVars,
            otherVars
<1>1. ASSUME NEW t \in Builders, Connect(t) PROVE Order'
  BY <1>1 DEF Builders, Connect, TryConnect, Handshake, SetRunning, StartReceiver,
      ConnectFails, Longer, Connected, SpawnHeartbeat, SpawnMonitor
<1>2. ASSUME NEW t \in Reconnectors, LoopTest(t) \/ GiveUp(t) \/ Backoff(t) PROVE Order'
  BY <1>2 DEF LoopTest, GiveUp, Backoff
<1>3. CASE MonitorTest \/ MonitorPoll \/ MonitorLost \/ MonitorReset \/ MonitorResetJoin
  BY <1>3 DEF MonitorTest, MonitorPoll, MonitorLost, MonitorReset, MonitorResetJoin
<1>4. CASE heartbeat_loop
  BY <1>4 DEF heartbeat_loop, HeartbeatTest, HeartbeatCheck, HeartbeatRunning,
      HeartbeatPointers, HeartbeatPing, HeartbeatUndefined
<1>5. ASSUME NEW k \in Clients, ReadFails(k) \/ ReceiverTest(k) \/ Drop(k) PROVE Order'
  BY <1>5 DEF ReadFails, ReceiverEnds, ReceiverTest, Drop
<1>6. CASE Start \/ StartFailed
  BY <1>6 DEF Start, StartFailed, StartReconnect
<1>7. CASE WaitConnected \/ CheckConnected \/ BeginSession \/ SessionLoop
  BY <1>7 DEF WaitConnected, CheckConnected, BeginSession, SessionLoop
<1>8. CASE MainWaits \/ SessionSend
  BY <1>8 DEF MainWaits, SessionQuit, SessionInput, SessionReply, SessionSend
<1>9. CASE CloseFlag \/ CloseStream \/ CloseJoin \/ MainUndefined
  BY <1>9 DEF CloseFlag, CloseStream, CloseJoin, MainUndefined
<1>10. CASE StopBegin \/ StopFlag \/ StopClient \/ StopJoin \/ StopClosed \/ Destroy
  BY <1>10 DEF StopBegin, StopFlag, StopClient, StopJoin, Join, StopClosed, Destroy
<1>11. CASE UNCHANGED vars
  BY <1>11 DEF vars
<1> QED
  BY <1>1, <1>2, <1>3, <1>4, <1>5, <1>6, <1>7, <1>8, <1>9, <1>10, <1>11
  DEF Next, MainRuns, MainWaits, reconnect_loop, monitor_loop, Ended, Builders, Reconnectors

\* At most one thread creates, connects or replaces the client.
LEMMA OneBuilder ==
  ASSUME Places, Order, NEW t \in Replacing, NEW u \in Replacing
  PROVE  t = u
  BY DEF Places, Order, Replacing, Starting, MainPcs, RecPcs, MonPcs, LoopPcs, ConnectPcs

\* state_ tells the truth about the threads.
LEMMA StateSaidStep == ASSUME Places, Order, StateSaid, [Next]_vars PROVE StateSaid'
<1> USE DEF Order, StateSaid, Builders, Unconnected, Starting, Stopped, Idle
<1> USE DEF Places, Threads, Workers, Reconnectors, MainPcs, RecPcs, MonPcs, HbPcs, LoopPcs,
            ConnectPcs, At, Goto, Move, set_state, Hold, End, Spawn, managerVars, clientVars,
            otherVars
<1>1. ASSUME NEW t \in Builders, Connect(t) PROVE StateSaid'
  BY <1>1 DEF Builders, Connect, TryConnect, Handshake, SetRunning, StartReceiver,
      ConnectFails, Longer, Connected, SpawnHeartbeat, SpawnMonitor
<1>2. ASSUME NEW t \in Reconnectors, LoopTest(t) \/ GiveUp(t) \/ Backoff(t) PROVE StateSaid'
  BY <1>2 DEF LoopTest, GiveUp, Backoff
<1>3. CASE MonitorTest \/ MonitorPoll \/ MonitorLost \/ MonitorReset \/ MonitorResetJoin
  BY <1>3 DEF MonitorTest, MonitorPoll, MonitorLost, MonitorReset, MonitorResetJoin
<1>4. CASE heartbeat_loop
  BY <1>4 DEF heartbeat_loop, HeartbeatTest, HeartbeatCheck, HeartbeatRunning,
      HeartbeatPointers, HeartbeatPing, HeartbeatUndefined
<1>5. ASSUME NEW k \in Clients, ReadFails(k) \/ ReceiverTest(k) \/ Drop(k) PROVE StateSaid'
  BY <1>5 DEF ReadFails, ReceiverEnds, ReceiverTest, Drop
<1>6. CASE Start \/ StartFailed
  BY <1>6 DEF Start, StartFailed, StartReconnect
<1>7. CASE WaitConnected \/ CheckConnected \/ BeginSession \/ SessionLoop
  BY <1>7 DEF WaitConnected, CheckConnected, BeginSession, SessionLoop
<1>8. CASE MainWaits \/ SessionSend
  BY <1>8 DEF MainWaits, SessionQuit, SessionInput, SessionReply, SessionSend
<1>9. CASE CloseFlag \/ CloseStream \/ CloseJoin \/ MainUndefined
  BY <1>9 DEF CloseFlag, CloseStream, CloseJoin, MainUndefined
<1>10. CASE StopBegin \/ StopFlag \/ StopClient \/ StopJoin \/ StopClosed \/ Destroy
  BY <1>10 DEF StopBegin, StopFlag, StopClient, StopJoin, Join, StopClosed, Destroy
<1>11. CASE UNCHANGED vars
  BY <1>11 DEF vars
<1> QED
  BY <1>1, <1>2, <1>3, <1>4, <1>5, <1>6, <1>7, <1>8, <1>9, <1>10, <1>11
  DEF Next, MainRuns, MainWaits, reconnect_loop, monitor_loop, Ended, Builders, Reconnectors

\* The clients are created, connected, destroyed and freed one after the other.
LEMMA OwnershipStep ==
  ASSUME Places, ManagerTypes, ClientTypes, Order, StateSaid, Ownership, [Next]_vars
  PROVE  Ownership'
<1> USE ClientsAssumption
    DEF ManagerTypes, ClientTypes, Order, StateSaid, Ownership, WithClient, WithoutClient,
        Builders, Unconnected, Starting, Stopped, Idle
<1> USE DEF Places, Threads, Workers, Reconnectors, MainPcs, RecPcs, MonPcs, HbPcs, LoopPcs,
            ConnectPcs, At, Goto, Move, set_state, Hold, End, Spawn, managerVars, clientVars,
            otherVars
<1>1. ASSUME NEW t \in Builders, Connect(t) PROVE Ownership'
  BY <1>1 DEF Builders, Connect, TryConnect, Handshake, SetRunning, StartReceiver,
      ConnectFails, Longer, Connected, SpawnHeartbeat, SpawnMonitor
<1>2. ASSUME NEW t \in Reconnectors, LoopTest(t) \/ GiveUp(t) \/ Backoff(t) PROVE Ownership'
  BY <1>2 DEF LoopTest, GiveUp, Backoff
<1>3. CASE MonitorTest \/ MonitorPoll \/ MonitorLost \/ MonitorReset \/ MonitorResetJoin
  BY <1>3 DEF MonitorTest, MonitorPoll, Lost, MonitorLost, MonitorReset, MonitorResetJoin
<1>4. CASE heartbeat_loop
  BY <1>4 DEF heartbeat_loop, HeartbeatTest, HeartbeatCheck, HeartbeatRunning,
      HeartbeatPointers, HeartbeatPing, HeartbeatUndefined
<1>5. ASSUME NEW k \in Clients, ReadFails(k) \/ ReceiverTest(k) \/ Drop(k) PROVE Ownership'
  BY <1>5 DEF ReadFails, ReceiverEnds, ReceiverTest, Drop
<1>6. CASE Start \/ StartFailed
  BY <1>6 DEF Start, StartFailed, StartReconnect
<1>7. CASE WaitConnected \/ CheckConnected \/ BeginSession \/ SessionLoop
  BY <1>7 DEF WaitConnected, CheckConnected, BeginSession, SessionLoop
<1>8. CASE MainWaits \/ SessionSend
  BY <1>8 DEF MainWaits, SessionQuit, SessionInput, SessionReply, SessionSend
<1>9. CASE CloseFlag \/ CloseStream \/ CloseJoin \/ MainUndefined
  BY <1>9 DEF CloseFlag, CloseStream, CloseJoin, MainUndefined
<1>10. CASE StopBegin \/ StopFlag \/ StopClient \/ StopJoin \/ StopClosed \/ Destroy
  BY <1>10 DEF StopBegin, StopFlag, StopClient, StopJoin, Join, StopClosed, Destroy
<1>11. CASE UNCHANGED vars
  BY <1>11 DEF vars
<1> QED
  BY <1>1, <1>2, <1>3, <1>4, <1>5, <1>6, <1>7, <1>8, <1>9, <1>10, <1>11
  DEF Next, MainRuns, MainWaits, reconnect_loop, monitor_loop, Ended, Builders, Reconnectors

\* What is undisturbed after a step was so before it, but for the first step of start().
LEMMA UndisturbedBefore ==
  ASSUME Places, ManagerTypes, Counters, Order, [Next]_vars, ~Start, Undisturbed'
  PROVE  Undisturbed
<1> USE DEF ManagerTypes, Order, Undisturbed, Stopped
<1> USE DEF Places, Threads, Workers, Reconnectors, MainPcs, RecPcs, MonPcs, HbPcs, LoopPcs,
            ConnectPcs, At, Goto, Move, set_state, Hold, End, Spawn, managerVars, clientVars,
            otherVars
<1>1. ASSUME NEW t \in Builders, Connect(t) PROVE Undisturbed
  BY <1>1 DEF Builders, Connect, TryConnect, Handshake, SetRunning, StartReceiver,
      ConnectFails, Longer, Connected, SpawnHeartbeat, SpawnMonitor
<1>2. ASSUME NEW t \in Reconnectors, LoopTest(t) \/ GiveUp(t) \/ Backoff(t) PROVE Undisturbed
  BY <1>2 DEF LoopTest, GiveUp, Backoff
<1>3. CASE MonitorTest \/ MonitorPoll \/ MonitorLost \/ MonitorReset \/ MonitorResetJoin
  BY <1>3 DEF MonitorTest, MonitorPoll, MonitorLost, MonitorReset, MonitorResetJoin
<1>4. CASE heartbeat_loop
  BY <1>4 DEF heartbeat_loop, HeartbeatTest, HeartbeatCheck, HeartbeatRunning,
      HeartbeatPointers, HeartbeatPing, HeartbeatUndefined
<1>5. ASSUME NEW k \in Clients, ReadFails(k) \/ ReceiverTest(k) \/ Drop(k) PROVE Undisturbed
  <2>1. CASE ReadFails(k) \/ ReceiverTest(k)
    BY <2>1 DEF ReadFails, ReceiverTest, ReceiverEnds
  <2>2. CASE Drop(k)
    BY <2>2 DEF Drop, Counters
  <2> QED BY <1>5, <2>1, <2>2
<1>6. CASE Start \/ StartFailed
  BY <1>6 DEF Start, StartFailed, StartReconnect
<1>7. CASE WaitConnected \/ CheckConnected \/ BeginSession \/ SessionLoop
  BY <1>7 DEF WaitConnected, CheckConnected, BeginSession, SessionLoop
<1>8. CASE MainWaits \/ SessionSend
  BY <1>8 DEF MainWaits, SessionQuit, SessionInput, SessionReply, SessionSend
<1>9. CASE CloseFlag \/ CloseStream \/ CloseJoin \/ MainUndefined
  <2>1. CASE CloseFlag \/ CloseStream
    BY <2>1 DEF CloseFlag, CloseStream
  <2>2. CASE CloseJoin
    <3>1. UNCHANGED <<should_run_, quit, drops>>
      BY <2>2 DEF CloseJoin
    <3> QED BY <3>1
  <2>3. CASE MainUndefined
    BY <2>3 DEF MainUndefined
  <2> QED BY <1>9, <2>1, <2>2, <2>3
<1>10. CASE StopBegin \/ StopFlag \/ StopClient \/ StopJoin \/ StopClosed \/ Destroy
  BY <1>10 DEF StopBegin, StopFlag, StopClient, StopJoin, Join, StopClosed, Destroy
<1>11. CASE UNCHANGED vars
  BY <1>11 DEF vars
<1> QED
  BY <1>1, <1>2, <1>3, <1>4, <1>5, <1>6, <1>7, <1>8, <1>9, <1>10, <1>11
  DEF Next, MainRuns, MainWaits, reconnect_loop, monitor_loop, Ended, Builders, Reconnectors

\* The threads are not disturbed ...
LEMMA CalmThreadsStep ==
  ASSUME Places, ManagerTypes, ClientTypes, Order, StateSaid, Ownership,
         CalmThreads, CalmClient, Undisturbed, Undisturbed', [Next]_vars
  PROVE  CalmThreads'
<1> USE ClientsAssumption
    DEF ManagerTypes, ClientTypes, Order, StateSaid, Ownership, WithClient, WithoutClient,
        Builders, Unconnected, Starting, Stopped, Idle, Undisturbed, CalmThreads, CalmClient, Up,
        IsRunning, Dangling, SendMayThrow, SendMayWork
<1> USE DEF Places, Threads, Workers, Reconnectors, MainPcs, RecPcs, MonPcs, HbPcs, LoopPcs,
            ConnectPcs, At, Goto, Move, set_state, Hold, End, Spawn, managerVars, clientVars,
            otherVars
<1>1. ASSUME NEW t \in Builders, Connect(t) PROVE CalmThreads'
  BY <1>1 DEF Builders, Connect, TryConnect, Handshake, SetRunning, StartReceiver,
      ConnectFails, Longer, Connected, SpawnHeartbeat, SpawnMonitor
<1>2. ASSUME NEW t \in Reconnectors, LoopTest(t) \/ GiveUp(t) \/ Backoff(t) PROVE CalmThreads'
  BY <1>2 DEF LoopTest, GiveUp, Backoff
<1>3. CASE MonitorTest \/ MonitorPoll \/ MonitorLost \/ MonitorReset \/ MonitorResetJoin
  BY <1>3 DEF MonitorTest, MonitorPoll, Lost, MonitorLost, MonitorReset, MonitorResetJoin
<1>4. CASE heartbeat_loop
  BY <1>4 DEF heartbeat_loop, HeartbeatTest, HeartbeatCheck, HeartbeatRunning,
      HeartbeatPointers, HeartbeatPing, HeartbeatUndefined
<1>5. ASSUME NEW k \in Clients, ReadFails(k) \/ ReceiverTest(k) \/ Drop(k) PROVE CalmThreads'
  BY <1>5 DEF ReadFails, ReceiverEnds, ReceiverTest, Drop
<1>6. CASE Start \/ StartFailed
  BY <1>6 DEF Start, StartFailed, StartReconnect
<1>7. CASE WaitConnected \/ CheckConnected \/ BeginSession \/ SessionLoop
  BY <1>7 DEF WaitConnected, CheckConnected, BeginSession, SessionLoop
<1>8. CASE MainWaits \/ SessionSend
  BY <1>8 DEF MainWaits, SessionQuit, SessionInput, SessionReply, SessionSend
<1>9. CASE CloseFlag \/ CloseStream \/ CloseJoin \/ MainUndefined
  BY <1>9 DEF CloseFlag, CloseStream, CloseJoin, MainUndefined
<1>10. CASE StopBegin \/ StopFlag \/ StopClient \/ StopJoin \/ StopClosed \/ Destroy
  BY <1>10 DEF StopBegin, StopFlag, StopClient, StopJoin, Join, StopClosed, Destroy
<1>11. CASE UNCHANGED vars
  BY <1>11 DEF vars
<1> QED
  BY <1>1, <1>2, <1>3, <1>4, <1>5, <1>6, <1>7, <1>8, <1>9, <1>10, <1>11
  DEF Next, MainRuns, MainWaits, reconnect_loop, monitor_loop, Ended, Builders, Reconnectors

\* ... and neither is the client.
LEMMA CalmClientStep ==
  ASSUME Places, ManagerTypes, ClientTypes, Order, StateSaid, Ownership,
         CalmThreads, CalmClient, Undisturbed, Undisturbed', [Next]_vars
  PROVE  CalmClient'
<1> USE ClientsAssumption
    DEF ManagerTypes, ClientTypes, Order, StateSaid, Ownership, WithClient, WithoutClient,
        Builders, Unconnected, Starting, Stopped, Idle, Undisturbed, CalmThreads, CalmClient, Up,
        IsRunning, Dangling, SendMayThrow, SendMayWork
<1> USE DEF Places, Threads, Workers, Reconnectors, MainPcs, RecPcs, MonPcs, HbPcs, LoopPcs,
            ConnectPcs, At, Goto, Move, set_state, Hold, End, Spawn, managerVars, clientVars,
            otherVars
<1>1. ASSUME NEW t \in Builders, Connect(t) PROVE CalmClient'
  BY <1>1 DEF Builders, Connect, TryConnect, Handshake, SetRunning, StartReceiver,
      ConnectFails, Longer, Connected, SpawnHeartbeat, SpawnMonitor
<1>2. ASSUME NEW t \in Reconnectors, LoopTest(t) \/ GiveUp(t) \/ Backoff(t) PROVE CalmClient'
  BY <1>2 DEF LoopTest, GiveUp, Backoff
<1>3. CASE MonitorTest \/ MonitorPoll \/ MonitorLost \/ MonitorReset \/ MonitorResetJoin
  BY <1>3 DEF MonitorTest, MonitorPoll, Lost, MonitorLost, MonitorReset, MonitorResetJoin
<1>4. CASE heartbeat_loop
  BY <1>4 DEF heartbeat_loop, HeartbeatTest, HeartbeatCheck, HeartbeatRunning,
      HeartbeatPointers, HeartbeatPing, HeartbeatUndefined
<1>5. ASSUME NEW k \in Clients, ReadFails(k) \/ ReceiverTest(k) \/ Drop(k) PROVE CalmClient'
  BY <1>5 DEF ReadFails, ReceiverEnds, ReceiverTest, Drop
<1>6. CASE Start \/ StartFailed
  BY <1>6 DEF Start, StartFailed, StartReconnect
<1>7. CASE WaitConnected \/ CheckConnected \/ BeginSession \/ SessionLoop
  BY <1>7 DEF WaitConnected, CheckConnected, BeginSession, SessionLoop
<1>8. CASE MainWaits \/ SessionSend
  BY <1>8 DEF MainWaits, SessionQuit, SessionInput, SessionReply, SessionSend
<1>9. CASE CloseFlag \/ CloseStream \/ CloseJoin \/ MainUndefined
  BY <1>9 DEF CloseFlag, CloseStream, CloseJoin, MainUndefined
<1>10. CASE StopBegin \/ StopFlag \/ StopClient \/ StopJoin \/ StopClosed \/ Destroy
  BY <1>10 DEF StopBegin, StopFlag, StopClient, StopJoin, Join, StopClosed, Destroy
<1>11. CASE UNCHANGED vars
  BY <1>11 DEF vars
<1> QED
  BY <1>1, <1>2, <1>3, <1>4, <1>5, <1>6, <1>7, <1>8, <1>9, <1>10, <1>11
  DEF Next, MainRuns, MainWaits, reconnect_loop, monitor_loop, Ended, Builders, Reconnectors

\* Calm is established by start() and kept as long as nothing disturbs the connection.
LEMMA CalmStep ==
  ASSUME Places, ManagerTypes, Counters, ClientTypes, Order, StateSaid, Ownership, Calm,
         [Next]_vars
  PROVE  Calm'
<1> SUFFICES ASSUME Undisturbed' PROVE CalmThreads' /\ CalmClient'
  BY DEF Calm
<1>1. CASE Start
  <2> USE <1>1, ClientsAssumption
      DEF Start, At, Goto, Places, Threads, Workers, Order, Ownership, StateSaid, ManagerTypes,
          ClientTypes, Builders, Unconnected, Starting, ConnectPcs, LoopPcs, WithoutClient,
          managerVars, clientVars, otherVars
  <2>1. CalmThreads'
    BY DEF CalmThreads
  <2>2. CalmClient'
    BY DEF CalmClient
  <2> QED BY <2>1, <2>2
<1>2. CASE ~Start
  BY <1>2, UndisturbedBefore, CalmThreadsStep, CalmClientStep DEF Calm
<1> QED BY <1>1, <1>2

\* The invariant holds at the beginning ...
LEMMA IInvInit == ASSUME Init PROVE IInv
<1> USE ClientsAssumption, ConfigAssumption DEF Init, Threads, Workers, Reconnectors
<1>1. Places /\ ManagerTypes
  BY DEF Places, ManagerTypes, MainPcs, RecPcs, MonPcs, HbPcs, States
<1>2. Counters /\ ClientTypes
  BY DEF Counters, ClientTypes
<1>3. Order /\ StateSaid
  BY DEF Order, StateSaid, Starting, Stopped, LoopPcs, ConnectPcs, Builders, Unconnected
<1>4. Ownership
  BY DEF Ownership, Builders, WithClient, WithoutClient
<1>5. Calm
  BY DEF Calm, Undisturbed
<1> QED BY <1>1, <1>2, <1>3, <1>4, <1>5 DEF IInv

\* ... and a step preserves it.
LEMMA IInvStep == ASSUME IInv, [Next]_vars PROVE IInv'
  BY PlacesStep, ManagerTypesStep, CountersStep, ClientTypesStep, OrderStep, StateSaidStep,
     OwnershipStep, CalmStep DEF IInv

\* The layers hold together in every state the threads can reach.
THEOREM Invariance == Spec => []IInv
<1>1. Init => IInv
  BY IInvInit
<1>2. IInv /\ [Next]_vars => IInv'
  BY IInvStep
<1> QED BY <1>1, <1>2, PTL DEF Spec

-----------------------------------------------------------------------------
(* The properties of the runs *)

\* The manager, the threads and the clients keep their types, whatever the threads of
\* connection_manager.h do.
THEOREM TypeCorrect == Spec => []TypeOK
<1>1. IInv => TypeOK
  <2> SUFFICES ASSUME IInv PROVE TypeOK
    OBVIOUS
  <2>1. \A t \in Threads : pc[t] \in Pcs[t]
    BY DEF IInv, Places, Pcs, Threads, Workers, RecPcs, MonPcs, HbPcs
  <2> QED BY <2>1 DEF TypeOK, IInv, Places, ManagerTypes, Counters, ClientTypes
<1> QED BY <1>1, Invariance, PTL

\* While is_connected() says so, client_ points to a client that nobody has begun to
\* destroy: monitor_loop sets the state before it resets the client, try_connect is
\* done before the state is set.
THEOREM ConnectedHasAClient == Spec => []ConnectedHasClient
<1>1. IInv => ConnectedHasClient
  BY DEF IInv, Ownership, ManagerTypes, ConnectedHasClient
<1> QED BY <1>1, Invariance, PTL

\* start(), reconnect_loop() and monitor_loop() never replace client_ at the same time,
\* and none of them assigns over a client.
THEOREM OneReplacerAtATime == Spec => []OneReplacer
<1>1. IInv => OneReplacer
  <2> SUFFICES ASSUME IInv PROVE OneReplacer
    OBVIOUS
  <2>1. Cardinality(Replacing) <= 1
    <3>1. CASE Replacing = {}
      BY <3>1, FS_EmptySet
    <3>2. CASE Replacing # {}
      <4>1. PICK t : t \in Replacing
        BY <3>2
      <4>2. Replacing = {t}
        BY <4>1, OneBuilder DEF IInv
      <4>3. Cardinality({t}) = 1
        BY FS_Singleton
      <4> QED BY <4>2, <4>3
    <3> QED BY <3>1, <3>2
  <2>2. \A t \in Replacing : pc[t] \in {"loop", "backoff", "try"} => client_ = NoClient
    BY DEF IInv, Ownership, Replacing, Builders, WithoutClient
  <2> QED BY <2>1, <2>2 DEF OneReplacer
<1> QED BY <1>1, Invariance, PTL

\* No client is left alive without client_ pointing to it, and no receiver thread
\* outlives the client that started it.
THEOREM NoLeak == Spec => []NoClientLeaked
<1>1. IInv => NoClientLeaked
  BY DEF IInv, Ownership, NoClientLeaked
<1> QED BY <1>1, Invariance, PTL

\* heartbeat_loop, monitor_loop and the session share client_ without a lock; as long
\* as the connection lasts and nobody stops, none of them is disturbed.
THEOREM Undisturbance == Spec => []UndisturbedWhileUp
<1>1. IInv => UndisturbedWhileUp
  BY DEF IInv, Ownership, ManagerTypes, Calm, Undisturbed, CalmThreads, CalmClient,
         UndisturbedWhileUp, Dangling
<1> QED BY <1>1, Invariance, PTL

\* What stop() has closed stays closed: a thread that was started during stop() and not
\* joined any more touches neither the state nor a client.
THEOREM ClosingIsFinal == Spec => ClosedIsFinal
<1> DEFINE A == state_ = "Closed" =>
                  /\ state_' = "Closed" /\ client_' = client_
                  /\ Replacing = {} /\ pc["hb"] \notin {"check", "running", "ping"}
<1>1. IInv /\ [Next]_vars => [A]_vars
  <2> SUFFICES ASSUME IInv, [Next]_vars, state_ = "Closed"
               PROVE  A
    BY DEF vars
  <2>1. /\ pc["main"] = "destroy" /\ pc["rec"] \in {"none", "done"}
        /\ pc["mon"] \in Idle /\ pc["hb"] \in Idle
    BY DEF IInv, StateSaid, Order
  <2>2. Replacing = {} /\ pc["hb"] \notin {"check", "running", "ping"}
    BY <2>1 DEF Replacing, LoopPcs, ConnectPcs, Idle
  <2>3. state_' = state_ /\ client_' = client_
    <3> USE <2>1 DEF Idle, Builders, Reconnectors, At, Move, set_state, Hold, End, Spawn, managerVars,
                     clientVars, otherVars
    <3>1. ASSUME NEW t \in Builders, Connect(t) PROVE state_' = state_ /\ client_' = client_
      BY <3>1 DEF Builders, Connect, TryConnect, Handshake, SetRunning, StartReceiver,
          ConnectFails, Longer, Connected, SpawnHeartbeat, SpawnMonitor
    <3>2. ASSUME NEW t \in Reconnectors, LoopTest(t) \/ GiveUp(t) \/ Backoff(t) PROVE state_' = state_ /\ client_' = client_
      BY <3>2 DEF LoopTest, GiveUp, Backoff
    <3>3. CASE MonitorTest \/ MonitorPoll \/ MonitorLost \/ MonitorReset \/ MonitorResetJoin
      BY <3>3 DEF MonitorTest, MonitorPoll, MonitorLost, MonitorReset, MonitorResetJoin
    <3>4. CASE heartbeat_loop
      BY <3>4 DEF heartbeat_loop, HeartbeatTest, HeartbeatCheck, HeartbeatRunning,
          HeartbeatPointers, HeartbeatPing, HeartbeatUndefined
    <3>5. ASSUME NEW k \in Clients, ReadFails(k) \/ ReceiverTest(k) \/ Drop(k) PROVE state_' = state_ /\ client_' = client_
      BY <3>5 DEF ReadFails, ReceiverEnds, ReceiverTest, Drop
    <3>6. CASE Start \/ StartFailed
      BY <3>6 DEF Start, StartFailed, StartReconnect
    <3>7. CASE WaitConnected \/ CheckConnected \/ BeginSession \/ SessionLoop
      BY <3>7 DEF WaitConnected, CheckConnected, BeginSession, SessionLoop
    <3>8. CASE MainWaits \/ SessionSend
      BY <3>8 DEF MainWaits, SessionQuit, SessionInput, SessionReply, SessionSend
    <3>9. CASE CloseFlag \/ CloseStream \/ CloseJoin \/ MainUndefined
      BY <3>9 DEF CloseFlag, CloseStream, CloseJoin, MainUndefined
    <3>10. CASE StopBegin \/ StopFlag \/ StopClient \/ StopJoin \/ StopClosed \/ Destroy
      BY <3>10 DEF StopBegin, StopFlag, StopClient, StopJoin, Join, StopClosed, Destroy
    <3>11. CASE UNCHANGED vars
      BY <3>11 DEF vars
    <3> QED
      BY <3>1, <3>2, <3>3, <3>4, <3>5, <3>6, <3>7, <3>8, <3>9, <3>10, <3>11
      DEF Next, MainRuns, MainWaits, reconnect_loop, monitor_loop, Ended, Builders, Reconnectors
  <2> QED BY <2>2, <2>3
<1> QED BY <1>1, Invariance, PTL DEF Spec, ClosedIsFinal

\* When reconnect_loop() has given up, or start() has failed without auto_reconnect, the
\* manager makes no further attempt: the state stays Disconnected until stop().
THEOREM GivingUpIsFinal == Spec => GaveUpIsFinal
<1> DEFINE A == state_ = "Disconnected" /\ should_run_ => state_' \in {"Disconnected", "Closing"}
<1>1. IInv /\ [Next]_vars => [A]_vars
  <2> SUFFICES ASSUME IInv, [Next]_vars, state_ = "Disconnected", should_run_
               PROVE  state_' \in {"Disconnected", "Closing"}
    BY DEF vars
  <2>1. /\ pc["main"] \notin Starting \cup Stopped
        /\ pc["rec"] \in {"none", "done"} /\ pc["mon"] \in {"none", "done"}
    BY DEF IInv, StateSaid, Order
  <2>2. state_' = state_ \/ state_' = "Closing"
    <3> USE <2>1 DEF Starting, Stopped, ConnectPcs, Builders, Reconnectors, At, Move, set_state, Hold, End,
                     Spawn, managerVars, clientVars, otherVars
    <3>1. ASSUME NEW t \in Builders, Connect(t) PROVE state_' = state_ \/ state_' = "Closing"
      BY <3>1 DEF Builders, Connect, TryConnect, Handshake, SetRunning, StartReceiver,
          ConnectFails, Longer, Connected, SpawnHeartbeat, SpawnMonitor
    <3>2. ASSUME NEW t \in Reconnectors, LoopTest(t) \/ GiveUp(t) \/ Backoff(t) PROVE state_' = state_ \/ state_' = "Closing"
      BY <3>2 DEF LoopTest, GiveUp, Backoff
    <3>3. CASE MonitorTest \/ MonitorPoll \/ MonitorLost \/ MonitorReset \/ MonitorResetJoin
      BY <3>3 DEF MonitorTest, MonitorPoll, MonitorLost, MonitorReset, MonitorResetJoin
    <3>4. CASE heartbeat_loop
      BY <3>4 DEF heartbeat_loop, HeartbeatTest, HeartbeatCheck, HeartbeatRunning,
          HeartbeatPointers, HeartbeatPing, HeartbeatUndefined
    <3>5. ASSUME NEW k \in Clients, ReadFails(k) \/ ReceiverTest(k) \/ Drop(k) PROVE state_' = state_ \/ state_' = "Closing"
      BY <3>5 DEF ReadFails, ReceiverEnds, ReceiverTest, Drop
    <3>6. CASE Start \/ StartFailed
      BY <3>6 DEF Start, StartFailed, StartReconnect
    <3>7. CASE WaitConnected \/ CheckConnected \/ BeginSession \/ SessionLoop
      BY <3>7 DEF WaitConnected, CheckConnected, BeginSession, SessionLoop
    <3>8. CASE MainWaits \/ SessionSend
      BY <3>8 DEF MainWaits, SessionQuit, SessionInput, SessionReply, SessionSend
    <3>9. CASE CloseFlag \/ CloseStream \/ CloseJoin \/ MainUndefined
      BY <3>9 DEF CloseFlag, CloseStream, CloseJoin, MainUndefined
    <3>10. CASE StopBegin \/ StopFlag \/ StopClient \/ StopJoin \/ StopClosed \/ Destroy
      BY <3>10 DEF StopBegin, StopFlag, StopClient, StopJoin, Join, StopClosed, Destroy
    <3>11. CASE UNCHANGED vars
      BY <3>11 DEF vars
    <3> QED
      BY <3>1, <3>2, <3>3, <3>4, <3>5, <3>6, <3>7, <3>8, <3>9, <3>10, <3>11
      DEF Next, MainRuns, MainWaits, reconnect_loop, monitor_loop, Ended, Builders, Reconnectors
  <2> QED BY <2>2
<1> QED BY <1>1, Invariance, PTL DEF Spec, GaveUpIsFinal

-----------------------------------------------------------------------------
(* The attempts of reconnect_loop *)

\* Induction over the natural numbers, for a set.
LEMMA NatSetInduction ==
  ASSUME NEW S, 0 \in S, \A n \in Nat : n \in S => n + 1 \in S
  PROVE  \A n \in Nat : n \in S
<1> DEFINE T == Nat \ S
<1> SUFFICES ASSUME T # {} PROVE FALSE
  OBVIOUS
<1>1. PICK x \in T : \A y \in T : ~(<<y, x>> \in OpToRel(<, Nat))
  BY NatLessThanWellFounded, WFMin, T \subseteq Nat
<1>2. x - 1 \in Nat /\ x - 1 < x /\ (x - 1) + 1 = x
  BY x \in Nat, x # 0
<1>3. x - 1 \in T
  BY <1>2
<1>4. <<x - 1, x>> \in OpToRel(<, Nat)
  BY <1>2 DEF OpToRel
<1> QED BY <1>1, <1>3, <1>4

\* f has the powers of the multiplier up to the n-th.
Powers(f, n) ==
  /\ f[0] = 1
  /\ \A k \in 1 .. n : f[k] = f[k - 1] * Multiplier

\* There are such powers.
LEMMA PowersExist ==
  ASSUME NEW n \in Nat
  PROVE  \E f \in [0 .. n -> Nat] : Powers(f, n)
<1> DEFINE S == {m \in Nat : \E f \in [0 .. m -> Nat] : Powers(f, m)}
<1>1. 0 \in S
  <2>1. [k \in 0 .. 0 |-> 1] \in [0 .. 0 -> Nat] /\ Powers([k \in 0 .. 0 |-> 1], 0)
    BY DEF Powers
  <2> QED BY <2>1
<1>2. ASSUME NEW m \in Nat, m \in S PROVE m + 1 \in S
  <2>1. PICK f \in [0 .. m -> Nat] : Powers(f, m)
    BY <1>2
  <2> DEFINE g == [k \in 0 .. m + 1 |-> IF k <= m THEN f[k] ELSE f[m] * Multiplier]
  <2>2. f[m] * Multiplier \in Nat /\ \A k \in 0 .. m : f[k] \in Nat
    BY ConfigAssumption
  <2>3. g \in [0 .. m + 1 -> Nat] /\ g[0] = 1
    BY <2>1, <2>2 DEF Powers
  <2>4. ASSUME NEW k \in 1 .. m + 1 PROVE g[k] = g[k - 1] * Multiplier
    <3>1. CASE k <= m
      <4>1. k \in 1 .. m /\ k \in 0 .. m + 1 /\ k - 1 \in 0 .. m + 1 /\ k - 1 <= m
        BY <3>1
      <4>2. g[k] = f[k] /\ g[k - 1] = f[k - 1]
        BY <3>1, <4>1
      <4> QED BY <2>1, <4>1, <4>2 DEF Powers
    <3>2. CASE ~(k <= m)
      <4>1. k = m + 1 /\ k \in 0 .. m + 1 /\ k - 1 = m /\ m \in 0 .. m + 1
        BY <3>2
      <4>2. g[k] = f[m] * Multiplier /\ g[m] = f[m]
        BY <3>2, <4>1
      <4> QED BY <4>1, <4>2
    <3> QED BY <3>1, <3>2
  <2>5. Powers(g, m + 1)
    <3> HIDE DEF g
    <3> QED BY <2>3, <2>4 DEF Powers
  <2> QED BY <2>3, <2>5
<1> HIDE DEF S
<1>3. n \in S
  BY <1>1, <1>2, NatSetInduction
<1> QED BY <1>3 DEF S

\* There is one list of powers only.
LEMMA PowersUnique ==
  ASSUME NEW n \in Nat, NEW f, NEW g, Powers(f, n), Powers(g, n)
  PROVE  g[n] = f[n]
<1> DEFINE S == {m \in Nat : m <= n => g[m] = f[m]}
<1>1. 0 \in S
  BY DEF Powers
<1>2. ASSUME NEW m \in Nat, m \in S PROVE m + 1 \in S
  <2> SUFFICES ASSUME m + 1 <= n PROVE g[m + 1] = f[m + 1]
    OBVIOUS
  <2>1. m + 1 \in 1 .. n /\ (m + 1) - 1 = m /\ m <= n
    OBVIOUS
  <2>2. g[m] = f[m]
    BY <1>2, <2>1
  <2>3. g[m + 1] = g[m] * Multiplier /\ f[m + 1] = f[m] * Multiplier
    BY <2>1 DEF Powers
  <2> QED BY <2>2, <2>3
<1> HIDE DEF S
<1>3. \A m \in Nat : m \in S
  BY <1>1, <1>2, NatSetInduction
<1> QED BY <1>3 DEF S

\* The recursive function of Power computes them.
LEMMA PowerIsPower ==
  ASSUME NEW n \in Nat, NEW f \in [0 .. n -> Nat], Powers(f, n)
  PROVE  Power(n) = f[n]
<1> DEFINE Rec(g) == g = [k \in 0 .. n |-> IF k = 0 THEN 1 ELSE g[k - 1] * Multiplier]
           p == CHOOSE g : Rec(g)
<1>1. Power(n) = p[n]
  BY DEF Power
<1>2. \E g : Rec(g)
  <2>1. ASSUME NEW k \in 0 .. n PROVE f[k] = IF k = 0 THEN 1 ELSE f[k - 1] * Multiplier
    <3>1. k = 0 \/ k \in 1 .. n
      OBVIOUS
    <3> QED BY <3>1 DEF Powers
  <2>2. f = [k \in 0 .. n |-> f[k]]
    OBVIOUS
  <2>3. Rec(f)
    BY <2>1, <2>2
  <2> QED BY <2>3
<1>3. Rec(p)
  <2> HIDE DEF Rec
  <2> QED BY <1>2
<1> HIDE DEF p
<1>4. \A k \in 0 .. n : p[k] = IF k = 0 THEN 1 ELSE p[k - 1] * Multiplier
  BY <1>3
<1>5. Powers(p, n)
  BY <1>4 DEF Powers
<1> QED BY <1>1, <1>5, PowersUnique

\* The equations of the powers.
LEMMA PowersOfMultiplier ==
  /\ Power(0) = 1
  /\ \A n \in Nat : Power(n) \in Nat /\ Power(n + 1) = Power(n) * Multiplier
<1>1. Power(0) = 1
  <2>1. PICK f \in [0 .. 0 -> Nat] : Powers(f, 0)
    BY PowersExist
  <2> QED BY <2>1, PowerIsPower DEF Powers
<1>2. ASSUME NEW n \in Nat
      PROVE  Power(n) \in Nat /\ Power(n + 1) = Power(n) * Multiplier
  <2>1. PICK f \in [0 .. n + 1 -> Nat] : Powers(f, n + 1)
    BY PowersExist, n + 1 \in Nat
  <2> DEFINE g == [k \in 0 .. n |-> f[k]]
  <2>2. g \in [0 .. n -> Nat] /\ g[n] = f[n] /\ f[n] \in Nat
    OBVIOUS
  <2>3. \A k \in 0 .. n : g[k] = f[k]
    OBVIOUS
  <2> HIDE DEF g
  <2>4. Powers(g, n)
    BY <2>1, <2>3 DEF Powers
  <2>5. Power(n) = f[n]
    BY <2>2, <2>4, PowerIsPower
  <2>6. Power(n + 1) = f[n + 1]
    BY <2>1, PowerIsPower
  <2>7. n + 1 \in 1 .. n + 1 /\ (n + 1) - 1 = n
    OBVIOUS
  <2>8. f[n + 1] = f[n] * Multiplier
    BY <2>1, <2>7 DEF Powers
  <2> QED BY <2>2, <2>5, <2>6, <2>8
<1> QED BY <1>1, <1>2

\* Multiplying the last wait and capping it gives the next wait, whether or not the last
\* one was capped already.
LEMMA LongerWait ==
  ASSUME NEW n \in Nat, n >= 1
  PROVE  Longer(Wait(n)) = Wait(n + 1)
<1> USE ConfigAssumption
<1>1. n - 1 \in Nat /\ (n - 1) + 1 = n /\ (n + 1) - 1 = n /\ n + 1 # 1
  OBVIOUS
<1>2. PICK p \in Nat : p = Power(n - 1) /\ Power(n) = p * Multiplier
  <2>1. Power(n - 1) \in Nat /\ Power((n - 1) + 1) = Power(n - 1) * Multiplier
    BY <1>1, PowersOfMultiplier
  <2> QED BY <1>1, <2>1
<1>3. PICK a \in Nat : a = InitialBackoff * p
  OBVIOUS
<1>4. InitialBackoff * (p * Multiplier) = a * Multiplier /\ a * Multiplier \in Nat
  BY <1>3
<1>5. Wait(n + 1) = Capped(a * Multiplier)
  BY <1>1, <1>2, <1>4 DEF Wait
<1>6. CASE n = 1
  <2>1. p = 1
    BY <1>2, <1>6, PowersOfMultiplier
  <2>2. a = InitialBackoff
    BY <1>3, <2>1
  <2> QED BY <1>5, <1>6, <2>2 DEF Wait, Longer, Capped
<1>7. CASE n # 1
  <2>1. Wait(n) = Capped(a)
    BY <1>2, <1>3, <1>7 DEF Wait
  <2>2. CASE a < MaxBackoff
    BY <1>4, <1>5, <2>1, <2>2 DEF Longer, Capped
  <2>3. CASE ~(a < MaxBackoff)
    BY <1>4, <1>5, <2>1, <2>3 DEF Longer, Capped
  <2> QED BY <2>2, <2>3
<1> QED BY <1>6, <1>7

\* An attempt is counted, and waits longer than the one before it.
LEMMA AttemptsStep ==
  ASSUME Places, Counters, Order, Attempts, [Next]_vars
  PROVE  Attempts'
<1> USE ConfigAssumption DEF Order, Counters, Starting, Attempts
<1> USE DEF Places, Threads, Workers, Reconnectors, MainPcs, RecPcs, MonPcs, HbPcs, LoopPcs,
            ConnectPcs, At, Goto, Move, set_state, Hold, End, Spawn, managerVars, clientVars,
            otherVars
<1>1. ASSUME NEW t \in Builders, Connect(t) PROVE Attempts'
  <2>1. CASE ConnectFails(t)
    <3>1. CASE t = "main"
      BY <2>1, <3>1 DEF ConnectFails
    <3>2. CASE t # "main"
      <4>1. /\ t \in Reconnectors /\ pc[t] = "connecting" /\ pc' = [pc EXCEPT ![t] = "loop"]
            /\ backoff_ms' = [backoff_ms EXCEPT ![t] = Longer(@)]
            /\ reconnect_count_' = reconnect_count_
        BY <2>1, <3>2 DEF ConnectFails, Builders
      <4>2. backoff_ms'[t] = Wait(reconnect_count_ + 1)
        BY <4>1, LongerWait
      <4>3. \A u \in Threads : u # t => pc'[u] = pc[u]
        BY <4>1
      <4>4. pc'[t] = "loop" /\ \A u \in Reconnectors : u # t => pc[u] \in {"none", "done"}
        BY <4>1, <1>1 DEF Builders
      <4> QED BY <4>1, <4>2, <4>3, <4>4
    <3> QED BY <3>1, <3>2
  <2>2. CASE ~ConnectFails(t)
    BY <1>1, <2>2 DEF Builders, Connect, TryConnect, Handshake, SetRunning, StartReceiver,
       Connected, SpawnHeartbeat, SpawnMonitor
  <2> QED BY <2>1, <2>2
<1>2. ASSUME NEW t \in Reconnectors, LoopTest(t) \/ GiveUp(t) \/ Backoff(t) PROVE Attempts'
  BY <1>2 DEF LoopTest, GiveUp, Backoff
<1>3. CASE MonitorTest \/ MonitorPoll \/ MonitorLost \/ MonitorReset \/ MonitorResetJoin
  BY <1>3 DEF MonitorTest, MonitorPoll, MonitorLost, MonitorReset, MonitorResetJoin, Wait
<1>4. CASE heartbeat_loop
  BY <1>4 DEF heartbeat_loop, HeartbeatTest, HeartbeatCheck, HeartbeatRunning,
      HeartbeatPointers, HeartbeatPing, HeartbeatUndefined
<1>5. ASSUME NEW k \in Clients, ReadFails(k) \/ ReceiverTest(k) \/ Drop(k) PROVE Attempts'
  BY <1>5 DEF ReadFails, ReceiverEnds, ReceiverTest, Drop
<1>6. CASE Start \/ StartFailed
  BY <1>6 DEF Start, StartFailed, StartReconnect, Wait
<1>7. CASE WaitConnected \/ CheckConnected \/ BeginSession \/ SessionLoop
  BY <1>7 DEF WaitConnected, CheckConnected, BeginSession, SessionLoop
<1>8. CASE MainWaits \/ SessionSend
  BY <1>8 DEF MainWaits, SessionQuit, SessionInput, SessionReply, SessionSend
<1>9. CASE CloseFlag \/ CloseStream \/ CloseJoin \/ MainUndefined
  BY <1>9 DEF CloseFlag, CloseStream, CloseJoin, MainUndefined
<1>10. CASE StopBegin \/ StopFlag \/ StopClient \/ StopJoin \/ StopClosed \/ Destroy
  BY <1>10 DEF StopBegin, StopFlag, StopClient, StopJoin, Join, StopClosed, Destroy
<1>11. CASE UNCHANGED vars
  BY <1>11 DEF vars
<1> QED
  BY <1>1, <1>2, <1>3, <1>4, <1>5, <1>6, <1>7, <1>8, <1>9, <1>10, <1>11
  DEF Next, MainRuns, MainWaits, reconnect_loop, monitor_loop, Ended, Builders, Reconnectors

\* reconnect_loop() makes at most max_reconnect_tries attempts for a lost connection, and
\* attempt n waits for initial_backoff_ms times the (n-1)-th power of the multiplier, at
\* most max_backoff_ms.
THEOREM BackoffIsScheduled == Spec => []BackoffSchedule
<1>1. Init => Attempts
  BY DEF Init, Attempts, Threads, Workers, Reconnectors, Starting
<1>2. IInv /\ Attempts /\ [Next]_vars => Attempts'
  BY AttemptsStep DEF IInv
<1>3. Attempts => BackoffSchedule
  BY DEF Attempts, BackoffSchedule, Wait
<1> QED BY <1>1, <1>2, <1>3, Invariance, PTL DEF Spec

-----------------------------------------------------------------------------
(* The joins of a destructor and of stop() *)

\* ~WebSocketClient has closed the stream of a client before it joins its receiver.
DyingIsClosed == \A k \in Clients : life[k] = "dying" => conn[k] = "closed"

\* Every step keeps it.
LEMMA DyingIsClosedStep ==
  ASSUME Places, ManagerTypes, ClientTypes, Ownership, DyingIsClosed, [Next]_vars
  PROVE  DyingIsClosed'
<1> USE DEF DyingIsClosed, ClientTypes, ManagerTypes
<1> USE DEF At, Goto, Move, set_state, Hold, End, Spawn, managerVars, clientVars, otherVars
<1>1. ASSUME NEW t \in Builders, Connect(t) PROVE DyingIsClosed'
  <2>1. CASE TryConnect(t) \/ ConnectFails(t)
    BY <2>1 DEF TryConnect, ConnectFails
  <2>2. CASE Handshake(t)
    <3>1. client_ \in Clients /\ life[client_] = "live"
      BY <2>2 DEF Handshake, Ownership, WithClient
    <3> QED BY <2>2, <3>1 DEF Handshake
  <2>3. CASE SetRunning(t) \/ StartReceiver(t) \/ Connected(t) \/ SpawnHeartbeat(t) \/ SpawnMonitor(t)
    BY <2>3 DEF SetRunning, StartReceiver, Connected, SpawnHeartbeat, SpawnMonitor
  <2> QED BY <1>1, <2>1, <2>2, <2>3 DEF Connect
<1>2. ASSUME NEW t \in Reconnectors, LoopTest(t) \/ GiveUp(t) \/ Backoff(t) PROVE DyingIsClosed'
  BY <1>2 DEF LoopTest, GiveUp, Backoff
<1>3. CASE MonitorTest \/ MonitorPoll \/ MonitorLost
  BY <1>3 DEF MonitorTest, MonitorPoll, MonitorLost
<1>4. CASE MonitorReset
  BY <1>4 DEF MonitorReset
<1>5. CASE MonitorResetJoin
  BY <1>5 DEF MonitorResetJoin
<1>6. CASE heartbeat_loop
  BY <1>6 DEF heartbeat_loop, HeartbeatTest, HeartbeatCheck, HeartbeatRunning,
      HeartbeatPointers, HeartbeatPing, HeartbeatUndefined
<1>7. ASSUME NEW k \in Clients, ReadFails(k) \/ ReceiverTest(k) \/ Drop(k) PROVE DyingIsClosed'
  BY <1>7 DEF ReadFails, ReceiverEnds, ReceiverTest, Drop
<1>8. CASE Start \/ StartFailed
  BY <1>8 DEF Start, StartFailed, StartReconnect
<1>9. CASE WaitConnected \/ CheckConnected \/ BeginSession \/ SessionLoop
  BY <1>9 DEF WaitConnected, CheckConnected, BeginSession, SessionLoop
<1>10. CASE MainWaits \/ SessionSend
  BY <1>10 DEF MainWaits, SessionQuit, SessionInput, SessionReply, SessionSend
<1>11. CASE CloseFlag \/ CloseStream \/ CloseJoin \/ MainUndefined
  BY <1>11 DEF CloseFlag, CloseStream, CloseJoin, MainUndefined
<1>12. CASE StopBegin \/ StopFlag \/ StopClient \/ StopJoin \/ StopClosed \/ Destroy
  BY <1>12 DEF StopBegin, StopFlag, StopClient, StopJoin, Join, StopClosed, Destroy
<1>13. CASE UNCHANGED vars
  BY <1>13 DEF vars
<1> QED
  BY <1>1, <1>2, <1>3, <1>4, <1>5, <1>6, <1>7, <1>8, <1>9, <1>10, <1>11, <1>12, <1>13
  DEF Next, MainRuns, MainWaits, reconnect_loop, monitor_loop, Ended, Builders, Reconnectors

\* client_.reset() in monitor_loop() does not wait for a receiver that goes on reading:
\* the stream of the client whose receiver is joined is closed, however the network and
\* main's own close() of the same client interfere.
THEOREM ResetIsNotBlocked == Spec => []DyingIsClosed
<1>1. Init => DyingIsClosed
  BY DEF Init, DyingIsClosed
<1>2. IInv /\ DyingIsClosed /\ [Next]_vars => DyingIsClosed'
  BY DyingIsClosedStep DEF IInv
<1> QED BY <1>1, <1>2, Invariance, PTL DEF Spec

\* Nobody but start() makes a client or a thread: there is no reconnect thread, and the
\* monitor returns after a lost connection.
StartOnly ==
  /\ pc["rec"] = "none" /\ "rec" \notin joinable
  /\ pc["mon"] \notin LoopPcs \ {"give_up"}

\* What stop() has joined stays joined.
Joined ==
  /\ pc["main"] \in {"join_mon", "join_rec", "closed", "destroy"} => "hb" \notin joinable
  /\ pc["main"] \in {"join_rec", "closed", "destroy"} => "mon" \notin joinable
  /\ outcome # "terminated"

\* What close() has closed stays closed.
Shut ==
  /\ pc["main"] \in {"close_ws", "close_join", "stop_ws", "stop_join"} => held["main"] # NoClient
  /\ pc["main"] \in {"close_join", "stop_join"} => conn[held["main"]] # "up"

\* Without auto_reconnect every step keeps them.
LEMMA WithoutReconnectStep ==
  ASSUME ~AutoReconnect, Places, ManagerTypes, ClientTypes, Order, Ownership, DyingIsClosed,
         StartOnly, Joined, Shut, [Next]_vars
  PROVE  StartOnly' /\ Joined' /\ Shut'
<1> USE DEF StartOnly, Joined, Shut, ManagerTypes
<1> USE DEF Places, Threads, Workers, Reconnectors, MainPcs, RecPcs, MonPcs, HbPcs, LoopPcs,
            ConnectPcs, At, Goto, Move, set_state, Hold, End, Spawn, managerVars, clientVars,
            otherVars
<1>1. CASE Connect("main")
  BY <1>1 DEF Connect, TryConnect, ConnectFails, Handshake, SetRunning, StartReceiver, Connected,
     SpawnHeartbeat, SpawnMonitor
<1>2. ASSUME NEW t \in Reconnectors, LoopTest(t) \/ Backoff(t) \/ Connect(t) PROVE FALSE
  BY <1>2 DEF LoopTest, Backoff, Connect, TryConnect, ConnectFails, Handshake, SetRunning,
     StartReceiver, Connected, SpawnHeartbeat, SpawnMonitor
<1>3. ASSUME NEW t \in Reconnectors, GiveUp(t) PROVE StartOnly' /\ Joined' /\ Shut'
  BY <1>3 DEF GiveUp
<1>4. CASE MonitorTest \/ MonitorPoll \/ MonitorLost
  BY <1>4 DEF MonitorTest, MonitorPoll, MonitorLost
<1>5. CASE MonitorReset
  BY <1>5 DEF MonitorReset, ClientTypes
<1>6. CASE MonitorResetJoin
  BY <1>6 DEF MonitorResetJoin, ClientTypes
<1>7. CASE heartbeat_loop
  BY <1>7 DEF heartbeat_loop, HeartbeatTest, HeartbeatCheck, HeartbeatRunning,
      HeartbeatPointers, HeartbeatPing, HeartbeatUndefined, ClientTypes
<1>8. ASSUME NEW k \in Clients, ReadFails(k) \/ ReceiverTest(k) \/ Drop(k)
      PROVE  StartOnly' /\ Joined' /\ Shut'
  BY <1>8 DEF ReadFails, ReceiverEnds, ReceiverTest, Drop, ClientTypes
<1>9. CASE Start \/ StartFailed
  BY <1>9 DEF Start, StartFailed, StartReconnect
<1>10. CASE WaitConnected \/ CheckConnected \/ BeginSession \/ SessionLoop
  BY <1>10 DEF WaitConnected, CheckConnected, BeginSession, SessionLoop
<1>11. CASE MainWaits \/ SessionSend
  BY <1>11 DEF MainWaits, SessionQuit, SessionInput, SessionReply, SessionSend
<1>12. CASE CloseFlag
  BY <1>12 DEF CloseFlag
<1>13. CASE CloseStream
  <2>1. held["main"] \in Clients
    BY <1>13 DEF CloseStream, ClientTypes
  <2>2. Dangling(held["main"]) => conn[held["main"]] \in {"none", "closed"}
    BY <2>1 DEF Dangling, Ownership, DyingIsClosed, ClientTypes
  <2> QED BY <1>13, <2>1, <2>2 DEF CloseStream, ClientTypes
<1>14. CASE CloseJoin \/ MainUndefined
  BY <1>14 DEF CloseJoin, MainUndefined
<1>15. CASE StopBegin \/ StopFlag \/ StopClient
  BY <1>15 DEF StopBegin, StopFlag, StopClient
<1>16. CASE StopJoin \/ StopClosed
  BY <1>16 DEF StopJoin, Join, StopClosed
<1>17. CASE Destroy
  BY <1>17 DEF Destroy
<1>18. CASE UNCHANGED vars
  BY <1>18 DEF vars
<1> QED
  BY <1>1, <1>2, <1>3, <1>4, <1>5, <1>6, <1>7, <1>8, <1>9, <1>10, <1>11, <1>12, <1>13, <1>14,
     <1>15, <1>16, <1>17, <1>18
  DEF Next, MainRuns, MainWaits, reconnect_loop, monitor_loop, Ended, Reconnectors

\* The two ways in which stop() goes wrong, a thread that is still joinable when the
\* manager is destroyed (std::terminate) and a receiver that reads again from a stream
\* that was closed (stop() does not return), both need auto_reconnect.
THEOREM StopWithoutReconnect ==
  ASSUME ~AutoReconnect
  PROVE  Spec => [](outcome # "terminated" /\ ~Reopened)
<1>1. Init => StartOnly /\ Joined /\ Shut
  BY DEF Init, StartOnly, Joined, Shut, Threads, Workers, LoopPcs, ConnectPcs
<1>2. /\ IInv /\ DyingIsClosed /\ StartOnly /\ Joined /\ Shut /\ [Next]_vars
      => StartOnly' /\ Joined' /\ Shut'
  BY WithoutReconnectStep DEF IInv
<1>3. Joined /\ Shut => outcome # "terminated" /\ ~Reopened
  BY DEF Joined, Shut, Reopened
<1> QED BY <1>1, <1>2, <1>3, Invariance, ResetIsNotBlocked, PTL DEF Spec

-----------------------------------------------------------------------------
(* The session's reference to the client *)

\* The finding of the run session_client needs a lost connection or the end of the
\* session: until then the reference that chat_session() was given is the one of the
\* living client of the manager.
THEOREM SessionKeepsItsClient == Spec => [](drops = 0 /\ ~quit => SessionClientLive)
<1>1. IInv => (drops = 0 /\ ~quit => SessionClientLive)
  <2> SUFFICES ASSUME IInv, drops = 0, ~quit, pc["main"] \in {"session", "send", "spin", "close"}
               PROVE  held["main"] # NoClient /\ ~Dangling(held["main"])
    BY DEF SessionClientLive
  <2>1. should_run_
    BY DEF IInv, Order, Stopped
  <2>2. CalmThreads /\ CalmClient
    BY <2>1 DEF IInv, Calm, Undisturbed
  <2>3. held["main"] = client_ /\ state_ = "Connected"
    BY <2>2 DEF CalmThreads, CalmClient
  <2>4. client_ # NoClient
    BY <2>3 DEF IInv, Ownership
  <2>5. life[client_] = "live"
    BY <2>4 DEF IInv, ManagerTypes, Ownership
  <2> QED BY <2>3, <2>4, <2>5 DEF Dangling
<1> QED BY <1>1, Invariance, PTL
=============================================================================
