---------------------------- MODULE ChatSession ----------------------------
(***************************************************************************)
(* chat_session of src/main.cpp with the WebSocketClient of                *)
(* include/websocket_client.h it talks through: what happens to the        *)
(* messages of one connection.                                             *)
(*                                                                         *)
(* Three threads use the client: main (the session), the receiver          *)
(* (receive_loop) and, with --reconnect, the manager's heartbeat.  The     *)
(* server echoes what it gets and may send a greeting of its own.  A step  *)
(* is one access to what the threads share: the stream ws_ with its opcode *)
(* option, running_ and the queue.                                         *)
(*                                                                         *)
(* The queue is a bounded sequence.  Its delays (see SPSCQueue) do not     *)
(* matter here: main's write is a system call, so whatever main has popped *)
(* before it is known to the receiver when the echo comes.                 *)
(*                                                                         *)
(* Left out: the payloads (a frame is known by who sent it), the latency   *)
(* statistics and the memory pool.  With --reconnect the connection is not *)
(* lost here: ConnectionManager says what follows then.                    *)
(***************************************************************************)
EXTENDS Naturals, Sequences

CONSTANTS QueueSize,    \* how many messages the queue holds: kQueueCapacity - 1
          ServerGreets, \* the server sends a greeting
          MaxRequests,  \* bound: how many messages the user sends
          MaxPings      \* bound: how many pings the heartbeat sends

ASSUME QueueSizeAssumption == QueueSize \in Nat \ {0}
ASSUME BoundsAssumption == MaxRequests \in Nat /\ MaxPings \in Nat
ASSUME ServerAssumption == ServerGreets \in BOOLEAN

VARIABLES
  auto_reconnect,  \* --reconnect: there is a heartbeat
  text,            \* the opcode option of ws_: text or binary
  conn,            \* the connection: "up", "broken" or "closed"
  running_,
  receiver,        \* receiver_thread_: "run" or "done"
  queue_,
  pc,              \* where main and the heartbeat are
  frame,           \* what main and the heartbeat are sending
  asked,           \* how many requests main has made
  reply,           \* what the last spin_receive or try_receive returned
  pings,           \* how many pings were sent
  greeted,         \* the server has sent its greeting
  toServer, toClient,   \* frames under way
  echoes,          \* how many frames the server has sent
  dropped,         \* how many messages receive_loop has dropped
  outcome          \* how the program ended, or "running"

streamVars == <<text, conn, toServer>>
clientVars == <<running_, receiver, queue_, dropped>>
serverVars == <<toClient, echoes, greeted>>
sessionVars == <<asked, reply>>
vars == <<auto_reconnect, streamVars, clientVars, serverVars, sessionVars, pc, frame, pings, outcome>>

Senders == {"main", "hb"}

\* A frame: who sent it, its number, whether it was meant as text, whether its
\* opcode says text; the server numbers what it sends.
Frame(from, n, isText) ==
  [from |-> from, n |-> n, meant |-> isText, text |-> isText, echo |-> 0]
Nothing == Frame("server", 0, TRUE)

Init == /\ auto_reconnect \in BOOLEAN
        /\ text = TRUE /\ conn = "up" /\ running_ = TRUE
        /\ receiver = "run" /\ queue_ = << >>
        /\ pc = [t \in Senders |-> IF t = "main" THEN "greeting"
                                   ELSE IF auto_reconnect THEN "sleep" ELSE "done"]
        /\ frame = [t \in Senders |-> Nothing]
        /\ asked = 0 /\ reply = Nothing /\ pings = 0 /\ greeted = FALSE
        /\ toServer = << >> /\ toClient = << >> /\ echoes = 0
        /\ dropped = 0 /\ outcome = "running"

At(t, loc) == outcome = "running" /\ pc[t] = loc
Goto(t, loc) == pc' = [pc EXCEPT ![t] = loc]

Move(t, from, to) ==
  /\ At(t, from) /\ Goto(t, to)
  /\ UNCHANGED <<auto_reconnect, streamVars, clientVars, serverVars, sessionVars, frame, pings, outcome>>

-----------------------------------------------------------------------------
(* send_text and send_binary, by main and by the heartbeat *)

\* Mutant: the option is set for binary messages only, and never set back.
SetOpcodeBinaryOnly(t) ==
  /\ At(t, "opcode") /\ Goto(t, "write")
  /\ text' = IF frame[t].meant THEN text ELSE FALSE
  /\ UNCHANGED <<auto_reconnect, conn, toServer, clientVars, serverVars, sessionVars, frame, pings, outcome>>

\* ws_.text(true) or ws_.binary(true)
SetOpcode(t) ==
  /\ At(t, "opcode") /\ Goto(t, "write")
  /\ text' = frame[t].meant
  /\ UNCHANGED <<auto_reconnect, conn, toServer, clientVars, serverVars, sessionVars, frame, pings, outcome>>

\* ws_.write begins: the frame gets the opcode that is set by now.
BeginWrite(t) ==
  /\ At(t, "write") /\ Goto(t, "writing")
  /\ frame' = [frame EXCEPT ![t].text = text]
  /\ UNCHANGED <<auto_reconnect, streamVars, clientVars, serverVars, sessionVars, pings, outcome>>

\* A broken connection may still take the frame, which is lost then.
Written(t) ==
  /\ conn # "closed"
  /\ toServer' = IF conn = "up" THEN Append(toServer, frame[t]) ELSE toServer
  /\ UNCHANGED <<auto_reconnect, text, conn, clientVars, serverVars, sessionVars, frame, outcome>>

\* Two threads write to one stream at a time: the library leaves this undefined.
WriteUndefined ==
  /\ \A t \in Senders : At(t, "writing")
  /\ outcome' = "undefined"
  /\ UNCHANGED <<auto_reconnect, streamVars, clientVars, serverVars, sessionVars, pc, frame, pings>>

-----------------------------------------------------------------------------
(* Main thread: the session *)

\* try_pop has returned the oldest message.
Take(from, to) ==
  /\ At("main", from) /\ Goto("main", to)
  /\ queue_ # << >>
  /\ queue_' = Tail(queue_) /\ reply' = Head(queue_)
  /\ UNCHANGED <<auto_reconnect, streamVars, running_, receiver, dropped, serverVars, asked,
                 frame, pings, outcome>>

\* try_receive has found the greeting (or what is taken for it), or was tried
\* 100 times in vain.
Greeting == Take("greeting", "loop") \/ Move("main", "greeting", "loop")

\* while (client.is_running())
SessionLoop == Move("main", "loop", IF running_ THEN "input" ELSE "close")

\* "/exit" or end of file; "stats", "pool", "sysinfo", an empty or unknown command.
SessionInput == Move("main", "input", "close") \/ Move("main", "input", "loop")

\* The session has another message to send.
Request(from, isText) ==
  /\ At("main", from) /\ Goto("main", "opcode")
  /\ asked < MaxRequests
  /\ asked' = asked + 1
  /\ frame' = [frame EXCEPT !["main"] = Frame("main", asked + 1, isText)]
  /\ UNCHANGED <<auto_reconnect, streamVars, clientVars, serverVars, reply, pings, outcome>>

\* "text", "bench" and "binary".
SessionRequest == \E isText \in BOOLEAN : Request("input", isText)

\* The next of the 100 messages of "bench".
SessionBench == Request("bench", TRUE)

SessionSent == /\ At("main", "writing") /\ Goto("main", "spin")
               /\ Written("main") /\ UNCHANGED pings

\* ws_.write throws.  The branches of main without --reconnect catch it, and the
\* client is destroyed on the way.
SessionSendThrows == conn # "up" /\ Move("main", "writing", "close")

\* spin_receive returns; the command is done, or "bench" goes on.
SpinReceive == \/ Take("spin", "loop")
               \/ frame["main"].meant /\ Take("spin", "bench")

\* "bench" ends with its last message.
BenchEnds == Move("main", "bench", "loop")

\* close(), called by the session or by ~WebSocketClient.
CloseFlag ==
  /\ At("main", "close") /\ Goto("main", "close_ws")
  /\ running_' = FALSE
  /\ UNCHANGED <<auto_reconnect, streamVars, receiver, queue_, dropped, serverVars, sessionVars,
                 frame, pings, outcome>>

\* Mutant: the stream is not closed.
CloseStreamForgotten == Move("main", "close_ws", "join")

CloseStream ==
  /\ At("main", "close_ws") /\ Goto("main", "join")
  /\ conn' = "closed"
  /\ UNCHANGED <<auto_reconnect, text, toServer, clientVars, serverVars, sessionVars,
                 frame, pings, outcome>>

CloseJoin == receiver = "done" /\ Move("main", "join", "closed")

-----------------------------------------------------------------------------
(* Receiver thread: receive_loop *)

\* Mutant: the full queue is not told apart.
PushUntested(m) == queue_' = Append(queue_, m) /\ UNCHANGED dropped

\* Mutant: the newest message is put first.
PushFront(m) == IF Len(queue_) < QueueSize
                THEN queue_' = <<m>> \o queue_ /\ UNCHANGED dropped
                ELSE dropped' = dropped + 1 /\ UNCHANGED queue_

\* queue_.try_push, and the warning if it fails.
Push(m) == IF Len(queue_) < QueueSize
           THEN queue_' = Append(queue_, m) /\ UNCHANGED dropped
           ELSE dropped' = dropped + 1 /\ UNCHANGED queue_

\* Mutant: a binary message is not queued.
ReceiveTextOnly ==
  /\ outcome = "running" /\ receiver = "run"
  /\ conn # "closed" /\ toClient # << >>
  /\ toClient' = Tail(toClient)
  /\ IF Head(toClient).text THEN Push(Head(toClient)) ELSE UNCHANGED <<queue_, dropped>>
  /\ UNCHANGED <<auto_reconnect, streamVars, running_, receiver, echoes, greeted, sessionVars,
                 pc, frame, pings, outcome>>

\* A message is read and queued, text or binary.
Receive ==
  /\ outcome = "running" /\ receiver = "run"
  /\ conn # "closed" /\ toClient # << >>
  /\ toClient' = Tail(toClient)
  /\ Push(Head(toClient))
  /\ UNCHANGED <<auto_reconnect, streamVars, running_, receiver, echoes, greeted, sessionVars,
                 pc, frame, pings, outcome>>

\* receive_loop() ends, and ws_ is left as c.
ReceiverEnds(c) ==
  /\ outcome = "running" /\ receiver = "run"
  /\ receiver' = "done" /\ running_' = FALSE
  /\ conn' = c
  /\ UNCHANGED <<auto_reconnect, text, toServer, queue_, dropped, serverVars, sessionVars,
                 pc, frame, pings, outcome>>

\* The read fails: the stream is no longer open.
ReadFails == conn # "up" /\ ReceiverEnds("closed")

\* The loop's test, after a message has come.
ReceiverTest == ~running_ /\ ReceiverEnds(conn)

-----------------------------------------------------------------------------
(* heartbeat_loop of the manager *)

HeartbeatSleep ==
  /\ At("hb", "sleep")
  /\ IF running_
     THEN /\ pings < MaxPings /\ Goto("hb", "opcode")
          /\ frame' = [frame EXCEPT !["hb"] = Frame("hb", pings + 1, TRUE)]
     ELSE Goto("hb", "done") /\ UNCHANGED frame
  /\ UNCHANGED <<auto_reconnect, streamVars, clientVars, serverVars, sessionVars, pings, outcome>>

HeartbeatSent == /\ At("hb", "writing") /\ Goto("hb", "sleep")
                 /\ Written("hb") /\ pings' = pings + 1

HeartbeatThrows == conn # "up" /\ Move("hb", "writing", "done")

-----------------------------------------------------------------------------
(* The server and the network *)

Echo ==
  /\ outcome = "running"
  /\ conn = "up" /\ toServer # << >>
  /\ toServer' = Tail(toServer)
  /\ toClient' = Append(toClient, [Head(toServer) EXCEPT !.echo = echoes + 1])
  /\ echoes' = echoes + 1
  /\ UNCHANGED <<auto_reconnect, text, conn, greeted, clientVars, sessionVars, pc, frame, pings, outcome>>

Greet ==
  /\ outcome = "running"
  /\ ServerGreets /\ ~greeted /\ conn = "up"
  /\ toClient' = Append(toClient, [Nothing EXCEPT !.echo = echoes + 1])
  /\ echoes' = echoes + 1 /\ greeted' = TRUE
  /\ UNCHANGED <<auto_reconnect, streamVars, clientVars, sessionVars, pc, frame, pings, outcome>>

Drop ==
  /\ outcome = "running"
  /\ conn = "up" /\ ~auto_reconnect
  /\ conn' = "broken"
  /\ UNCHANGED <<auto_reconnect, text, toServer, clientVars, serverVars, sessionVars, pc, frame, pings, outcome>>

-----------------------------------------------------------------------------
Send(t) == SetOpcode(t) \/ BeginWrite(t)

\* What main does by itself.
MainRuns == \/ Greeting \/ SessionLoop \/ Send("main") \/ SessionSent \/ SessionSendThrows
            \/ SpinReceive \/ BenchEnds \/ CloseFlag \/ CloseStream \/ CloseJoin
receive_loop == Receive \/ ReadFails
heartbeat_loop == HeartbeatSleep \/ Send("hb") \/ HeartbeatSent \/ HeartbeatThrows

Next == \/ MainRuns \/ SessionInput \/ SessionRequest \/ SessionBench
        \/ receive_loop \/ ReceiverTest \/ heartbeat_loop \/ WriteUndefined
        \/ Echo \/ Greet \/ Drop

Spec == Init /\ [][Next]_vars

\* The threads run, and the server answers what it gets while the connection is
\* up.  Nothing is assumed of the user, of the heartbeat or of the network, nor that
\* a message comes after which receive_loop looks at running_.
Fairness == WF_vars(MainRuns) /\ WF_vars(receive_loop) /\ WF_vars(Echo)

FairSpec == Spec /\ Fairness

-----------------------------------------------------------------------------
(* Properties *)

Frames == [from : Senders \cup {"server"}, n : Nat, meant : BOOLEAN, text : BOOLEAN, echo : Nat]

Pcs == {"greeting", "loop", "input", "bench", "opcode", "write", "writing", "spin",
        "close", "close_ws", "join", "closed", "sleep", "done"}

TypeOK ==
  /\ auto_reconnect \in BOOLEAN /\ text \in BOOLEAN
  /\ conn \in {"up", "broken", "closed"}
  /\ running_ \in BOOLEAN /\ receiver \in {"run", "done"}
  /\ queue_ \in Seq(Frames) /\ Len(queue_) <= QueueSize
  /\ toServer \in Seq(Frames) /\ toClient \in Seq(Frames)
  /\ frame \in [Senders -> Frames] /\ reply \in Frames
  /\ pc \in [Senders -> Pcs]
  /\ asked \in Nat /\ pings \in Nat /\ echoes \in Nat /\ dropped \in Nat
  /\ greeted \in BOOLEAN
  /\ outcome \in {"running", "undefined"}

\* A message is dropped only when the session has others to read: whenever main
\* busy-waits in spin_receive on a connection that is up, something is still to
\* come, in the queue or on its way.
SpinFed ==
  pc["main"] = "spin" /\ conn = "up" => Len(toServer) + Len(toClient) + Len(queue_) > 0

\* spin_receive returns as long as the connection lasts, full queue or not.
SpinReturns == pc["main"] = "spin" ~> pc["main"] # "spin" \/ conn # "up" \/ outcome # "running"

\* The session takes the server's frames in the order they were sent, none twice,
\* and it misses one only if receive_loop has dropped one.
TakenInOrder ==
  [][reply' # reply => /\ reply'.echo > reply.echo
                       /\ reply'.echo = reply.echo + 1 \/ dropped > 0]_vars

\* What the session takes for the reply of its request is the echo of this request.
IsReply == reply.from = "main" /\ reply.n = asked

\* While nothing but the session's own requests was sent, by a greeting or a ping,
\* each reply belongs to its request although they are matched by order alone, and
\* a binary message comes back as one.
QuietRepliesMatch ==
  ~greeted /\ frame["hb"] = Nothing /\ asked > 0 /\ pc["main"] \in {"loop", "input", "bench"} =>
    IsReply /\ reply.text = reply.meant

\* The same without the proviso ("Send text message, show RTT").
RepliesMatch ==
  asked > 0 /\ pc["main"] \in {"loop", "input", "bench"} => IsReply

\* close() comes back: the receiver that it waits for ends.
CloseReturns == pc["main"] = "close" ~> pc["main"] = "closed" \/ outcome # "running"
=============================================================================
