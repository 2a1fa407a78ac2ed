--------------------------- MODULE ClientProgram ---------------------------
(***************************************************************************)
(* main() of src/main.cpp from its arguments to its exit code, and the     *)
(* life of the one client of its branches without --reconnect: the         *)
(* SecureWebSocketClient of include/secure_websocket_client.h, or the      *)
(* WebSocketClient with the same control and one layer less.  With         *)
(* --reconnect, ConnectionManager says what follows.                       *)
(*                                                                         *)
(* The server may stop answering at any time without closing the           *)
(* connection.  The client sets no timeout.                                *)
(*                                                                         *)
(* Left out: what the messages say and the queue (see ChatSession; of the  *)
(* session's requests the one under way is kept), the certificates, the    *)
(* Windows build, and all output.                                          *)
(***************************************************************************)
EXTENDS CommandLine

VARIABLES
  ssl_built,             \* compiled with WS_ENABLE_SSL
  hardware_concurrency,  \* what the standard library says, 0 if it does not know
  pc,        \* where main is
  client,    \* the class of the client: "none", "plain" or "secure"
  config_,   \* of the client: pin_receiver_thread and receiver_core_id
  conn,      \* ws_: "none", "up", "broken" or "closed"
  running_,
  rx,        \* where the receiver thread is
  pinned,    \* the core the receiver is pinned to, NotPinned or Refused
  request,   \* the request under way: "none", "sent", "queued" (its reply)
  silent,    \* the server does not answer any more
  thrown,    \* an exception is on its way to a catch clause
  outcome    \* the exit code, or what else became of the program

buildVars == <<ssl_built, hardware_concurrency>>
clientVars == <<client, config_, conn, running_, rx, pinned>>
vars == <<parseVars, buildVars, pc, clientVars, request, silent, thrown, outcome>>

CONSTANT HardwareConcurrency   \* the values hardware_concurrency() may return
ASSUME HardwareAssumption == HardwareConcurrency \subseteq Nat

NotPinned == -1   \* nobody has asked the system for a core
Refused == -2     \* the system has been asked, and has refused

NoPin == [pin |-> FALSE, core |-> -1]   \* ClientConfig{}

Init == /\ ParseInit
        /\ ssl_built \in BOOLEAN /\ hardware_concurrency \in HardwareConcurrency
        /\ pc = "args" /\ client = "none" /\ config_ = NoPin
        /\ conn = "none" /\ running_ = FALSE /\ rx = "none" /\ pinned = NotPinned
        /\ request = "none" /\ silent = FALSE /\ thrown = FALSE /\ outcome = "running"

\* What becomes of the thread.
pin_thread_to_core(core) == {core, Refused}

get_cpu_count == IF hardware_concurrency > 0 THEN hardware_concurrency ELSE 1

At(loc) == outcome = "running" /\ pc = loc

\* A step of main from one place to another, in which the request becomes r.
Move(from, to, r) ==
  /\ At(from) /\ pc' = to /\ request' = r
  /\ UNCHANGED <<parseVars, buildVars, clientVars, silent, thrown, outcome>>

End(how) == outcome' = how
            /\ UNCHANGED <<parseVars, buildVars, pc, clientVars, request, silent, thrown>>

-----------------------------------------------------------------------------
(* main(): the arguments and the choice of the branch *)

ParseArgs == /\ At("args") /\ parse_args
             /\ pc' = IF parsing' THEN "args" ELSE "branch"
             /\ UNCHANGED <<buildVars, clientVars, request, silent, thrown, outcome>>

Help == At("args") /\ AskedForHelp /\ End("exit0")

\* A client of this class is made, with this configuration; main goes on at "to".
Make(class, config, to) ==
  /\ At("branch") /\ pc' = to
  /\ client' = class /\ config_' = config
  /\ UNCHANGED <<parseVars, buildVars, conn, running_, rx, pinned, request, silent, thrown, outcome>>

client_config == [pin |-> args.pin_thread, core |-> args.pin_core]

\* --reconnect comes before --ssl.  try_connect makes a WebSocketClient and does not
\* pass the pinning on.
BranchReconnect == args.auto_reconnect /\ Make("plain", NoPin, "managed")

BranchSsl == /\ ~args.auto_reconnect /\ args.use_ssl /\ ssl_built
             /\ Make("secure", client_config, "resolve")

BranchNoSsl == /\ ~args.auto_reconnect /\ args.use_ssl /\ ~ssl_built
               /\ At("branch") /\ End("exit1")

BranchPlain == /\ ~args.auto_reconnect /\ ~args.use_ssl
               /\ Make("plain", client_config, "resolve")

-----------------------------------------------------------------------------
(* connect(): resolve, TCP, server name and TLS handshake, upgrade *)

Phases == {"resolve", "tcp", "sni", "tls", "upgrade"}

\* An exception leaves the try block: the client is destroyed on the way.
Throws(from) == /\ At(from) /\ pc' = "close" /\ thrown' = TRUE
                /\ UNCHANGED <<parseVars, buildVars, clientVars, request, silent, outcome>>

\* Name service and TCP have timeouts of their own; a handshake needs the server.
PhaseAnswered == pc \in {"tls", "upgrade"} => ~silent

ConnectPhase ==
  /\ PhaseAnswered
  /\ \/ Move("resolve", "tcp", request)
     \/ Move("tcp", IF client = "secure" THEN "sni" ELSE "upgrade", request)
     \/ Move("sni", "tls", request)
     \/ Move("tls", "upgrade", request)

\* Mutant: the exception is swallowed and the phase tried again.
ConnectRetries == \E p \in Phases : PhaseAnswered /\ Move(p, "resolve", request)

ConnectThrows == \E p \in Phases : PhaseAnswered /\ Throws(p)

\* The upgrade is done, running_ is set and the receiver thread started.
Connected ==
  /\ At("upgrade") /\ ~silent /\ pc' = "loop"
  /\ conn' = "up" /\ running_' = TRUE /\ rx' = "start"
  /\ UNCHANGED <<parseVars, buildVars, client, config_, pinned, request, silent, thrown, outcome>>

-----------------------------------------------------------------------------
(* chat_session, as far as it uses the client *)

\* while (client.is_running())
SessionLoop == Move("loop", IF running_ THEN "input" ELSE "close", request)

\* A local command; "/exit" or the end of the input; a message to send.
SessionInput == \E to \in {"loop", "close", "send"} : Move("input", to, request)

\* ws_.write.  A broken connection may still take the frame, which is lost then.
SessionSend == conn # "closed" /\ Move("send", "spin", IF conn = "up" THEN "sent" ELSE "none")

SessionSendThrows == conn # "up" /\ Throws("send")

\* spin_receive has found the reply; "bench" sends the next message at once.
SpinReceive == request = "queued" /\ \E to \in {"loop", "send"} : Move("spin", to, "none")

-----------------------------------------------------------------------------
(* close(), of the session or of the destructor, and the end of main() *)

CloseFlag ==
  /\ At("close") /\ pc' = "close_ws" /\ running_' = FALSE
  /\ UNCHANGED <<parseVars, buildVars, client, config_, conn, rx, pinned,
                 request, silent, thrown, outcome>>

\* Mutant: the stream is left open.
CloseStreamForgotten == Move("close_ws", "join", request)

\* An open stream is closed: the closing frame is answered, or the connection is lost.
CloseStream ==
  /\ At("close_ws") /\ pc' = "join"
  /\ conn = "up" => ~silent
  /\ conn' = IF conn = "none" THEN conn ELSE "closed"
  /\ UNCHANGED <<parseVars, buildVars, client, config_, running_, rx, pinned,
                 request, silent, thrown, outcome>>

\* The receiver is joined.  (The destructor's close() after the session's own finds
\* nothing left to do.)  A catch clause returns 1.
Returns == At("join") /\ rx \in {"none", "done"} /\ End(IF thrown THEN "exit1" ELSE "exit0")

-----------------------------------------------------------------------------
(* Receiver thread: receive_loop *)

\* A step of the receiver after which it is at "to".
Rx(from, to) ==
  /\ outcome = "running" /\ rx = from /\ rx' = to
  /\ UNCHANGED <<parseVars, buildVars, pc, client, config_, silent, thrown, outcome>>

\* Mutant: the number of cores is taken for the last core.
ReceiverPinBeyond ==
  /\ Rx("start", "loop")
  /\ LET core == IF config_.core < 0 THEN get_cpu_count ELSE config_.core
     IN  pinned' \in IF config_.pin THEN pin_thread_to_core(core) ELSE {-1}
  /\ UNCHANGED <<conn, running_, request>>

\* ThreadPinner: a negative core means the last one.
ReceiverPin ==
  /\ Rx("start", "loop")
  /\ LET core == IF config_.core < 0 THEN get_cpu_count - 1 ELSE config_.core
     IN  pinned' \in IF config_.pin THEN pin_thread_to_core(core) ELSE {-1}
  /\ UNCHANGED <<conn, running_, request>>

\* while (running_): inside ws_.read the receiver first asks the TLS engine (if there
\* is one) for data ...
ReceiverLoop == /\ Rx("loop", IF ~running_ THEN "ending"
                              ELSE IF client = "secure" THEN "engine" ELSE "recv")
                /\ UNCHANGED <<conn, running_, request, pinned>>

\* ... and then waits for the socket.
ReceiverEngine == Rx("engine", "recv") /\ UNCHANGED <<conn, running_, request, pinned>>

\* The reply is read and queued.
ReceiverRead == /\ request = "sent" /\ conn # "closed" /\ ~silent
                /\ Rx("recv", "loop") /\ request' = "queued"
                /\ UNCHANGED <<conn, running_, pinned>>

\* Making the message throws (there is no memory for it) and the message is lost; the
\* stream stays open.
ReceiverThrows == /\ request = "sent" /\ conn # "closed" /\ ~silent
                  /\ Rx("recv", "ending") /\ request' = "none"
                  /\ UNCHANGED <<conn, running_, pinned>>

\* The read fails: the stream is no longer open.
ReceiverReadFails == /\ conn # "up" /\ Rx("recv", "ending") /\ conn' = "closed"
                     /\ UNCHANGED <<running_, request, pinned>>

\* Mutant: running_ is left as it is.
ReceiverEndsSilently == Rx("ending", "done") /\ UNCHANGED <<running_, conn, request, pinned>>

ReceiverEnds == Rx("ending", "done") /\ running_' = FALSE /\ UNCHANGED <<conn, request, pinned>>

\* Main writes a message or the closing frame while the receiver is inside the TLS
\* engine, which may not be used by two threads at a time.
EngineRace == /\ At("send") \/ At("close_ws")
              /\ client = "secure" /\ rx = "engine" /\ End("undefined")

-----------------------------------------------------------------------------
(* The server and the network *)

Network == outcome = "running"
           /\ UNCHANGED <<parseVars, buildVars, pc, client, config_, running_, rx, pinned,
                          request, thrown, outcome>>

Drop == Network /\ conn = "up" /\ conn' = "broken" /\ UNCHANGED silent

GoesSilent == Network /\ pc # "args" /\ ~silent /\ silent' = TRUE /\ UNCHANGED conn

-----------------------------------------------------------------------------
main == \/ ParseArgs \/ Help
        \/ BranchReconnect \/ BranchSsl \/ BranchNoSsl \/ BranchPlain
        \/ ConnectPhase \/ ConnectThrows \/ Connected
        \/ SessionLoop \/ SessionSend \/ SessionSendThrows \/ SpinReceive
        \/ CloseFlag \/ CloseStream \/ Returns
receive_loop == \/ ReceiverPin \/ ReceiverLoop \/ ReceiverEngine \/ ReceiverRead
                \/ ReceiverThrows \/ ReceiverReadFails \/ ReceiverEnds

Next == main \/ SessionInput \/ receive_loop \/ EngineRace \/ Drop \/ GoesSilent

Spec == Init /\ [][Next]_vars

\* Both threads run.  Nothing is assumed of the user, the network and the server.
Fairness == WF_vars(main) /\ WF_vars(receive_loop)

FairSpec == Spec /\ Fairness

-----------------------------------------------------------------------------
(* Properties *)

\* There is always a core, known or not.
MachineCores == {0} \cup 0 .. hardware_concurrency - 1

\* A receiver thread that reads is pinned exactly if --pin was given: to the core that
\* was asked for or, without one, to the last of the machine ("--pin [CORE]  Pin
\* receiver thread to CPU core", "-1 = last core"), or the system has refused just
\* that.  The receivers of --reconnect are not among these: see ClientAsAsked.
PinnedAsAsked ==
  rx \notin {"none", "start"} =>
    IF ~args.pin_thread THEN pinned = NotPinned
    ELSE \/ pinned = Refused
         \/ args.pin_core >= 0 /\ pinned = args.pin_core
         \/ args.pin_core < 0 /\ pinned \in MachineCores /\ \A c \in MachineCores : c <= pinned

\* is_running() is not stale for ever: while the session waits for input or for a
\* reply on a stream that is closed, or without a receiver, receive_loop has said so or
\* is about to, whichever way it has ended.
ClosedIsSaid ==
  pc \in {"loop", "input", "send", "spin"} /\ (conn = "closed" \/ rx = "done") =>
    rx = "ending" \/ ~running_

\* connect() comes to an end, with a connection or an exception.  The one thing it
\* waits for without end is a server that does not answer a handshake.
ConnectSettles == pc \in Phases ~> pc \notin Phases \/ silent

\* Quitting, a lost connection and an exception end the program.  Only a server that
\* does not answer the closing handshake can hold it up.
CloseReturns == pc = "close" ~> outcome # "running" \/ silent

\* The client is made as the options say, whichever are given together: for TLS with
\* --ssl ("Use TLS/SSL secure connection (wss://)"), and with its receiver pinned with
\* --pin ("Custom server with thread pinning + auto-reconnect").
ClientAsAsked ==
  client # "none" => /\ args.use_ssl => client = "secure"
                     /\ args.pin_thread => config_ = client_config
=============================================================================
