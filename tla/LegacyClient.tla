---------------------------- MODULE LegacyClient ----------------------------
(***************************************************************************)
(* The first version of the client, main.cpp in the root of the            *)
(* repository: a receiver thread hands the messages to main through a      *)
(* std::queue under a mutex and a condition variable.                      *)
(*                                                                         *)
(* A step is one access to what main and the receiver share: the mutex,    *)
(* the queue, the condition variable or the stream ws_.  Main is the only  *)
(* thread that waits on the condition variable.                            *)
(*                                                                         *)
(* Left out: the payloads (a frame is known by the request it echoes) and  *)
(* everything that is only printed.                                        *)
(***************************************************************************)
EXTENDS Naturals, Sequences

CONSTANT MaxRequests   \* bound: how many messages the user sends

ASSUME MaxRequestsAssumption == MaxRequests \in Nat

VARIABLES
  conn,       \* ws_: "none", "up", "broken" (and not noticed yet) or "closed"
  mutex_,     \* who holds it: "main", "rx" or "none"
  messages_,
  buffer,     \* what the receiver has read and not queued yet
  pc,         \* where main and the receiver are
  cmd,        \* the command main is busy with, at first "banner"
  asked,      \* how many messages main has sent
  response,   \* what getResponse returned last
  banner,     \* the welcome banner of the server: "due", "sent" or "never"
  toServer, toClient,   \* frames under way
  outcome     \* how the program ended, or "running"

queueVars == <<mutex_, messages_, buffer>>
mainVars == <<cmd, asked, response>>
serverVars == <<banner, toServer, toClient>>
vars == <<conn, queueVars, pc, mainVars, serverVars, outcome>>

Threads == {"main", "rx"}

Frame(n, isText) == [n |-> n, text |-> isText]   \* the banner is number 0
Banner == Frame(0, TRUE)

Init == /\ conn = "none"
        /\ mutex_ = "none" /\ messages_ = << >> /\ buffer = << >>
        /\ pc = [t \in Threads |-> IF t = "main" THEN "connect" ELSE "none"]
        /\ cmd = "banner" /\ asked = 0 /\ response = Banner
        /\ banner \in {"due", "never"}
        /\ toServer = << >> /\ toClient = << >>
        /\ outcome = "running"

At(t, loc) == outcome = "running" /\ pc[t] = loc
Goto(t, loc) == pc' = [pc EXCEPT ![t] = loc]

\* A step of t in which it does not touch the queue, or only the mutex.
Local(t, from, to) ==
  /\ At(t, from) /\ Goto(t, to)
  /\ UNCHANGED <<messages_, buffer, mainVars, serverVars, outcome>>

End(how) == /\ outcome' = how
            /\ UNCHANGED <<conn, queueVars, pc, mainVars, serverVars>>

-----------------------------------------------------------------------------
(* Main thread: connect() *)

\* The receiver thread is started, and chatSession calls getResponse.
Connect ==
  /\ At("main", "connect") /\ pc' = [pc EXCEPT !["main"] = "lock", !["rx"] = "open"]
  /\ conn' = "up"
  /\ UNCHANGED <<queueVars, mainVars, serverVars, outcome>>

\* There is no receiver thread yet: the catch clause of main() is reached.
ConnectThrows == At("main", "connect") /\ End("error")

-----------------------------------------------------------------------------
(* Main thread: getResponse() *)

Lock(t, from, to) == /\ mutex_ = "none" /\ mutex_' = t
                     /\ Local(t, from, to) /\ UNCHANGED conn

\* Mutant: cv_.wait keeps the mutex.
TestKeepsMutex ==
  \/ /\ messages_ = << >> /\ Local("main", "test", "wait") /\ UNCHANGED <<mutex_, conn>>
  \/ /\ At("main", "test") /\ Goto("main", "input") /\ messages_ # << >>
     /\ response' = Head(messages_) /\ messages_' = Tail(messages_)
     /\ mutex_' = "none"
     /\ UNCHANGED <<conn, buffer, cmd, asked, serverVars, outcome>>

\* The predicate of cv_.wait: with no message the mutex is released and main waits.
Test ==
  \/ /\ messages_ = << >> /\ Local("main", "test", "wait")
     /\ mutex_' = "none" /\ UNCHANGED conn
  \/ /\ At("main", "test") /\ Goto("main", "input") /\ messages_ # << >>
     /\ response' = Head(messages_) /\ messages_' = Tail(messages_)
     /\ mutex_' = "none"
     /\ UNCHANGED <<conn, buffer, cmd, asked, serverVars, outcome>>

\* A condition variable may wake up for no reason; the mutex is taken again.
SpuriousWakeup == Local("main", "wait", "lock") /\ UNCHANGED <<mutex_, conn>>

-----------------------------------------------------------------------------
(* Main thread: chatSession(), close() *)

\* An exception leaves main()'s try block.  The client is destroyed before the
\* handler runs, and its receiver_thread_, joinable since connect(), calls
\* std::terminate.
Throws == End("terminated")

\* Mutant: sendBinary without ws_.binary(true).
SendAsText(isText) ==
  /\ At("main", "input") /\ conn # "closed" /\ asked < MaxRequests
  /\ Goto("main", "lock")
  /\ cmd' = IF isText THEN "text" ELSE "binary"
  /\ asked' = asked + 1
  /\ toServer' = IF conn = "up" THEN Append(toServer, Frame(asked + 1, TRUE)) ELSE toServer
  /\ UNCHANGED <<conn, queueVars, response, banner, toClient, outcome>>

\* "text" or "binary": sendText or sendBinary, then getResponse.  A broken
\* connection may still take the frame, which is lost then.
Send(isText) ==
  /\ At("main", "input") /\ conn # "closed" /\ asked < MaxRequests
  /\ Goto("main", "lock")
  /\ cmd' = IF isText THEN "text" ELSE "binary"
  /\ asked' = asked + 1
  /\ toServer' = IF conn = "up" THEN Append(toServer, Frame(asked + 1, isText)) ELSE toServer
  /\ UNCHANGED <<conn, queueVars, response, banner, toClient, outcome>>

SendThrows == At("main", "input") /\ conn # "up" /\ Throws

\* Any other word sends nothing, and getResponse is called all the same.
Unknown ==
  /\ At("main", "input") /\ Goto("main", "lock")
  /\ cmd' = "unknown"
  /\ UNCHANGED <<conn, queueVars, asked, response, serverVars, outcome>>

\* At the end of the input getline leaves the line empty, for ever.  (An empty
\* line, before it, changes nothing.)
EndOfInput == Local("main", "input", "eof") /\ UNCHANGED <<mutex_, conn>>

Exit == Local("main", "input", "close") /\ UNCHANGED <<mutex_, conn>>

\* Mutant: the stream is left open.
CloseForgotten == Local("main", "close", "join") /\ UNCHANGED <<mutex_, conn>>

\* close(): ws_.close if the stream is open ...
Close == Local("main", "close", "join") /\ conn' = "closed" /\ UNCHANGED mutex_

\* ... which fails if the connection is lost, or if the receiver thread takes the
\* server's closing frame away from it ...
CloseThrows == At("main", "close") /\ conn # "closed" /\ Throws

\* ... and the join; main() returns.
Join == At("main", "join") /\ pc["rx"] = "done" /\ End("exited")

-----------------------------------------------------------------------------
(* Receiver thread: receiveContinuous() *)

\* while (ws_.is_open())
RxOpen == Local("rx", "open", IF conn = "closed" THEN "done" ELSE "read")
          /\ UNCHANGED <<mutex_, conn>>

RxRead ==
  /\ At("rx", "read") /\ Goto("rx", "lock")
  /\ conn # "closed" /\ toClient # << >>
  /\ buffer' = <<Head(toClient)>> /\ toClient' = Tail(toClient)
  /\ UNCHANGED <<conn, mutex_, messages_, mainVars, banner, toServer, outcome>>

\* ws_.read throws, the stream is no longer open, the thread ends without a word.
RxReadThrows == conn # "up" /\ Local("rx", "read", "done")
                /\ conn' = "closed" /\ UNCHANGED mutex_

\* Mutant: the lock_guard is missing.
RxNoLock == Local("rx", "lock", "push") /\ UNCHANGED <<mutex_, conn>>

RxLock == Lock("rx", "lock", "push")

\* Mutant: a binary message is not queued.
RxPushText ==
  /\ At("rx", "push") /\ Goto("rx", "notify")
  /\ messages_' = IF buffer[1].text THEN messages_ \o buffer ELSE messages_
  /\ buffer' = << >>
  /\ UNCHANGED <<conn, mutex_, mainVars, serverVars, outcome>>

RxPush ==
  /\ At("rx", "push") /\ Goto("rx", "notify")
  /\ messages_' = messages_ \o buffer /\ buffer' = << >>
  /\ UNCHANGED <<conn, mutex_, mainVars, serverVars, outcome>>

\* Mutant: nobody is notified.
RxSilent == Local("rx", "notify", "unlock") /\ UNCHANGED <<mutex_, conn>>

\* cv_.notify_one(): main, if it waits, goes on to take the mutex again.
RxNotify ==
  /\ At("rx", "notify")
  /\ pc' = [pc EXCEPT !["rx"] = "unlock", !["main"] = IF @ = "wait" THEN "lock" ELSE @]
  /\ UNCHANGED <<conn, queueVars, mainVars, serverVars, outcome>>

\* The lock_guard is destroyed.
RxUnlock == Local("rx", "unlock", "open") /\ mutex_' = "none" /\ UNCHANGED conn

-----------------------------------------------------------------------------
(* The server and the network *)

Greet ==
  /\ outcome = "running" /\ conn = "up" /\ banner = "due"
  /\ banner' = "sent" /\ toClient' = Append(toClient, Banner)
  /\ UNCHANGED <<conn, queueVars, pc, mainVars, toServer, outcome>>

Echo ==
  /\ outcome = "running" /\ conn = "up" /\ toServer # << >>
  /\ toServer' = Tail(toServer) /\ toClient' = Append(toClient, Head(toServer))
  /\ UNCHANGED <<conn, queueVars, pc, mainVars, banner, outcome>>

Drop ==
  /\ outcome = "running" /\ conn = "up" /\ conn' = "broken"
  /\ UNCHANGED <<queueVars, pc, mainVars, serverVars, outcome>>

-----------------------------------------------------------------------------
getResponse == Lock("main", "lock", "test") \/ Test
close == Close \/ CloseThrows \/ Join
receiveContinuous == \/ RxOpen \/ RxRead \/ RxReadThrows \/ RxLock \/ RxPush
                     \/ RxNotify \/ RxUnlock

Next == \/ Connect \/ ConnectThrows \/ getResponse \/ SpuriousWakeup
        \/ (\E isText \in BOOLEAN : Send(isText)) \/ SendThrows \/ Unknown
        \/ EndOfInput \/ Exit \/ close
        \/ receiveContinuous
        \/ Greet \/ Echo \/ Drop

Spec == Init /\ [][Next]_vars

\* The threads run, the server greets (if it does) and echoes while the connection
\* is up.  A thread that finds the mutex free again and again gets it, although main
\* may wake up, look and wait any number of times.  Nothing is assumed of the user,
\* the network and spurious wake-ups.
Fairness == /\ WF_vars(getResponse) /\ WF_vars(close)
            /\ WF_vars(receiveContinuous) /\ SF_vars(RxLock)
            /\ WF_vars(Greet) /\ WF_vars(Echo)

FairSpec == Spec /\ Fairness

-----------------------------------------------------------------------------
(* Properties *)

Frames == [n : 0 .. MaxRequests, text : BOOLEAN]
MainPcs == {"connect", "lock", "test", "wait", "input", "eof", "close", "join"}
RxPcs == {"none", "open", "read", "lock", "push", "notify", "unlock", "done"}

\* Besides the types: although messages_ is unbounded, it and the receiver's buffer
\* never hold more than one message.
TypeOK ==
  /\ conn \in {"none", "up", "broken", "closed"}
  /\ mutex_ \in {"main", "rx", "none"}
  /\ messages_ \in Seq(Frames) /\ buffer \in Seq(Frames) /\ Len(messages_) + Len(buffer) <= 1
  /\ pc \in [Threads -> MainPcs \cup RxPcs] /\ pc["main"] \in MainPcs /\ pc["rx"] \in RxPcs
  /\ cmd \in {"banner", "text", "binary", "unknown"}
  /\ asked \in 0 .. MaxRequests /\ response \in Frames
  /\ banner \in {"due", "sent", "never"}
  /\ toServer \in Seq(Frames) /\ toClient \in Seq(Frames)
  /\ outcome \in {"running", "exited", "error", "terminated"}

\* Whoever is at a place where messages_ is used holds the mutex, so that the two
\* threads never use it at a time; and a thread that waits does not hold it.
MutexHeld ==
  /\ mutex_ = "main" <=> pc["main"] = "test"
  /\ mutex_ = "rx" <=> pc["rx"] \in {"push", "notify", "unlock"}

\* No wake-up is lost: main is not left waiting on a queue with a message in it,
\* except until the notify_one that the receiver is about to call.
NoLostWakeup == pc["main"] = "wait" /\ messages_ # << >> => pc["rx"] = "notify"

\* The messages that main will get: the banner, requests and echoes under way,
\* what was read and what was queued.
Pending == (IF banner = "due" THEN 1 ELSE 0) + Len(toServer) + Len(toClient)
           + Len(buffer) + Len(messages_)

InGetResponse == outcome = "running" /\ pc["main"] \in {"lock", "test", "wait"}

\* getResponse waits in vain on a live connection only if main() asked for nothing:
\* after an unknown command, or for the banner of a server that sends none.
WaitsForSomething ==
  InGetResponse /\ conn = "up" /\ cmd # "unknown" /\ banner # "never" => Pending > 0

\* Replies are matched to requests by order alone, but since main waits for the
\* banner before anything else each reply is the echo of the request, and comes back
\* as the kind it was sent as.
RepliesMatch ==
  pc["main"] = "input" /\ asked > 0 =>
    response = Frame(asked, cmd = "text")

\* What is on its way is handed over: getResponse returns as long as the
\* connection lasts ("cv_.wait() -> Waits until a message is available").
ResponseComes ==
  InGetResponse /\ Pending > 0 ~> pc["main"] = "input" \/ conn # "up" \/ outcome # "running"

\* /exit ends the program: close() does not wait for a receiver that waits for it.
CloseReturns == pc["main"] = "close" ~> outcome # "running"
=============================================================================
