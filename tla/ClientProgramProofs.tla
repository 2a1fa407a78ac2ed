------------------------ MODULE ClientProgramProofs ------------------------
(***************************************************************************)
(* Proofs about ClientProgram and, within it, CommandLine: for any set of  *)
(* command lines, of any length, any numerals and any number of cores.     *)
(*                                                                         *)
(* OptionsAsDocumented speaks of the end of the line only.  Its inductive  *)
(* form, Collected, says the same of the arguments that the loop of        *)
(* parse_args has passed, and that the loop is never in the middle of an   *)
(* option and its value.                                                   *)
(***************************************************************************)
EXTENDS ClientProgram, TLAPS

-----------------------------------------------------------------------------
(* The arguments *)

\* The strings, and (for the provers, who do not know them to be strings) these.
Strings == STRING \cup {kDefaultHost, "80", "443"}

\* struct CliArgs
ArgTypes == [host : Strings, port : Strings, pin_thread : BOOLEAN, pin_core : Int,
             auto_reconnect : BOOLEAN, use_ssl : BOOLEAN]

\* What parse_args works on.
ParseTypes == /\ argv \in Seq(STRING) /\ i \in Nat \ {0} /\ parsing \in BOOLEAN
              /\ args \in ArgTypes

\* The options o among the arguments that the loop has passed.
Passed(o) == {k \in Given(o) : k < i}

\* v is the value in the line after the last of the options at the positions K, or d.
IsLast(line, v, K, d) == \/ K = {} /\ v = d
                         \/ \E k \in K : (\A j \in K : j <= k) /\ v = line[k + 1]

\* The core c is the number after the last of the options at the positions K, or -1.
IsLastCore(line, c, K) == \/ K = {} /\ c = -1
                          \/ \E k \in K : (\A j \in K : j <= k) /\ c = stoi[line[k + 1]]

\* parse_args is through with an option and its value at a time, and what it has
\* collected is what the arguments that it has passed say.
Collected ==
  /\ i <= Len(argv) + 1
  /\ i <= Len(argv) => argv[i] \in Options
  /\ IsLast(argv, args.host, Passed("--host"), kDefaultHost)
  /\ IsLast(argv, args.port, Passed("--port"), IF Passed("--ssl") = {} THEN "80" ELSE "443")
  /\ args.pin_thread <=> Passed("--pin") # {}
  /\ IsLastCore(argv, args.pin_core, Passed("--pin") \cap Cores)
  /\ args.auto_reconnect <=> Passed("--reconnect") # {}
  /\ args.use_ssl <=> Passed("--ssl") # {}

\* Of other lines nothing is said: their stray values are taken for HOST and PORT, or
\* ignored.
ParseInv == ParseTypes /\ (parsing /\ WellFormed /\ ~Port80BeforeSsl => Collected)

\* Every branch of the loop keeps the types.
LEMMA ParseTypesStep == ASSUME ParseTypes, parse_args PROVE ParseTypes'
<1>1. \A k \in 1 .. Len(argv) : argv[k] \in STRING
  BY DEF ParseTypes
<1>2. /\ HasNext => i + 1 \in 1 .. Len(argv)
      /\ Arg => i \in 1 .. Len(argv)
      /\ i + 1 \in Nat \ {0} /\ i + 2 \in Nat \ {0}
  BY DEF ParseTypes, HasNext, Arg
<1>3. /\ HasNext => argv[i + 1] \in Strings
      /\ Arg => argv[i] \in Strings
      /\ \A n \in Numbers : stoi[n] \in Int
  BY <1>1, <1>2, StoiAssumption DEF Strings
<1>4. CASE ParseHost
  BY <1>2, <1>3, <1>4 DEF ParseHost, Parsed, ParseTypes, ArgTypes
<1>5. CASE ParsePort
  BY <1>2, <1>3, <1>5 DEF ParsePort, Parsed, ParseTypes, ArgTypes
<1>6. CASE ParsePin
  BY <1>2, <1>3, <1>6 DEF ParsePin, Parsed, ParseTypes, ArgTypes
<1>7. CASE ParseReconnect
  BY <1>2, <1>3, <1>7 DEF ParseReconnect, Parsed, ParseTypes, ArgTypes
<1>8. CASE ParseSsl
  <2>1. "443" \in Strings /\ args.port \in Strings
    BY DEF ParseTypes, ArgTypes, Strings
  <2>2. PICK p \in Strings : args' = [args EXCEPT !.use_ssl = TRUE, !.port = p]
    BY <1>8, <2>1 DEF ParseSsl, Parsed
  <2> QED BY <1>2, <1>8, <2>2 DEF ParseSsl, Parsed, ParseTypes, ArgTypes
<1>9. CASE ParsePositional
  BY <1>2, <1>3, <1>9 DEF ParsePositional, Parsed, ParseTypes, ArgTypes
<1>10. CASE ParseReturns
  <2>1. << >> \in Seq(STRING) /\ 1 \in Nat \ {0}
    OBVIOUS
  <2> QED BY <1>10, <2>1 DEF ParseReturns, ParseTypes
<1> QED BY <1>4, <1>5, <1>6, <1>7, <1>8, <1>9, <1>10 DEF parse_args

\* The loop passes the option at i, and its value with it if it has one.
Pass(n) == /\ Arg /\ UNCHANGED argv /\ i' = i + n
           /\ n = IF IsValue(i + 1) THEN 2 ELSE 1

\* The options among the arguments passed, after another pass of the loop.
LEMMA PassedStep ==
  ASSUME ParseTypes, NEW n, Pass(n), NEW o \in Options
  PROVE  Passed(o)' = IF argv[i] = o THEN Passed(o) \cup {i} ELSE Passed(o)
<1>1. i \in DOMAIN argv /\ i \in Nat /\ argv' = argv /\ DOMAIN argv \subseteq Nat
  BY DEF ParseTypes, Pass, Arg
<1>2. CASE IsValue(i + 1)
  <2>1. i' = i + 2 /\ argv[i + 1] # o
    BY <1>2 DEF Pass, IsValue
  <2>2. \A k \in Nat : k < i' <=> k < i \/ k = i \/ k = i + 1
    BY <1>1, <2>1
  <2> QED BY <1>1, <2>1, <2>2 DEF Passed, Given
<1>3. CASE ~IsValue(i + 1)
  <2>1. i' = i + 1
    BY <1>3 DEF Pass
  <2>2. \A k \in Nat : k < i' <=> k < i \/ k = i
    BY <1>1, <2>1
  <2> QED BY <1>1, <2>2 DEF Passed, Given
<1> QED BY <1>2, <1>3

\* Behind an option and its value comes the next option, or the end.
LEMMA NextOption ==
  ASSUME ParseTypes, WellFormed, NEW n, Pass(n), argv[i] \in Options
  PROVE  i' <= Len(argv') + 1 /\ (i' <= Len(argv') => argv'[i'] \in Options)
<1>1. i \in Nat /\ Len(argv) \in Nat /\ DOMAIN argv = 1 .. Len(argv) /\ argv' = argv
  BY DEF ParseTypes, Pass
<1>2. CASE IsValue(i + 1)
  <2>1. i' = i + 2 /\ i + 1 \in DOMAIN argv /\ argv[i + 1] \notin Options
    BY <1>2 DEF Pass, IsValue
  <2>2. i' <= Len(argv) + 1 /\ (i' <= Len(argv) => i' \in DOMAIN argv) /\ i' - 1 = i + 1
    BY <1>1, <2>1
  <2>3. IsValue(i') => argv[i' - 1] \in Options
    BY <2>2 DEF WellFormed, IsValue, Options
  <2> QED BY <1>1, <2>1, <2>2, <2>3 DEF IsValue
<1>3. CASE ~IsValue(i + 1)
  <2>1. i' = i + 1
    BY <1>3 DEF Pass
  <2>2. i' <= Len(argv) + 1 /\ (i' <= Len(argv) => i' \in DOMAIN argv)
    BY <1>1, <2>1 DEF Pass, Arg
  <2> QED BY <1>1, <1>3, <2>1, <2>2 DEF IsValue
<1> QED BY <1>2, <1>3

\* The option at i is the last of the ones up to i.
LEMMA LastIsNew ==
  ASSUME ParseTypes, NEW o, NEW K, K \subseteq Passed(o), NEW d
  PROVE  IsLast(argv, argv[i + 1], K \cup {i}, d)
<1>1. i \in Nat /\ \A k \in K \cup {i} : k \in Nat /\ k <= i
  BY DEF ParseTypes, Passed, Given
<1> QED BY <1>1 DEF IsLast

\* What a pass of the loop collects is what the arguments now passed say.
LEMMA CollectedStep ==
  ASSUME ParseTypes, WellFormed, ~Port80BeforeSsl, Collected, parse_args, parsing'
  PROVE  Collected'
<1>1. /\ i \in Nat /\ Len(argv) \in Nat /\ DOMAIN argv = 1 .. Len(argv) /\ parsing
      /\ args \in ArgTypes /\ argv' = argv /\ Arg /\ i \in DOMAIN argv
  <2>1. argv' = argv /\ Arg
    BY DEF parse_args, ParseHost, ParsePort, ParsePin, ParseReconnect, ParseSsl,
           ParsePositional, ParseReturns, Parsed
  <2>2. /\ i \in Nat \ {0} /\ Len(argv) \in Nat /\ DOMAIN argv = 1 .. Len(argv)
        /\ args \in ArgTypes
    BY DEF ParseTypes
  <2> QED BY <2>1, <2>2 DEF Arg
<1>2. argv[i] \in Options /\ (HasNext <=> i + 1 \in DOMAIN argv)
  BY <1>1 DEF Collected, Arg, HasNext
<1>3. IsValue(i + 1) => \/ argv[i] \in {"--host", "--port"}
                        \/ argv[i] = "--pin" /\ argv[i + 1] \in Numbers
  <2>1. (i + 1) - 1 = i
    BY <1>1
  <2> QED BY <2>1 DEF WellFormed, IsValue
<1>4. argv[i] \in {"--host", "--port"} => IsValue(i + 1) /\ HasNext
  BY <1>1, <1>2 DEF WellFormed, Given, IsValue
<1>5. argv[i + 1] \in Numbers => argv[i + 1] \notin Options
  BY StoiAssumption
<1>6. ~ParsePositional
  BY <1>2, <1>4 DEF ParsePositional
<1>7. Cores' = Cores
  BY <1>1 DEF Cores, Given, IsValue
<1>8. CASE ParseHost
  <2>1. Pass(2) /\ args' = [args EXCEPT !.host = argv[i + 1]] /\ argv[i] = "--host"
    BY <1>1, <1>4, <1>8 DEF ParseHost, Parsed, Pass
  <2>2. /\ Passed("--host")' = Passed("--host") \cup {i}
        /\ \A o \in Options \ {"--host"} : Passed(o)' = Passed(o)
    BY <2>1, PassedStep DEF Options
  <2>3. IsLast(argv, argv[i + 1], Passed("--host") \cup {i}, kDefaultHost)
    BY LastIsNew
  <2>4. i' <= Len(argv') + 1 /\ (i' <= Len(argv') => argv'[i'] \in Options)
    BY <1>2, <2>1, NextOption
  <2> QED BY <1>1, <1>7, <2>1, <2>2, <2>3, <2>4 DEF Collected, Options, ArgTypes
<1>9. CASE ParsePort
  <2>1. Pass(2) /\ args' = [args EXCEPT !.port = argv[i + 1]] /\ argv[i] = "--port"
    BY <1>1, <1>4, <1>9 DEF ParsePort, Parsed, Pass
  <2>2. /\ Passed("--port")' = Passed("--port") \cup {i}
        /\ \A o \in Options \ {"--port"} : Passed(o)' = Passed(o)
    BY <2>1, PassedStep DEF Options
  <2>3. \A d : IsLast(argv, argv[i + 1], Passed("--port") \cup {i}, d)
    BY LastIsNew
  <2>4. i' <= Len(argv') + 1 /\ (i' <= Len(argv') => argv'[i'] \in Options)
    BY <1>2, <2>1, NextOption
  <2> QED BY <1>1, <1>7, <2>1, <2>2, <2>3, <2>4 DEF Collected, Options, ArgTypes
<1>10. CASE ParsePin
  <2>1. argv[i] = "--pin" /\ (IsValue(i + 1) <=> HasNext /\ argv[i + 1] \in Numbers)
    BY <1>2, <1>3, <1>5, <1>10 DEF ParsePin, IsValue
  <2>2. ASSUME NEW n, Pass(n)
        PROVE  /\ Passed("--pin")' = Passed("--pin") \cup {i}
               /\ \A o \in Options \ {"--pin"} : Passed(o)' = Passed(o)
               /\ i' <= Len(argv') + 1 /\ (i' <= Len(argv') => argv'[i'] \in Options)
    BY <1>2, <2>1, <2>2, PassedStep, NextOption DEF Options
  <2>3. CASE IsValue(i + 1)
    <3>1. Pass(2) /\ args' = [args EXCEPT !.pin_thread = TRUE, !.pin_core = stoi[argv[i + 1]]]
      BY <1>1, <1>10, <2>1, <2>3 DEF ParsePin, Parsed, Pass
    <3>2. i \in Cores
      BY <1>1, <2>1, <2>3 DEF Cores, Given
    <3>3. (Passed("--pin") \cap Cores)' = (Passed("--pin") \cap Cores) \cup {i}
      BY <1>7, <2>2, <3>1, <3>2
    <3>4. \A j \in (Passed("--pin") \cap Cores) \cup {i} : j <= i
      BY <1>1 DEF Passed, Given
    <3>5. args'.pin_core = stoi[argv'[i + 1]]
      BY <1>1, <3>1 DEF ArgTypes
    <3>6. IsLastCore(argv', args'.pin_core, (Passed("--pin") \cap Cores)')
      BY <3>3, <3>4, <3>5 DEF IsLastCore
    <3> QED BY <1>1, <2>2, <3>1, <3>6 DEF Collected, Options, ArgTypes
  <2>4. CASE ~IsValue(i + 1)
    <3>1. Pass(1) /\ args' = [args EXCEPT !.pin_thread = TRUE]
      BY <1>1, <1>10, <2>1, <2>4 DEF ParsePin, Parsed, Pass
    <3>2. i \notin Cores
      BY <2>4 DEF Cores
    <3>3. (Passed("--pin") \cap Cores)' = Passed("--pin") \cap Cores
      BY <1>7, <2>2, <3>1, <3>2
    <3> QED BY <1>1, <2>2, <3>1, <3>3 DEF Collected, Options, ArgTypes
  <2> QED BY <2>3, <2>4
<1>11. CASE ParseReconnect
  <2>1. Pass(1) /\ args' = [args EXCEPT !.auto_reconnect = TRUE] /\ argv[i] = "--reconnect"
    BY <1>1, <1>3, <1>11 DEF ParseReconnect, Parsed, Pass
  <2>2. /\ Passed("--reconnect")' = Passed("--reconnect") \cup {i}
        /\ \A o \in Options \ {"--reconnect"} : Passed(o)' = Passed(o)
    BY <2>1, PassedStep DEF Options
  <2>3. i' <= Len(argv') + 1 /\ (i' <= Len(argv') => argv'[i'] \in Options)
    BY <1>2, <2>1, NextOption
  <2> QED BY <1>1, <1>7, <2>1, <2>2, <2>3 DEF Collected, Options, ArgTypes
<1>12. CASE ParseSsl
  <2>1. /\ Pass(1) /\ argv[i] = "--ssl"
        /\ args' = [args EXCEPT !.use_ssl = TRUE, !.port = IF @ = "80" THEN "443" ELSE @]
    BY <1>1, <1>3, <1>12 DEF ParseSsl, Parsed, Pass
  <2>2. /\ Passed("--ssl")' = Passed("--ssl") \cup {i}
        /\ \A o \in Options \ {"--ssl"} : Passed(o)' = Passed(o)
    BY <2>1, PassedStep DEF Options
  <2>3. i' <= Len(argv') + 1 /\ (i' <= Len(argv') => argv'[i'] \in Options)
    BY <1>2, <2>1, NextOption
  <2>4. IsLast(argv, args'.port, Passed("--port"), "443")
    <3>1. CASE Passed("--port") = {}
      BY <1>1, <2>1, <3>1 DEF Collected, IsLast, ArgTypes
    <3>2. CASE Passed("--port") # {}
      <4>1. PICK k \in Passed("--port") :
              (\A j \in Passed("--port") : j <= k) /\ args.port = argv[k + 1]
        BY <3>2 DEF Collected, IsLast
      <4>2. args.port # "80"
        BY <1>1, <2>1, <4>1 DEF Port80BeforeSsl, Passed, Given
      <4> QED BY <1>1, <2>1, <4>1, <4>2 DEF IsLast, ArgTypes
    <3> QED BY <3>1, <3>2
  <2> QED BY <1>1, <1>7, <2>1, <2>2, <2>3, <2>4 DEF Collected, Options, ArgTypes
<1> QED
  BY <1>1, <1>6, <1>8, <1>9, <1>10, <1>11, <1>12 DEF parse_args, ParseReturns, Arg

\* A step of parse_args, whatever the command line is.
LEMMA ParseInvStep == ASSUME ParseInv, parse_args PROVE ParseInv'
<1>1. ParseTypes'
  BY ParseTypesStep DEF ParseInv
<1>2. ASSUME parsing', WellFormed', ~Port80BeforeSsl' PROVE Collected'
  <2>1. parsing /\ argv' = argv
    BY <1>2 DEF parse_args, ParseHost, ParsePort, ParsePin, ParseReconnect, ParseSsl,
         ParsePositional, ParseReturns, Parsed, Arg
  <2>2. WellFormed /\ ~Port80BeforeSsl
    BY <1>2, <2>1 DEF WellFormed, Port80BeforeSsl, Given, IsValue
  <2> QED BY <1>2, <2>1, <2>2, CollectedStep DEF ParseInv
<1> QED BY <1>1, <1>2 DEF ParseInv

\* Before the first argument the defaults are what the arguments passed say.
LEMMA ParseInvInit == ASSUME ParseInit PROVE ParseInv
<1>1. ParseTypes
  <2>1. CliArgs \in ArgTypes
    BY DEF CliArgs, ArgTypes, Strings
  <2>2. argv \in Seq(STRING)
    BY CommandLinesAssumption DEF ParseInit
  <2> QED BY <2>1, <2>2 DEF ParseInit, ParseTypes
<1>2. ASSUME WellFormed PROVE Collected
  <2>1. \A o : Passed(o) = {}
    BY <1>1 DEF ParseInit, ParseTypes, Passed, Given
  <2>2. 1 <= Len(argv) => argv[1] \in Options
    BY <1>1, <1>2 DEF WellFormed, IsValue, ParseTypes
  <2>3. Len(argv) \in Nat /\ i = 1 /\ args = CliArgs
    BY <1>1 DEF ParseTypes, ParseInit
  <2> QED BY <2>1, <2>2, <2>3 DEF Collected, CliArgs, IsLast, IsLastCore
<1> QED BY <1>1, <1>2 DEF ParseInv

\* At the end of the line the loop has passed everything.
LEMMA AllPassed == ASSUME ParseInv PROVE OptionsAsDocumented
<1> SUFFICES ASSUME parsing, i = Len(argv) + 1, WellFormed, ~Port80BeforeSsl
             PROVE  args = Documented
  BY DEF OptionsAsDocumented
<1>1. Collected /\ args \in ArgTypes /\ Len(argv) \in Nat /\ DOMAIN argv = 1 .. Len(argv)
  BY DEF ParseInv, ParseTypes
<1>2. \A o : Passed(o) = Given(o)
  BY <1>1 DEF Passed, Given
<1>3. \A o : Given(o) \subseteq Nat
  BY <1>1 DEF Given
<1>4. ASSUME NEW K \in SUBSET Nat, NEW k \in K, \A j \in K : j <= k
      PROVE  ValueOfLast(K) = argv[k + 1]
  <2> DEFINE last == CHOOSE l \in K : \A j \in K : j <= l
  <2>1. \A l \in K : (\A j \in K : j <= l) => l = k
    BY <1>4
  <2>2. last = k
    BY <1>4, <2>1
  <2> QED BY <2>2 DEF ValueOfLast
<1>5. ASSUME NEW v, NEW K \in SUBSET Nat, NEW d, IsLast(argv, v, K, d)
      PROVE  v = LastValue(K, d)
  BY <1>5, <1>4 DEF IsLast, LastValue
<1>6. args.host = Documented.host
  BY <1>1, <1>2, <1>3, <1>5 DEF Collected, Documented
<1>7. args.port = Documented.port
  BY <1>1, <1>2, <1>3, <1>5 DEF Collected, Documented
<1>8. args.pin_core = Documented.pin_core
  <2>1. Given("--pin") \cap Cores = Cores /\ Cores \in SUBSET Nat
    BY <1>3 DEF Cores
  <2>2. IsLastCore(argv, args.pin_core, Cores)
    BY <1>1, <1>2, <2>1 DEF Collected
  <2>3. CASE Cores = {}
    BY <2>2, <2>3 DEF IsLastCore, Documented
  <2>4. CASE Cores # {}
    <3>1. PICK k \in Cores : (\A j \in Cores : j <= k) /\ args.pin_core = stoi[argv[k + 1]]
      BY <2>2, <2>4 DEF IsLastCore
    <3> QED BY <1>4, <2>1, <2>4, <3>1 DEF Documented
  <2> QED BY <2>3, <2>4
<1>9. /\ args.pin_thread = Documented.pin_thread
      /\ args.auto_reconnect = Documented.auto_reconnect
      /\ args.use_ssl = Documented.use_ssl
  BY <1>1, <1>2 DEF Collected, Documented, ArgTypes
<1> QED BY <1>1, <1>6, <1>7, <1>8, <1>9 DEF Documented, ArgTypes

-----------------------------------------------------------------------------
(* The client *)

\* The receiver's core, as ThreadPinner gets it.
Core(config) == IF config.core < 0 THEN get_cpu_count - 1 ELSE config.core

\* Where a receiver is started, ClientConfig is the one of the arguments; once it is past
\* ThreadPinner, the receiver is pinned as its client's ClientConfig says.
Configured ==
  /\ hardware_concurrency \in Nat
  /\ pc \in {"args", "branch", "managed"} => rx = "none"
  /\ pc \notin {"args", "branch", "managed"} => config_ = client_config
  /\ rx \notin {"none", "start"} =>
       pinned \in IF config_.pin THEN {Core(config_), Refused} ELSE {NotPinned}

\* The inductive invariant.
IInv == ParseInv /\ Configured /\ ClosedIsSaid

\* When main() starts nothing is parsed, made or connected.
LEMMA IInvInit == ASSUME Init PROVE IInv
<1>1. ParseInv
  BY ParseInvInit DEF Init
<1>2. Configured
  BY HardwareAssumption DEF Init, Configured
<1>3. ClosedIsSaid
  BY DEF Init, ClosedIsSaid
<1> QED BY <1>1, <1>2, <1>3 DEF IInv

\* Only parse_args changes what it has collected.
LEMMA ParseInvKept == ASSUME ParseInv, UNCHANGED parseVars PROVE ParseInv'
<1>1. UNCHANGED <<argv, i, args, parsing>>
  BY DEF parseVars
<1>2. ParseTypes'
  BY <1>1 DEF ParseInv, ParseTypes
<1>3. /\ WellFormed' => WellFormed
      /\ Port80BeforeSsl => Port80BeforeSsl'
  BY <1>1 DEF WellFormed, Port80BeforeSsl, Given, IsValue
<1>4. Cores' = Cores /\ \A o : Passed(o)' = Passed(o)
  BY <1>1 DEF Cores, Passed, Given, IsValue
<1>5. Collected => Collected'
  BY <1>1, <1>4 DEF Collected
<1> QED BY <1>1, <1>2, <1>3, <1>5 DEF ParseInv

\* No step but those of parse_args has anything to do with the arguments.
LEMMA ParseInvNext == ASSUME ParseInv, [Next]_vars PROVE ParseInv'
<1>1. CASE ParseArgs
  BY <1>1, ParseInvStep DEF ParseArgs
<1>2. CASE UNCHANGED parseVars
  BY <1>2, ParseInvKept
<1>3. CASE [Next]_vars /\ ~ParseArgs
  <2>1. UNCHANGED parseVars
    BY <1>3 DEF Next, main, receive_loop, vars, Help, End, BranchReconnect, BranchSsl,
       BranchNoSsl, BranchPlain, Make, ConnectPhase, ConnectThrows, Throws, Move, Connected,
       SessionLoop, SessionInput, SessionSend, SessionSendThrows, SpinReceive, CloseFlag,
       CloseStream, Returns, ReceiverPin, ReceiverLoop, ReceiverEngine, ReceiverRead,
       ReceiverThrows, ReceiverReadFails, ReceiverEnds, Rx, EngineRace, Drop, GoesSilent, Network
  <2> QED BY <1>2, <2>1
<1> QED BY <1>1, <1>3

\* Every step keeps ClientConfig and the pinning in line with the arguments.
LEMMA ConfiguredNext == ASSUME Configured, [Next]_vars PROVE Configured'
<1> USE DEF Configured, Core, get_cpu_count
<1>1. CASE ParseArgs
  BY <1>1 DEF ParseArgs, At, buildVars, clientVars
<1>2. CASE Help \/ BranchNoSsl \/ Returns \/ EngineRace \/ UNCHANGED vars
  BY <1>2 DEF Help, BranchNoSsl, Returns, EngineRace, End, buildVars, clientVars, parseVars,
              vars, client_config
<1>3. CASE BranchReconnect \/ BranchSsl \/ BranchPlain
  <2>1. PICK config \in {NoPin, client_config}, class \in {"plain", "secure"},
             to \in {"managed", "resolve"} :
               Make(class, config, to) /\ (to = "resolve" => config = client_config)
    BY <1>3 DEF BranchReconnect, BranchSsl, BranchPlain
  <2> QED BY <2>1 DEF Make, At, buildVars, parseVars, client_config
<1>4. CASE ConnectPhase \/ ConnectThrows \/ SessionSendThrows
  BY <1>4 DEF ConnectPhase, ConnectThrows, SessionSendThrows, Phases, Throws, Move, At,
              buildVars, clientVars, parseVars, client_config
<1>5. CASE SessionLoop \/ SessionInput \/ SessionSend \/ SpinReceive
  BY <1>5 DEF SessionLoop, SessionInput, SessionSend, SpinReceive, Move, At,
              buildVars, clientVars, parseVars, client_config
<1>6. CASE Connected \/ CloseFlag \/ CloseStream
  BY <1>6 DEF Connected, CloseFlag, CloseStream, At, buildVars, parseVars, client_config
<1>7. CASE ReceiverPin
  <2>1. /\ rx = "start" /\ pc' = pc /\ config_' = config_ /\ args' = args
        /\ hardware_concurrency' = hardware_concurrency
    BY <1>7 DEF ReceiverPin, Rx, buildVars, parseVars
  <2>2. pinned' \in IF config_.pin THEN {Core(config_), Refused} ELSE {NotPinned}
    BY <1>7 DEF ReceiverPin, pin_thread_to_core, NotPinned
  <2> QED BY <2>1, <2>2 DEF client_config
<1>8. CASE \/ ReceiverLoop \/ ReceiverEngine \/ ReceiverRead \/ ReceiverThrows
           \/ ReceiverReadFails \/ ReceiverEnds
  BY <1>8 DEF ReceiverLoop, ReceiverEngine, ReceiverRead, ReceiverThrows, ReceiverReadFails,
              ReceiverEnds, Rx, buildVars, parseVars, client_config
<1>9. CASE Drop \/ GoesSilent
  BY <1>9 DEF Drop, GoesSilent, Network, buildVars, parseVars, client_config
<1> QED
  BY <1>1, <1>2, <1>3, <1>4, <1>5, <1>6, <1>7, <1>8, <1>9 DEF Next, main, receive_loop

\* Every step keeps ClosedIsSaid, which is inductive.
LEMMA ClosedIsSaidNext == ASSUME ClosedIsSaid, [Next]_vars PROVE ClosedIsSaid'
<1> USE DEF ClosedIsSaid
<1>1. CASE UNCHANGED <<pc, clientVars>>
  BY <1>1 DEF clientVars
<1>2. CASE ParseArgs \/ Help \/ BranchReconnect \/ BranchSsl \/ BranchNoSsl \/ BranchPlain
  BY <1>2 DEF ParseArgs, Help, End, BranchReconnect, BranchSsl, BranchNoSsl, BranchPlain, Make,
              At, clientVars
<1>3. CASE ConnectPhase \/ ConnectThrows \/ Connected
  BY <1>3 DEF ConnectPhase, ConnectThrows, Throws, Move, At, Connected, clientVars, Phases
<1>4. CASE SessionLoop \/ SessionInput \/ SessionSend \/ SessionSendThrows \/ SpinReceive
  BY <1>4 DEF SessionLoop, SessionInput, SessionSend, SessionSendThrows, SpinReceive, Throws,
              Move, At, clientVars
<1>5. CASE CloseFlag \/ CloseStream \/ Returns
  BY <1>5 DEF CloseFlag, CloseStream, Returns, End, At, clientVars
<1>6. CASE receive_loop
  BY <1>6 DEF receive_loop, ReceiverPin, ReceiverLoop, ReceiverEngine, ReceiverRead,
              ReceiverThrows, ReceiverReadFails, ReceiverEnds, Rx
<1>7. CASE EngineRace \/ Drop \/ GoesSilent
  BY <1>7 DEF EngineRace, End, Drop, GoesSilent, Network, clientVars
<1> QED BY <1>1, <1>2, <1>3, <1>4, <1>5, <1>6, <1>7 DEF Next, main, vars

-----------------------------------------------------------------------------
(* The theorems *)

\* The invariant holds in every reachable state of main() and its client.
THEOREM Invariance == Spec => []IInv
<1>1. Init => IInv
  BY IInvInit
<1>2. IInv /\ [Next]_vars => IInv'
  BY ParseInvNext, ConfiguredNext, ClosedIsSaidNext DEF IInv
<1> QED BY <1>1, <1>2, PTL DEF Spec

\* For every well-formed command line without a "--port 80" in front of a "--ssl", what
\* the loop of parse_args collects one argument at a time is what the help text says of
\* the line as a whole.
THEOREM OptionsMeanWhatTheySay == Spec => []OptionsAsDocumented
<1>1. IInv => OptionsAsDocumented
  BY AllPassed DEF IInv
<1> QED BY <1>1, Invariance, PTL

\* Without --reconnect, the thread of receive_loop is pinned exactly if --pin is given, to
\* the core of the command line or, if there is none, to the last of the machine, or else
\* the system has refused this core.
THEOREM PinningIsAsked == Spec => []PinnedAsAsked
<1>1. IInv => PinnedAsAsked
  <2> SUFFICES ASSUME IInv, rx \notin {"none", "start"} PROVE PinnedAsAsked
    BY DEF PinnedAsAsked
  <2>1. config_ = client_config
    BY DEF IInv, Configured
  <2>2. /\ args.pin_core \in Int
        /\ ~args.pin_thread => pinned = NotPinned
        /\ args.pin_thread => pinned \in {Core(client_config), Refused}
    BY <2>1 DEF IInv, Configured, client_config, ParseInv, ParseTypes, ArgTypes
  <2>3. /\ get_cpu_count - 1 \in MachineCores
        /\ \A c \in MachineCores : c <= get_cpu_count - 1
    BY DEF IInv, Configured, get_cpu_count, MachineCores
  <2>4. Core(client_config) = IF args.pin_core < 0 THEN get_cpu_count - 1 ELSE args.pin_core
    BY DEF Core, client_config
  <2> QED BY <2>2, <2>3, <2>4 DEF PinnedAsAsked
<1> QED BY <1>1, Invariance, PTL

\* A session on a closed stream, or without a receiver, is not left with a running_ that
\* nobody will clear: receive_loop is at its last statement, or has executed it.
THEOREM ClosingIsSaid == Spec => []ClosedIsSaid
<1>1. IInv => ClosedIsSaid
  BY DEF IInv
<1> QED BY <1>1, Invariance, PTL

-----------------------------------------------------------------------------
(* The class and the configuration of the client *)

\* A client without TLS is made with --reconnect or without --ssl only, one without the
\* pinning of the arguments with --reconnect only, and there is no client before the
\* arguments are parsed.
ClassChosen ==
  /\ pc \in {"args", "branch"} => client = "none"
  /\ client \in {"none", "secure"} \/ args.auto_reconnect \/ ~args.use_ssl
  /\ client = "none" \/ args.auto_reconnect \/ config_ = client_config

\* The finding of the run reconnect_options is the only one of its kind: without
\* --reconnect, main() makes the client that --ssl and --pin ask for.
THEOREM AsAskedWithoutReconnect == Spec => [](~args.auto_reconnect => ClientAsAsked)
<1>1. Init => ClassChosen
  BY DEF Init, ClassChosen
<1>2. ClassChosen /\ [Next]_vars => ClassChosen'
  <2> SUFFICES ASSUME ClassChosen, [Next]_vars PROVE ClassChosen'
    OBVIOUS
  <2> USE DEF ClassChosen, client_config
  <2>1. CASE ParseArgs
    BY <2>1 DEF ParseArgs, At, clientVars
  <2>2. CASE BranchReconnect \/ BranchSsl \/ BranchPlain
    BY <2>2 DEF BranchReconnect, BranchSsl, BranchPlain, Make, At, parseVars
  <2>3. CASE Help \/ BranchNoSsl \/ Returns \/ EngineRace \/ UNCHANGED vars
    BY <2>3 DEF Help, BranchNoSsl, Returns, EngineRace, End, clientVars, parseVars, vars
  <2>4. CASE ConnectPhase \/ ConnectThrows \/ SessionSendThrows
    BY <2>4 DEF ConnectPhase, ConnectThrows, SessionSendThrows, Throws, Move, At, clientVars,
                parseVars
  <2>5. CASE SessionLoop \/ SessionInput \/ SessionSend \/ SpinReceive
    BY <2>5 DEF SessionLoop, SessionInput, SessionSend, SpinReceive, Move, At, clientVars,
                parseVars
  <2>6. CASE Connected \/ CloseFlag \/ CloseStream
    BY <2>6 DEF Connected, CloseFlag, CloseStream, At, parseVars
  <2>7. CASE receive_loop
    BY <2>7 DEF receive_loop, ReceiverPin, ReceiverLoop, ReceiverEngine, ReceiverRead,
                ReceiverThrows, ReceiverReadFails, ReceiverEnds, Rx, parseVars
  <2>8. CASE Drop \/ GoesSilent
    BY <2>8 DEF Drop, GoesSilent, Network, parseVars
  <2> QED BY <2>1, <2>2, <2>3, <2>4, <2>5, <2>6, <2>7, <2>8 DEF Next, main
<1>3. ClassChosen => (~args.auto_reconnect => ClientAsAsked)
  BY DEF ClassChosen, ClientAsAsked
<1> QED BY <1>1, <1>2, <1>3, PTL DEF Spec

-----------------------------------------------------------------------------
(* close() and the receiver that it joins *)

RxPcs == {"none", "start", "loop", "engine", "recv", "ending", "done"}

\* How many steps the receiver is from its end once close() has cleared running_ and
\* closed the stream.
Left(place) == CASE place \in {"none", "done"} -> 0
                 [] place = "ending" -> 1
                 [] place \in {"loop", "recv"} -> 2
                 [] place \in {"start", "engine"} -> 3

\* While main is in join(), a receiver that waits for the socket waits in vain: the
\* stream is closed, so that its read fails.  No other place of the receiver waits.
ReadReturns == pc = "join" /\ rx = "recv" => conn = "closed"

\* While main is in join(), the receiver takes no step that does not bring it nearer to
\* its end: it neither starts nor goes round its loop again.
JoinAdvances == [][pc = "join" /\ rx' # rx => Left(rx') < Left(rx)]_vars

\* running_ stays cleared and the stream stays closed.
Closing ==
  /\ rx \in RxPcs
  /\ conn = "none" => rx = "none"
  /\ pc \in {"args", "branch", "managed"} \cup Phases => conn = "none"
  /\ pc \in {"close_ws", "join"} => ~running_
  /\ pc = "join" => conn \in {"none", "closed"}

\* Every step keeps it.
LEMMA ClosingNext == ASSUME Closing, [Next]_vars PROVE Closing'
<1> USE DEF Closing, Phases, RxPcs
<1>1. CASE ParseArgs \/ Help \/ BranchReconnect \/ BranchSsl \/ BranchNoSsl \/ BranchPlain
  BY <1>1 DEF ParseArgs, Help, End, BranchReconnect, BranchSsl, BranchNoSsl, BranchPlain, Make,
              At, clientVars
<1>2. CASE ConnectPhase \/ ConnectThrows \/ Connected
  BY <1>2 DEF ConnectPhase, ConnectThrows, Throws, Move, At, Connected, clientVars
<1>3. CASE SessionLoop \/ SessionInput \/ SessionSend \/ SessionSendThrows \/ SpinReceive
  BY <1>3 DEF SessionLoop, SessionInput, SessionSend, SessionSendThrows, SpinReceive, Throws,
              Move, At, clientVars
<1>4. CASE CloseFlag \/ CloseStream
  BY <1>4 DEF CloseFlag, CloseStream, At
<1>5. CASE receive_loop
  BY <1>5 DEF receive_loop, ReceiverPin, ReceiverLoop, ReceiverEngine, ReceiverRead,
              ReceiverThrows, ReceiverReadFails, ReceiverEnds, Rx
<1>6. CASE Returns \/ EngineRace \/ Drop \/ GoesSilent \/ UNCHANGED vars
  BY <1>6 DEF Returns, EngineRace, End, Drop, GoesSilent, Network, clientVars, vars
<1> QED BY <1>1, <1>2, <1>3, <1>4, <1>5, <1>6 DEF Next, main

\* It holds from the start.
LEMMA ClosingInvariance == Spec => []Closing
<1>1. Init => Closing
  BY DEF Init, Closing, RxPcs
<1> QED BY <1>1, ClosingNext, PTL DEF Spec

\* close() of either client never waits for a receiver that waits: when it joins the
\* thread of receive_loop(), the stream that this thread may be reading from is closed.
THEOREM JoinIsNotBlocked == Spec => []ReadReturns
<1>1. Closing => ReadReturns
  BY DEF Closing, ReadReturns
<1> QED BY <1>1, ClosingInvariance, PTL

\* And receive_loop() is then at most three steps from its end.
THEOREM ReceiverIsEnding == Spec => JoinAdvances
<1>1. Closing /\ [Next]_vars => [pc = "join" /\ rx' # rx => Left(rx') < Left(rx)]_vars
  <2> SUFFICES ASSUME Closing, Next, pc = "join", rx' # rx
               PROVE  Left(rx') < Left(rx)
    OBVIOUS
  <2>1. receive_loop
    BY DEF Next, main, ParseArgs, Help, BranchReconnect, BranchSsl, BranchNoSsl, BranchPlain,
           Make, ConnectPhase, ConnectThrows, Throws, Move, Connected, SessionLoop, SessionInput,
           SessionSend, SessionSendThrows, SpinReceive, CloseFlag, CloseStream, Returns, End, At,
           EngineRace, Drop, GoesSilent, Network, clientVars
  <2>2. ~running_ /\ (rx = "recv" => conn = "closed")
    BY DEF Closing
  <2>3. \/ rx = "start" /\ rx' = "loop"
        \/ rx = "loop" /\ rx' = "ending"
        \/ rx = "engine" /\ rx' = "recv"
        \/ rx = "recv" /\ rx' = "ending"
        \/ rx = "ending" /\ rx' = "done"
    BY <2>1, <2>2 DEF receive_loop, ReceiverPin, ReceiverLoop, ReceiverEngine, ReceiverRead,
         ReceiverThrows, ReceiverReadFails, ReceiverEnds, Rx
  <2> QED BY <2>3 DEF Left
<1> QED BY <1>1, ClosingInvariance, PTL DEF Spec, JoinAdvances
=============================================================================
