---------------------------- MODULE CommandLine ----------------------------
(***************************************************************************)
(* parse_args of src/main.cpp: one action per branch of the loop over      *)
(* argv.  An argument is any string, and std::stoi is any function from    *)
(* strings to numbers: those that it is not defined for are the ones that  *)
(* it refuses.                                                             *)
(***************************************************************************)
EXTENDS Integers, Sequences

CONSTANTS CommandLines,  \* the command lines that are tried, without argv[0]
          stoi           \* std::stoi

Options == {"--host", "--port", "--pin", "--reconnect", "--ssl", "--help"}   \* -h is --help
Numbers == DOMAIN stoi

ASSUME CommandLinesAssumption == \A c \in CommandLines : c \in Seq(STRING)
ASSUME StoiAssumption == stoi \in [Numbers -> Int] /\ Numbers \cap Options = {}

VARIABLES argv, i, args,
          parsing   \* parse_args is running

parseVars == <<argv, i, args, parsing>>

kDefaultHost == "echo.websocket.events"

CliArgs == [host |-> kDefaultHost, port |-> "80", pin_thread |-> FALSE, pin_core |-> -1,
            auto_reconnect |-> FALSE, use_ssl |-> FALSE]

ParseInit == argv \in CommandLines /\ i = 1 /\ args = CliArgs /\ parsing = TRUE

\* The loop goes on behind n arguments, with a.
Parsed(a, n) == args' = a /\ i' = i + n /\ UNCHANGED <<argv, parsing>>

Arg == parsing /\ i <= Len(argv)
HasNext == i < Len(argv)

ParseHost == /\ Arg /\ argv[i] = "--host" /\ HasNext
             /\ Parsed([args EXCEPT !.host = argv[i + 1]], 2)

ParsePort == /\ Arg /\ argv[i] = "--port" /\ HasNext
             /\ Parsed([args EXCEPT !.port = argv[i + 1]], 2)

\* The core is optional: what std::stoi refuses is the next argument.
ParsePin == /\ Arg /\ argv[i] = "--pin"
            /\ IF HasNext /\ argv[i + 1] \in Numbers
               THEN Parsed([args EXCEPT !.pin_thread = TRUE, !.pin_core = stoi[argv[i + 1]]], 2)
               ELSE Parsed([args EXCEPT !.pin_thread = TRUE], 1)

ParseReconnect == /\ Arg /\ argv[i] = "--reconnect"
                  /\ Parsed([args EXCEPT !.auto_reconnect = TRUE], 1)

\* Mutant: the port is replaced whatever it is.
ParseSslAlways == /\ Arg /\ argv[i] = "--ssl"
                  /\ Parsed([args EXCEPT !.use_ssl = TRUE, !.port = "443"], 1)

ParseSsl == /\ Arg /\ argv[i] = "--ssl"
            /\ Parsed([args EXCEPT !.use_ssl = TRUE, !.port = IF @ = "80" THEN "443" ELSE @], 1)

\* Anything else: "HOST PORT" in front, or ignored.  A last --host or --port without
\* its value comes here too.
ParsePositional ==
  /\ Arg /\ argv[i] \notin Options \ (IF HasNext THEN {} ELSE {"--host", "--port"})
  /\ Parsed([args EXCEPT
               !.host = IF i = 1 /\ @ = kDefaultHost THEN argv[i] ELSE @,
               !.port = IF i = 2 /\ @ = "80" THEN argv[i] ELSE @], 1)

AskedForHelp == Arg /\ argv[i] = "--help"

\* parse_args returns.  What is in argv does not matter any more.
ParseReturns == /\ parsing /\ i > Len(argv)
                /\ parsing' = FALSE /\ argv' = << >> /\ i' = 1 /\ UNCHANGED args

parse_args == \/ ParseHost \/ ParsePort \/ ParsePin \/ ParseReconnect \/ ParseSsl
              \/ ParsePositional \/ ParseReturns

-----------------------------------------------------------------------------
(* The options as they are documented *)

Given(o) == {k \in DOMAIN argv : argv[k] = o}
IsValue(k) == k \in DOMAIN argv /\ argv[k] \notin Options

\* Every option that needs a value has one, and there are no other values.
WellFormed ==
  /\ \A k \in Given("--host") \cup Given("--port") : IsValue(k + 1)
  /\ \A k \in DOMAIN argv : IsValue(k) =>
       /\ k > 1
       /\ \/ argv[k - 1] \in {"--host", "--port"}
          \/ argv[k - 1] = "--pin" /\ argv[k] \in Numbers

\* The value after the last of the options at the positions K.
ValueOfLast(K) == argv[(CHOOSE k \in K : \A j \in K : j <= k) + 1]
LastValue(K, d) == IF K = {} THEN d ELSE ValueOfLast(K)

Cores == {k \in Given("--pin") : IsValue(k + 1)}

Documented ==
  [host |-> LastValue(Given("--host"), kDefaultHost),
   port |-> LastValue(Given("--port"), IF Given("--ssl") = {} THEN "80" ELSE "443"),
   pin_thread |-> Given("--pin") # {},
   pin_core |-> IF Cores = {} THEN -1 ELSE stoi[ValueOfLast(Cores)],
   auto_reconnect |-> Given("--reconnect") # {},
   use_ssl |-> Given("--ssl") # {}]

\* "--port 80" is not told apart from the default by a "--ssl" behind it.
Port80BeforeSsl == \E j \in Given("--port"), k \in Given("--ssl") : j < k /\ argv[j + 1] = "80"

\* On a well-formed line the options mean what the help says, in any order and number
\* ("Server port (default: 80, 443 with --ssl)"), with the one exception above: what
\* the loop has collected one by one is what the whole line says.
OptionsAsDocumented ==
  parsing /\ i = Len(argv) + 1 /\ WellFormed /\ ~Port80BeforeSsl => args = Documented
=============================================================================
