-------------------------- MODULE MCClientProgram --------------------------
(***************************************************************************)
(* ClientProgram for TLC: all lists of up to three arguments, and all      *)
(* well-formed command lines of up to four options.                        *)
(***************************************************************************)
EXTENDS ClientProgram, SequencesExt

\* Numbers that ask for the last core, for a core, and for one the machine does not have.
MCstoi == "-1" :> -1 @@ "3" :> 3 @@ "80" :> 80

Values == {"localhost"} \cup Numbers

OptionLines == {<<"--host", "localhost">>, <<"--port", "80">>, <<"--port", "3">>, <<"--pin">>,
                <<"--pin", "3">>, <<"--pin", "-1">>, <<"--reconnect">>, <<"--ssl">>}

AllCommandLines == BoundedSeq(Options \cup Values, 3)
                   \cup {FlattenSeq(c) : c \in BoundedSeq(OptionLines, 4)}

\* Lines with all of --ssl, --pin and --reconnect: what one state shows of one of the
\* options it shows of the others.
ReconnectCommandLines ==
  {FlattenSeq(c) : c \in SetToSeqs({<<"--ssl">>, <<"--pin", "3">>, <<"--reconnect">>})}
=============================================================================
