--------------------------- MODULE ConfigRoundTrip ---------------------------
(***************************************************************************)
(* main() on a file; but instead of going on with a configuration that was *)
(* accepted, a test prints it with NginxConfig::ToString and parses it     *)
(* again (config_parser.cc).                                               *)
(***************************************************************************)
EXTENDS Startup

VARIABLE first  \* the blocks of the first parse, once ToString was called

NotYet == << >>

TestInit == StartupInit /\ first = NotYet

Main == StartupNext /\ UNCHANGED first

\* The configuration that was accepted is printed...
Printed ==
    /\ main = "Parse" /\ result = "true" /\ main' = "test"
    /\ first' = blocks
    /\ text' = NginxConfigToString(blocks) /\ pos' = 0 /\ ended' = TRUE
    /\ state' = "INITIAL" /\ value' = <<>>
    /\ last_token_type' = "START" /\ start_block' = 0
    /\ config_stack' = <<1>> /\ blocks' = << <<>> >>
    /\ result' = "running"
    /\ UNCHANGED <<endpoint, thread_count_>>

\* ...and parsed again.
Reparse ==
    /\ main = "test" /\ result = "running"
    /\ (\E c \in Char : ParseToken(c)) \/ EndOfFile
    /\ UNCHANGED <<main, endpoint, thread_count_, first>>

TestNext == Main \/ Printed \/ Reparse

testVars == <<startupVars, first>>

TestSpec == TestInit /\ [][TestNext]_testVars /\ WF_testVars(TestNext)

-----------------------------------------------------------------------------
\* Printing an accepted configuration with ToString and parsing it again gives
\* the same tree of statements, tokens and blocks: ToString keeps all that Parse
\* has kept, and prints no token (quoted, or with a "#" or a carriage return inside)
\* in a way that Parse reads differently.  Whether the tree is what the file was
\* meant to say is another question: a carriage return or a "#" that follows a word
\* directly belongs to the word, and a word at the end of the file is dropped.
RoundTrip == main = "test" /\ result # "running" => result = "true" /\ blocks = first

\* Both parses end: main() decides whatever the file, and what was printed is
\* read to its end, so that RoundTrip says something of each accepted file.
BothDecide == Decides /\ (main = "test" ~> result # "running")
=============================================================================
