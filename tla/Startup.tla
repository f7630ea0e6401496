------------------------------- MODULE Startup -------------------------------
(***************************************************************************)
(* main() (server_main.cc) up to the construction of the server: the       *)
(* configuration file is parsed (ConfigParser), its statements are scanned *)
(* (ConfigStatements) and the acceptor is opened on the port found.        *)
(***************************************************************************)
EXTENDS ConfigParser, ConfigStatements

VARIABLES
    main,      \* where main() is
    endpoint,  \* the port the acceptor listens on
    thread_count_

startupVars == <<vars, main, endpoint, thread_count_>>

StartupInit ==
    /\ Init
    /\ main = "Parse"
    /\ endpoint = NoPort /\ thread_count_ = 0

\* NginxConfigParser::Parse(const char*): the file cannot be opened.
OpenFails ==
    /\ main = "Parse" /\ result = "running" /\ pos = 0
    /\ result' = "false"
    /\ UNCHANGED <<text, pos, ended, state, value, last_token_type, start_block,
                   config_stack, blocks, main, endpoint, thread_count_>>

Parsing ==
    /\ main = "Parse" /\ result = "running"
    /\ (\E c \in Char : ParseToken(c)) \/ EndOfFile
    /\ UNCHANGED <<main, endpoint, thread_count_>>

\* The port travels as a short, and the endpoint takes an unsigned short.
AsShort(n) == IF n % 65536 < 32768 THEN n % 65536 ELSE (n % 65536) - 65536
AsUnsignedShort(n) == n % 65536

\* BUG (mutant): the result of ParseStatements is not looked at either.
RunUnchecked ==
    /\ main = "Parse" /\ result # "running"
    /\ main' = "listening"
    /\ endpoint' = AsUnsignedShort(AsShort(ParseStatements(blocks[1]).port))
    /\ thread_count_' = ParseStatements(blocks[1]).threads
    /\ UNCHANGED vars

\* Parse has returned; what it returned is not looked at.
Run ==
    LET config == ParseStatements(blocks[1])
    IN /\ main = "Parse" /\ result # "running"
       /\ IF config.found_port
          THEN /\ main' = "listening"
               /\ endpoint' = AsUnsignedShort(AsShort(config.port))
               /\ thread_count_' = config.threads
          ELSE main' = "exited" /\ UNCHANGED <<endpoint, thread_count_>>
       /\ UNCHANGED vars

Started == main # "Parse" /\ UNCHANGED startupVars

StartupNext == OpenFails \/ Parsing \/ Run \/ Started

StartupSpec == StartupInit /\ [][StartupNext]_startupVars /\ WF_startupVars(StartupNext)

-----------------------------------------------------------------------------
\* The server never opens a port that was not initialised or that the file
\* does not state: the port listened on, after its way through a short, is the
\* number of a token of an outermost statement, even if Parse gave up on the file.
ListensOnStatedPort ==
    main = "listening" =>
        \E i \in DOMAIN blocks[1] : \E j \in DOMAIN blocks[1][i].tokens :
            LET t == blocks[1][i].tokens[j] IN ValidPort(t) /\ Numeral[t] = endpoint

TwoTokens(statements) == \A i \in DOMAIN statements : Len(statements[i].tokens) <= 2

\* In a file of statements of at most two tokens the first valid port is the
\* server's port and ParseStatements returns true exactly when there is one, and
\* the last root is the server's root (none for ".").  The last thread count is
\* the number of threads, or the default if it is 0, whatever was said before it,
\* and there is always a thread.  What becomes of a negative count is left open:
\* ParseStatements makes it unsigned first, and then it passes for greater than 0.
StatementsMean ==
    LET config == ParseStatements(blocks[1])
    IN (result # "running" /\ TwoTokens(blocks[1])) =>
          /\ config.port = FirstPort(blocks[1])
          /\ config.found_port <=> FirstPort(blocks[1]) # NoPort
          /\ config.root = LastRoot(blocks[1])
          /\ LastThreads(blocks[1]) >= 0 => config.threads = LastThreads(blocks[1])
          /\ config.threads > 0

\* Every file is finite, so main() decides: the tokenizer, which puts back the
\* character that ends a token, never reads the same character for ever.
Decides == <>(main # "Parse")
=============================================================================
