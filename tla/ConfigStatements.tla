-------------------------- MODULE ConfigStatements --------------------------
(***************************************************************************)
(* NginxConfig::ParseStatements (config_parser.cc): the port, the root and *)
(* the number of threads are taken from the statements of the outermost    *)
(* block.  A token is a sequence of characters, as in ConfigParser; a      *)
(* keyword or a number is one member of Char.                              *)
(***************************************************************************)
EXTENDS Integers, Sequences

CONSTANTS Numeral,     \* the tokens std::stoi accepts, with their values
          UIntModulus  \* 2^32: unsigned int arithmetic is modulo this

MAX_PORT       == 65535
DefaultThreads == 10

\* An int is half as large as an unsigned int, and signed.
ASSUME NumeralAssumption == \A t \in DOMAIN Numeral :
    Numeral[t] \in Int /\ -UIntModulus <= 2 * Numeral[t] /\ 2 * Numeral[t] < UIntModulus
ASSUME UIntAssumption    == UIntModulus \in Nat /\ UIntModulus > DefaultThreads

PortWord    == <<"port">>
RootWord    == <<"root">>
ThreadsWord == <<"threadCount">>
Dot         == <<".">>

\* port_ is not initialised.
NoPort == 0

ValidPort(token) == token \in DOMAIN Numeral /\ Numeral[token] \in 1..MAX_PORT

\* One iteration of the loop over a statement's tokens.  A token that is no
\* valid argument is skipped with continue, so prev_token keeps the keyword.
ScanToken(acc, token) ==
    CASE acc.prev_token = PortWord /\ ~acc.found_port ->
           IF ValidPort(token)
           THEN [acc EXCEPT !.port = Numeral[token], !.found_port = TRUE, !.prev_token = token]
           ELSE acc
      [] acc.prev_token = RootWord ->
           [acc EXCEPT !.root = IF token = Dot THEN <<>> ELSE token, !.prev_token = token]
      [] acc.prev_token = ThreadsWord ->
           IF token \notin DOMAIN Numeral THEN acc
           ELSE LET threads == Numeral[token] % UIntModulus
                IN IF threads > 0
                   THEN [acc EXCEPT !.threads = threads, !.prev_token = token]
                   ELSE [acc EXCEPT !.threads = DefaultThreads]
      [] OTHER -> [acc EXCEPT !.prev_token = token]

\* BUG (mutant): prev_token lives on from one statement to the next.
ParseStatementRunsOn(acc, statement) ==
    LET scan[i \in 0..Len(statement.tokens)] ==
          IF i = 0 THEN acc ELSE ScanToken(scan[i - 1], statement.tokens[i])
    IN scan[Len(statement.tokens)]

\* The inner loop, over the tokens of a statement.
ParseStatement(acc, statement) ==
    LET scan[i \in 0..Len(statement.tokens)] ==
          IF i = 0 THEN [acc EXCEPT !.prev_token = <<>>]
          ELSE ScanToken(scan[i - 1], statement.tokens[i])
    IN scan[Len(statement.tokens)]

Unparsed == [port |-> NoPort, found_port |-> FALSE, root |-> <<>>,
             threads |-> DefaultThreads, prev_token |-> <<>>]

\* The outer loop.  The fields GetPort, GetServerRoot and GetThreadCount return
\* afterwards, and in found_port the value ParseStatements returns.
ParseStatements(statements) ==
    LET scan[i \in 0..Len(statements)] ==
          IF i = 0 THEN Unparsed ELSE ParseStatement(scan[i - 1], statements[i])
    IN scan[Len(statements)]

-----------------------------------------------------------------------------
(* What the statements say, for statements of at most two tokens *)

\* The positions of the statements  word argument;  whose argument is in Valid.
Directives(statements, word, Valid(_)) ==
    {i \in DOMAIN statements :
        LET t == statements[i].tokens IN Len(t) = 2 /\ t[1] = word /\ Valid(t[2])}

Least(S)    == CHOOSE i \in S : \A j \in S : i <= j
Greatest(S) == CHOOSE i \in S : \A j \in S : i >= j

FirstPort(statements) ==
    LET P == Directives(statements, PortWord, ValidPort)
    IN IF P = {} THEN NoPort ELSE Numeral[statements[Least(P)].tokens[2]]

LastRoot(statements) ==
    LET P == Directives(statements, RootWord, LAMBDA t : TRUE)
        r == statements[Greatest(P)].tokens[2]
    IN IF P = {} \/ r = Dot THEN <<>> ELSE r

LastThreads(statements) ==
    LET P == Directives(statements, ThreadsWord, LAMBDA t : t \in DOMAIN Numeral)
        n == Numeral[statements[Greatest(P)].tokens[2]]
    IN IF P = {} \/ n = 0 THEN DefaultThreads ELSE n
=============================================================================
