------------------------------- MODULE Request -------------------------------
(***************************************************************************)
(* request (request.cc): what the regular expressions of the parser make   *)
(* of the characters a session has read.  The dot of a regular expression  *)
(* matches no line end.                                                    *)
(***************************************************************************)
EXTENDS Bytes

CONSTANTS
    SmallString,  \* the longest text a std::string keeps within itself (15)
    Freed         \* the characters that freed memory may hold

ASSUME StringAssumption == SmallString \in Nat /\ Freed \subseteq Nat

-----------------------------------------------------------------------------
(* parse_status_line and parse_query_string.  r is the text that was read. *)

\* "^(\\w+) (.+) HTTP\\/(\\d\\.\\d)\\\r\\\n": the spaces that may end the URI.
UriEnds(r) ==
    {e \in 4..(Len(r) - 3) : /\ r[1] = METHOD /\ r[2] = SP
                             /\ SubSeq(r, e, e + 3) = <<SP, VERSION>> \o CRLF
                             /\ OneLine(SubSeq(r, 3, e - 1))}

\* parse_headers and parse_body do not fail, and parse_query_string neither.
is_valid(r) == UriEnds(r) # {}

RawUri(r) == SubSeq(r, 3, Highest(UriEnds(r)) - 1)

\* "^(.+)\\?(.*)$" on the URI: the last "?" that is not its first character.
QueryMark(uri) == {i \in 2..Len(uri) : uri[i] = Question}

\* "(.+?)=(.+?)(&*)", again and again: the shortest name, one character of the
\* value, and the ampersands that follow.  The result is the pairs in order.
Parameters(qs) ==
    LET from[s \in 1..(Len(qs) + 2)] ==
          LET equals == {e \in (s + 1)..(Len(qs) - 1) : qs[e] = Equals}
              e    == Lowest(equals)
              rest == {k \in (e + 2)..(Len(qs) + 1) : k > Len(qs) \/ qs[k] # Ampersand}
          IN IF equals = {} THEN <<>>
             ELSE << <<SubSeq(qs, s, e - 1), <<qs[e + 1]>> >> >> \o from[Lowest(rest)]
    IN from[1]

\* uri_ = m.str(1) comes before m.str(2), and m refers to the text of uri_.  A
\* short path is copied over the beginning of that text and the query is still
\* behind it.  A longer path brings its own memory: the text is freed, and what
\* is read for the query is the query or whatever another allocation put there.
QueryTexts(path, query) ==
    IF Len(path) <= SmallString THEN {query} ELSE {query} \cup [1..Len(query) -> Freed]

\* The URI split at its i-th character: the path, and the lists of parameters
\* that may be made of the rest.
SplitAt(uri, i) ==
    LET path  == SubSeq(uri, 1, i - 1)
        query == SubSeq(uri, i + 1, Len(uri))
    IN [uri |-> path, queries |-> {Parameters(t) : t \in QueryTexts(path, query)}]

\* BUG (mutant): the URI is split at its first "?".
parse_query_stringFirst(uri) ==
    IF QueryMark(uri) = {} THEN [uri |-> uri, queries |-> {<<>>}]
    ELSE SplitAt(uri, Lowest(QueryMark(uri)))

parse_query_string(uri) ==
    IF QueryMark(uri) = {} THEN [uri |-> uri, queries |-> {<<>>}]
    ELSE SplitAt(uri, Highest(QueryMark(uri)))

get_uri(r) == parse_query_string(RawUri(r)).uri

\* The values a call may return.  insert() keeps the first value of a name.
get_query_string_param(r, name) ==
    LET value(q) == LET found == {i \in DOMAIN q : q[i][1] = name}
                    IN IF found = {} THEN <<>> ELSE q[Lowest(found)][2]
    IN {value(q) : q \in parse_query_string(RawUri(r)).queries}

-----------------------------------------------------------------------------
(* parse_headers *)

\* The colons, each with a space, between the line feed at i and the carriage
\* return at j that leave characters for a name and for a value.
Colons(r, i, j) == {k \in (i + 2)..(j - 3) : r[k] = Colon /\ r[k + 1] = SP}

\* BUG (mutant): a line that is cut off is a header too.
HeaderLinesCut(r) ==
    {l \in (1..Len(r)) \X (1..(Len(r) + 1)) :
        /\ l[1] < l[2] /\ r[l[1]] = LF /\ (l[2] > Len(r) \/ r[l[2]] = CR)
        /\ OneLine(SubSeq(r, l[1] + 1, l[2] - 1))
        /\ Colons(r, l[1], l[2]) # {}}

\* "\\\n(.+)\\: (.+)\\\r": where the matches begin and end.
HeaderLines(r) ==
    {l \in (1..Len(r)) \X (1..Len(r)) :
        /\ l[1] < l[2] /\ r[l[1]] = LF /\ r[l[2]] = CR
        /\ OneLine(SubSeq(r, l[1] + 1, l[2] - 1))
        /\ Colons(r, l[1], l[2]) # {}}

\* The first group is greedy: the last colon of the line ends the name.
HeaderName(r, l)  == SubSeq(r, l[1] + 1, Highest(Colons(r, l[1], l[2])) - 1)
HeaderValue(r, l) == SubSeq(r, Highest(Colons(r, l[1], l[2])) + 2, l[2] - 1)

\* insert() keeps the first header of a name.
get_header(r, name) ==
    LET found == {l \in HeaderLines(r) : HeaderName(r, l) = name}
    IN IF found = {} THEN <<>>
       ELSE HeaderValue(r, CHOOSE l \in found : \A m \in found : l[1] <= m[1])

-----------------------------------------------------------------------------
(* parse_body *)

\* BUG (mutant): a body of one character is not found.
get_bodyShort(r) ==
    LET blank == {i \in 1..(Len(r) - 5) : /\ SubSeq(r, i, i + 3) = CRLF \o CRLF
                                          /\ OneLine(SubSeq(r, i + 4, Len(r)))}
    IN IF blank = {} THEN <<>> ELSE SubSeq(r, Lowest(blank) + 4, Len(r))

\* "\\\r\\\n\\\r\\\n(.+)$": only a last line can be the body.
get_body(r) ==
    LET blank == {i \in 1..(Len(r) - 4) : /\ SubSeq(r, i, i + 3) = CRLF \o CRLF
                                          /\ OneLine(SubSeq(r, i + 4, Len(r)))}
    IN IF blank = {} THEN <<>> ELSE SubSeq(r, Lowest(blank) + 4, Len(r))
=============================================================================
