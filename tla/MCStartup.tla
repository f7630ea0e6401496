----------------------------- MODULE MCStartup -----------------------------
(***************************************************************************)
(* main() on short files of arbitrary characters, on files of several      *)
(* statements and on nested blocks, each also cut off anywhere.            *)
(***************************************************************************)
EXTENDS ConfigRoundTrip, TLC

\* Keywords and numbers are single characters: see ConfigParser.
Numerals == (<<"-1">> :> -1) @@ (<<"0">> :> 0) @@ (<<"40000">> :> 40000)
            @@ (<<"65535">> :> 65535) @@ (<<"65536">> :> 65536)

AllChars == {"{", "}", ";", " ", "\n", "\r", "#", "\"", "'", "a", "port", "root",
             "threadCount", "-1", "0", "40000", "65535", "65536", "."}

\* Statements with their limits, a block, nested blocks, and tokens with white
\* space, quotes and comments next to each other.
Directive(w, V) == {<<w, " ", v, ";">> : v \in V}
Pieces == Directive("port", {"0", "40000", "65536"}) \cup Directive("root", {".", "a"})
          \cup Directive("threadCount", {"-1", "0", "40000"})
          \cup {<<"port", " ", "65535", "{">>, <<"}">>}
Nested == {<<"a", "{">>, <<"a", ";">>, <<"}">>}
Lumps  == {<<"a">>, <<"'", ";", "'">>, <<"\"", "\"">>, <<"#", "}", "\n">>, <<"\r">>, <<";">>, <<"{">>}

Concatenated(n, S) == {FlattenSeq(f) : f \in [1..n -> S]}

TheFiles == UNION {Prefixes(f) : f \in Concatenated(3, Pieces) \cup Concatenated(6, Nested)
                                        \cup Concatenated(4, Lumps)}
=============================================================================
