---------------------------- MODULE MCStaticFile ----------------------------
(* All short URIs for one handler, and all short blocks for one URI. *)
EXTENDS StaticFile, SequencesExt

CONSTANTS MaxUri, MaxDirectories, MaxStatements

Chars == {"/", ".", "-", "a", "b", "s", "t", "srv", "root", "location"}

UpTo(n, S) == UNION {[1..k -> S] : k \in 0..n}

\* The location /s, and everything short that may follow it.
Uris == {<<"/", "s">> \o r : r \in UpTo(MaxUri, {"/", "a", "t", ".", "-"})}

\* A file, one with a type that is not known, and files above, below and beside.
Plain   == <<"a", ".", "t">>
Unknown == <<"a", ".", "a">>
Up      == <<".", ".", "/">>
Around  == {Up \o Plain, <<"s", "/">> \o Plain, <<"s", "/", "a", "/">> \o Plain,
            <<"s", "/">> \o Up \o Plain, <<"s", "/">> \o Up \o Up \o Plain}
Contents == Version \cup {Absent, Directory}

\* The location, directories and steps up, and the name of one of the files.
LongUris == {<<"/", "s">> \o FlattenSeq(d) \o <<"/">> \o n :
                d \in UpTo(MaxDirectories, {<<"/", ".", ".">>, <<"/", "a">>, <<"/", "s">>}),
                n \in {Plain, Unknown}}

\* A root as ParseStatements returns it ("." has become empty), with and without
\* a slash at its end or its beginning.
ServerRoots  == {<<>>, <<"srv">>, <<"srv", "/">>, <<"/", "srv">>, <<"/", "srv", "/">>}
HandlerRoots == {<<"a">>, <<"b">>, <<"/", "a">>, <<"a", "/", "b">>}

Statement == {<<RootWord, r>> : r \in HandlerRoots}
             \cup {<< <<"location">>, <<"/", "s">> >>, <<RootWord>>, <<RootWord, <<"a">>, <<"b">> >>}

In(dir, name) == Place(dir \o <<"/">> \o name)

Root == <<"srv", "/", "a">>

Case(r, s, u, f) == [root_path_ |-> r, statements |-> s, uri |-> u, fs |-> f]

TheCases ==
         {Case(<<"srv", "/">>, << <<RootWord, <<"a">> >> >>, u, f) : u \in Uris \cup LongUris,
             f \in {[p \in {In(Root, n) : n \in {Plain, Unknown} \cup Around} |->
                         IF p \in DOMAIN g THEN g[p] ELSE v] :
                       g \in [{In(Root, n) : n \in {Plain, Unknown}} -> Contents], v \in Version}}
    \cup {Case(r, s, <<"/", "s", "/">> \o Plain, [p \in D |-> v]) :
             r \in ServerRoots, s \in UpTo(MaxStatements, Statement), v \in Version,
             D \in {{In(r \o <<"/">> \o h, Plain) : r \in ServerRoots, h \in HandlerRoots \cup {<<>>}}}}

Types == [e \in {<<".", "t">>} |-> "text/plain"]
=============================================================================
