----------------------------- MODULE MCExchange -----------------------------
(* Requests with many headers, with many parameters and with many captions. *)
EXTENDS Exchange

CONSTANTS MaxHeaders, MaxParams, MaxCaption

UpTo(n, S) == UNION {[1..k -> S] : k \in 0..n}

Slash == 47
\* The last symbols are runs of letters.
Locations ==
    [h \in {"echo", "health", "status", "meme"} |->
        CASE h = "echo"   -> <<Slash, 501>>
          [] h = "health" -> <<Slash, 502>>
          [] h = "status" -> <<Slash, 503>>
          [] h = "meme"   -> <<Slash, 504>>]

Request(path, ps, hs, body, form) ==
    [path |-> path, params |-> ps, headers |-> hs, body |-> body, form |-> form]

\* Characters that make a parameter of another text, and of another length.
FreedChars == {Equals, Ampersand, 50}

\* Two names, a value in two parts, and a sleep; bodies with line ends and a NUL.
SomeHeaders == {<< <<97>>, <<118>> >>, << <<97>>, <<118, 119>> >>,
                << <<ThreadSleep>>, <<118>> >>}
Bodies == UpTo(2, {116, CR, LF, NUL}) \ {CRLF}

\* A name that contains another, values of one character, a path with a "?", and a
\* path longer than SmallString.
Queries == {<<112>>, <<113>>, <<112, 113>>} \X {<<49>>, <<50>>}
Paths == {<<Slash, 63, 116>>, <<Slash, 502>>, <<Slash, 502, Slash>>, <<Slash, 503>>, <<Slash, 502, Slash, 502>>}

\* A legal letter, the letter of a key, punctuation that the browser encodes or
\* leaves alone, and the space; and the bytes at the borders of the codec's ranges.
Typed   == UpTo(MaxCaption, {65, KeyT, 44, 32})
Borders == {0, 37, 43, 45, 46, 47, 48, 57, 58, 64, 65, 70, 71, 90, 91, 94, 95, 96,
            97, 102, 103, 122, 123, 125, 126, 127, 128, 255}
Captions == (Typed \X Typed) \cup {<< <<b>>, <<65>> >> : b \in Borders}

TheRequests ==
         {Request(Locations["echo"], <<>>, hs, b, <<>>) :
             hs \in UpTo(MaxHeaders, SomeHeaders), b \in Bodies}
    \cup {Request(p, ps, <<>>, <<>>, <<>>) : p \in {<<Slash, 63, 116>>}, ps \in UpTo(MaxParams, Queries)}
    \cup {Request(p, ps, <<>>, <<>>, <<>>) : p \in Paths, ps \in UpTo(1, Queries)}
    \cup {Request(Locations["meme"], <<>>, <<>>, Form(f[1], f[2]), f) : f \in Captions}
    \* A body that UriDecode refuses.
    \cup {Request(Locations["meme"], <<>>, <<>>, <<37, 122, 122>>, <<>>)}

\* None, as main leaves it; one more header; one the handlers set themselves; both.
TheHeaders == {<<>>, 305 :> <<306>>, ContentType :> <<306>>,
               305 :> <<306>> @@ ContentType :> <<306>>}

\* A NUL follows at once, or something before it.
TheHeap == {<<>>, <<120>>}
=============================================================================
