------------------------------- MODULE Routes -------------------------------
(* Which registered location serves a URI.  Locations and URIs are          *)
(* sequences of characters; <<>> is the empty string.                       *)
EXTENDS Naturals, Sequences

\* location is a prefix of uri, as router::longest_prefix_match compares them.
Matches(location, uri) ==
    /\ Len(location) <= Len(uri)
    /\ \A i \in 1..Len(location) : location[i] = uri[i]

\* r is the longest of the locations that match, or empty if none does.
IsLongest(r, uri, locations) ==
    /\ r \in locations \cup {<<>>}
    /\ Matches(r, uri)
    /\ \A l \in locations : Matches(l, uri) => Len(l) <= Len(r)

LongestMatch(uri, locations) == CHOOSE r \in locations \cup {<<>>} : IsLongest(r, uri, locations)
=============================================================================
