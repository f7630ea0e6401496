---------------------------- MODULE PrefixMatch ----------------------------
(***************************************************************************)
(* The loop of router::longest_prefix_match (router.cc).  route_map_ is an *)
(* unordered_map: the order in which its locations are visited is          *)
(* unspecified and may differ between the two calls route_request makes.   *)
(* The loop looks at the keys of the map only.  A name that Router has too *)
(* has the prefix Match here.                                              *)
(***************************************************************************)
EXTENDS Routes

CONSTANTS MatchUri,      \* the URIs asked for
          MatchLocation  \* the locations a configuration may register

ASSUME StringAssumption ==
    /\ \A u \in MatchUri : u \in Seq(Nat)
    /\ \A l \in MatchLocation : l \in Seq(Nat)

VARIABLES
    uri,      \* the argument
    keys,     \* the keys of route_map_
    todo,     \* those the loop has not visited yet
    longest

matchVars == <<uri, keys, todo, longest>>

MatchInit ==
    /\ uri \in MatchUri
    /\ keys \in SUBSET MatchLocation
    /\ todo = keys
    /\ longest = <<>>

\* BUG (mutant): the last match is kept, not the longest.
visit_last(mapping) ==
    /\ mapping \in todo
    /\ todo' = todo \ {mapping}
    /\ longest' = IF Matches(mapping, uri) THEN mapping ELSE longest
    /\ UNCHANGED <<uri, keys>>

\* BUG (mutant): the URI is kept in place of the location that matches it.
visit_uri(mapping) ==
    /\ mapping \in todo
    /\ todo' = todo \ {mapping}
    /\ longest' = IF Matches(mapping, uri) /\ Len(mapping) > Len(longest)
                  THEN uri ELSE longest
    /\ UNCHANGED <<uri, keys>>

\* One iteration of the loop.
visit(mapping) ==
    /\ mapping \in todo
    /\ todo' = todo \ {mapping}
    /\ longest' = IF Matches(mapping, uri) /\ Len(mapping) > Len(longest)
                  THEN mapping ELSE longest
    /\ UNCHANGED <<uri, keys>>

MatchReturn == todo = {} /\ UNCHANGED matchVars

MatchNext == (\E mapping \in MatchLocation : visit(mapping)) \/ MatchReturn

MatchSpec == MatchInit /\ [][MatchNext]_matchVars

-----------------------------------------------------------------------------
\* The variables have their types.
MatchTypeOK ==
    /\ uri \in MatchUri /\ keys \subseteq MatchLocation /\ todo \subseteq keys
    /\ longest \in MatchLocation \cup {<<>>}

\* The loop invariant: longest is right for the locations visited so far.
LongestSoFar == IsLongest(longest, uri, keys \ todo)

\* Whatever the order of the unordered_map, longest_prefix_match returns the
\* one longest registered location that is a prefix of the URI.
OrderIrrelevant == todo = {} => longest = LongestMatch(uri, keys)
=============================================================================
