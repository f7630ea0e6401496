--------------------------- MODULE MCReverseProxy ---------------------------
EXTENDS ReverseProxy

U == <<"/", "u">>
W == <<"/", "w">>
E == <<"/", "e">>

S(k, v) == [key |-> k, value |-> v]

\* As in conf/local_port, and a second root for the first location.
LocalPort == << S("port", 80), S("location", U), S("root", "ucla"),
                S("location", W), S("root", "wikipedia"), S("location", U), S("root", "other") >>

LocalRoutes == {E, <<>>}

\* Requests below a location, to another handler and to no handler.
GoodUris == {U, W \o <<"/", "x">>, E}

\* The first location is a prefix of a longer first segment.
AllUris == GoodUris \cup {U \o <<"x">>}

\* One request that needs an origin and one that does not.
TwoUris == {W \o <<"/", "x">>, E}
=============================================================================
