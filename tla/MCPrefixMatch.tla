--------------------------- MODULE MCPrefixMatch ---------------------------
EXTENDS PrefixMatch

CONSTANTS MaxUri,      \* longest URI enumerated
          MaxLocation  \* longest location enumerated

Strings(m, n) == UNION {[1..k -> {1, 2}] : k \in m..n}

Uris == Strings(0, MaxUri)

\* A configuration cannot hold an empty token.
Locations == Strings(1, MaxLocation)
=============================================================================
