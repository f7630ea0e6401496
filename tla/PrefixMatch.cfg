SPECIFICATION MatchSpec
CONSTANTS
    MaxUri = 3
    MaxLocation = 2
    MatchUri <- Uris
    MatchLocation <- Locations
INVARIANTS
    MatchTypeOK
    OrderIrrelevant
