SPECIFICATION FairSpec
CONSTANTS
    Worker = {w1, w2}
    Main = Main
    Nobody = Nobody
    Uri <- TheUris
    Code = {404}
    Config <- TheConfig
    MaxRequests = 3
INVARIANTS
    TypeOK
    NoCircularWait
    RoutesShown
    EachResponseRecordedOnce
    LogNamesHandler
    PageShowsCounted
PROPERTY EveryRequestReturns
