SPECIFICATION FairSpec
CONSTANTS
    Client = {c1, c2}
    PoolSize = 1
    Statements <- LocalPort
    Local <- LocalRoutes
    Uri <- TwoUris
    BodySize = 1
    AnyPort = {0, 80}
INVARIANTS
    BodyIsWhatOriginSent
    EchoOnlyIfRedirected
PROPERTY EveryRequestAnswered
