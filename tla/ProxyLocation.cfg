SPECIFICATION Spec
CONSTANTS
    Client = {c1}
    PoolSize = 1
    Statements <- LocalPort
    Local <- LocalRoutes
    Uri <- AllUris
    BodySize = 1
    AnyPort = {0, 80}
INVARIANT ProxyExists
