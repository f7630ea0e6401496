SPECIFICATION FairSpec
CONSTANTS
    Thread = {t1, t2}
    Session = {s1, s2}
    RequestSize = 1
    MaxLength = 1
    ResponseSizes <- TwoUnits
    SendBuffer = 1
    NoThread = NoThread
    NoOne = NoOne
INVARIANTS
    TypeOK
    NoUseAfterFree
    Ownership
    OneAcceptor
PROPERTIES
    ImplementsConnection
    Reclaimed
