SPECIFICATION Spec
CONSTANTS
    Requests <- TheRequests
    Location <- Locations
    Headers <- TheHeaders
    Heap <- TheHeap
    SmallString = 3
    Freed <- FreedChars
    MaxHeaders = 2
    MaxParams = 3
    MaxCaption = 2
INVARIANTS
    ParsedIsSent
    PartAgreesWithWhole
    QueryRoundTrip
    CaptionsKept
    DecodeEncode
    ReadIsSet
