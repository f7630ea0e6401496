SPECIFICATION TestSpec
CONSTANTS
    Char <- AllChars
    MaxText = 3
    Files <- TheFiles
    Numeral <- Numerals
    UIntModulus = 1048576
INVARIANTS
    TypeOK
    StackIsOpenPath
    NoBlockLost
    StatementsMean
    ListensOnStatedPort
    RoundTrip
PROPERTY BothDecide
