SPECIFICATION FairSpec
CONSTANTS
    BYTE = 4
    WORD = 4
    INT = 3
    ADDRESS = 2
    SALT = 2
    NULL = NULL
    OrderArgs <- MCOrderArgs
    Quotes <- MCQuotes
    Own <- MCOwn
    Tolerance = 1
    MaxTime = 2
    MaxKeys = 2
    MaxAsked = 2
    MaxMarkets = 3
    PageSize = 2
INVARIANTS
    SignedAsSent
    OnlyIssued
    PlacedOnce
    SignedAsAsked
    PlacedAsSigned
    AmountsBounded
    ReadsAll
PROPERTY
    CallEnds
