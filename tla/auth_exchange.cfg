SPECIFICATION FairSpec
CONSTANTS
    MaxRequests = 2
    Phase = 1
    Connect = 2
    Response = 2
    Total = 3
    OneShot = 4
    PendingTTL = 3
    MaxSkew = 6
    Skews <- EdgeSkews
    MaxAge = 8
    Word = 64
INVARIANTS
    TypeOK
    ApprovedWhatWasShown
    RetryIsSafe
    TimestampsTolerant
PROPERTIES
    ImplementsAuthorization
    CommandEnds
