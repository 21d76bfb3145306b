SPECIFICATION Spec
CONSTANTS
    MaxCalls = 2
    Offers <- MCOffers
    KindOf <- MCKinds
    Supported <- MCSupported
    MaxRedirects = 2
    MaxStarts = 2
    MaxStops = 1
INVARIANTS
    TypeOK
    NoOrphanTimer
    Watched
    ResultIsOwn
    EndsOnce
    PendingHasPath
    ReportedOnce
    HasTransport
PROPERTIES
    NothingLost
    StopSettles
    CallsSettle
\* A client that is not started again and gets nothing more has come to rest.
CHECK_DEADLOCK FALSE
