\* One delivery of any kind, live and replayed by two loops, with failing store
\* calls and crashes; when it is settled nothing more can happen.
SPECIFICATION FairSpec
CONSTANTS
    Deliveries = {d1}
    Loops = {startup, reconnect}
    Startup = startup
    NoDelivery = NoDelivery
    Options <- AllOptions
    MaxUnits = 2
    MaxRetries = 2
    MaxCrashes = 2
    StoreMayFail = TRUE
INVARIANTS
    AtMostOnce
    EvidenceOnRow
    OneSenderPerDelivery
    HooksOnceAfterAck
    NoRequiredLoss
PROPERTIES
    EvidenceKept
    ImplementsOutbox
    ClaimsReleased
CHECK_DEADLOCK FALSE
