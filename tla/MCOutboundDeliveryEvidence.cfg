\* Adapters that mark the dispatch of each platform send.
SPECIFICATION Spec
CONSTANTS
    Deliveries = {d1}
    Loops = {startup, reconnect}
    Startup = startup
    NoDelivery = NoDelivery
    Options <- DispatchingOptions
    MaxUnits = 2
    MaxRetries = 2
    MaxCrashes = 1
    StoreMayFail = FALSE
PROPERTIES
    EvidenceAlwaysKept
CHECK_DEADLOCK FALSE
