\* Two targets; the handler may be busy for ever, throw once, and be replaced
\* while its batch runs.
SPECIFICATION FairSpec
CONSTANTS
    Targets = {t1, t2}
    Intents = {"immediate"}
    Delays = {0, 1}
    CoalesceMs = 1
    RetryMs = 2
    NoTimer = NoTimer
    MaxRegistrations = 2
    MaxThrows = 1
INVARIANTS
    NoWakeLost
    PendingIsArmed
    OverlapsBounded
PROPERTIES
    WakesHandedOver
