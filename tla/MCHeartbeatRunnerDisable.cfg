\* Heartbeats are disabled and enabled again.
SPECIFICATION RunnerSpec
CONSTANTS
    a1 = a1
    Targets = {a1, Everyone}
    Intents = {"event", "scheduled"}
    Delays = {0}
    CoalesceMs = 0
    RetryMs = 1
    NoTimer = NoTimer
    MaxRegistrations = 1
    MaxThrows = 0
    Agents = {a1}
    Everyone = Everyone
    Interval = 2
    Phase <- AlignedPhase
    MinSpacing = 3
    FloodWindow = 2
    FloodThreshold = 2
    Never = Never
    MaxRequests = 0
    MaxToggles = 2
    MaxReloads = 0
INVARIANTS
    TickerAlive
