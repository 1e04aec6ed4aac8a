\* Two agents that a failing call can part, one agent with all kinds of wakes,
\* and runners of one agent that are changed and replaced, with heartbeats
\* that are disabled and enabled.
SPECIFICATION RunnerSpec
CONSTANTS
    a1 = a1
    Targets = {a1, a2, Everyone}
    Intents = {"immediate", "event", "scheduled"}
    Delays = {0}
    CoalesceMs = 0
    RetryMs = 1
    NoTimer = NoTimer
    MaxRegistrations = 2
    MaxThrows = 1
    Agents = {a1, a2}
    Everyone = Everyone
    Interval = 2
    Phase <- AlignedPhase
    MinSpacing = 2
    FloodWindow = 1
    FloodThreshold = 2
    Never = Never
    MaxRequests = 2
    MaxToggles = 1
    MaxReloads = 1
CONSTRAINT Covered
INVARIANTS
    TickerAlive
PROPERTIES
    SpacingHeldInOrder
    FloodHeld
