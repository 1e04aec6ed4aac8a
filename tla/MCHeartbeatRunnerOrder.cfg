\* Two agents whose runs outlive a call that fails.
SPECIFICATION RunnerSpec
CONSTANTS
    a1 = a1
    Targets = {a1, a2, Everyone}
    Intents = {"event", "scheduled"}
    Delays = {0}
    CoalesceMs = 0
    RetryMs = 1
    NoTimer = NoTimer
    MaxRegistrations = 1
    MaxThrows = 1
    Agents = {a1, a2}
    Everyone = Everyone
    Interval = 1
    Phase <- AlignedPhase
    MinSpacing = 2
    FloodWindow = 1
    FloodThreshold = 3
    Never = Never
    MaxRequests = 1
    MaxToggles = 0
    MaxReloads = 0
PROPERTIES
    SpacingHeld
