\* One job whose command is changed.
SPECIFICATION Spec
CONSTANTS
    Jobs = {j1}
    Commands = {c1, c2}
    NoList = NoList
    MaxEdits = 2
    MaxFaults = 0
    MaxRestarts = 0
PROPERTIES
    CompletesOwnWatch
CHECK_DEADLOCK FALSE
