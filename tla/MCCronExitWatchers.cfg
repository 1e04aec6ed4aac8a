\* One job that is changed at any moment, with faults and restarts.
SPECIFICATION FairSpec
CONSTANTS
    Jobs = {j1}
    Commands = {c1, c2}
    NoList = NoList
    MaxEdits = 3
    MaxFaults = 1
    MaxRestarts = 1
INVARIANTS
    RunsOncePerRequest
    NoOrphanChild
    RunsOnlyAfterExit
PROPERTIES
    EnabledJobsWatched
CHECK_DEADLOCK FALSE
