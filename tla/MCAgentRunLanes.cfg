SPECIFICATION FairLanesSpec
CONSTANTS
    Lanes <- MCLanes
    Main = "main"
    Cron = "cron"
    CronNested = "cron-nested"
    ProbeLanes = {}
    Entries <- MCEntries
    TimedEntries <- MCTimedEntries
    Waiters = {}
    Priorities <- MCPriorities
    Limits = {0, 1, 2}
    MaxGeneration = 1
    Runs <- MCRuns
    CronRuns <- CronJobs
    Environments <- MCEnvironments
    SessionOf <- MCSessionOf
    RunId <- MCRunId
    RequestedLane <- MCRequestedLane
    RunPriority <- MCRunPriority
    SessionLane <- MCSessionLane
    MaintenanceLane <- MCMaintenanceLane
    Workers <- MCWorkers
    MaxAttempts = 2
    Configs <- MCConfigs
    MaxReloads = 1
CHECK_DEADLOCK FALSE
INVARIANTS
    SessionExclusive
    MaintenanceFirst
    ClosedLaneHasTimer
PROPERTIES
    RetrySupersedes
    AllRunsAnswered
