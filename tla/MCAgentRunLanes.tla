--------------------------- MODULE MCAgentRunLanes ---------------------------
(* Four runs of one session, two of them retries of another, and two       *)
(* queued cron jobs, each with an agent run in a session of its own.       *)
EXTENDS AgentRunLanes

CronJobs == {"j1", "j2"}
MCRuns == {"r1", "r2", "r3", "r4"} \cup CronJobs
MCSessionOf == [r \in MCRuns |->
                  CASE r = "j1" -> "B" [] r = "j2" -> "C" [] OTHER -> "A"]
MCRunId == [r \in MCRuns |-> IF r \in {"r2", "r4"} THEN "r1" ELSE r]
MCRequestedLane == [r \in MCRuns |-> IF r \in CronJobs THEN "cron" ELSE "main"]
MCRunPriority == [r \in MCRuns |-> IF r \in {"r1", "r2", "r4"} THEN 1 ELSE -1]
MCPriorities == -1 .. 1
MCSessionLane == [s \in {"A", "B", "C"} |->
                    CASE s = "A" -> "session:A" [] s = "B" -> "session:B"
                      [] OTHER -> "session:C"]
MCMaintenanceLane == [s \in {"A", "B", "C"} |-> "upkeep"]
MCLanes == {"main", "cron", "cron-nested", "session:A", "session:B",
            "session:C", "upkeep"}
MCTimedEntries == {<<r, "global">> : r \in MCRuns}
MCWorkers == {"A"} \X {"m1", "m2", "m3", "m4"}
MCEntries == MCTimedEntries \cup {<<r, "session">> : r \in MCRuns}
               \cup {<<r, "cron">> : r \in CronJobs} \cup MCWorkers
One == [agent |-> 1, cron |-> 1]
Two == [agent |-> 2, cron |-> 1]
MCConfigs == {One, Two}

\* Each environment has the events of one family of hazards.
Environment(calls, events, cfg) == [calls |-> calls, events |-> events, cfg |-> cfg]

MCEnvironments ==
    {Environment([r1 |-> {"hang", "maintain"}, r3 |-> {"maintain", "abort"}], {}, One),
     Environment([r1 |-> {"maintain"}, r3 |-> {"hang"}], {"restart", "recover"}, Two),
     Environment([r1 |-> {"hang"}, r2 |-> {"forget"}, r3 |-> {"suspend"}],
                 {"restart"}, One),
     Environment([r1 |-> {}, r2 |-> {"forget"}, r4 |-> {}], {"restart", "sweep"}, One),
     Environment([r1 |-> {"suspend"}, r3 |-> {"suspend", "hang"}], {"reload"}, One),
     Environment([r1 |-> {"abort", "hang"}, r3 |-> {"abort", "hang", "release"}],
                 {"clear"}, Two),
     Environment([j1 |-> {"hang", "suspend", "forget"}, j2 |-> {"giveUp", "hang"}],
                 {"restart"}, One)}
=============================================================================
