---------------------------- MODULE AgentRunLanes ----------------------------
(***************************************************************************)
(* How agent runs use the command queue:                                   *)
(* src/src/agents/embedded-agent-runner/run.ts (admission),                *)
(* .../lanes.ts, .../context-engine-maintenance.ts,                        *)
(* src/src/agents/session-suspension.ts, src/src/gateway/server-lanes.ts,  *)
(* src/src/cron/service/ops.ts (enqueueRun) and the lifecycle generation   *)
(* of src/src/infra/agent-events.ts.                                       *)
(*                                                                         *)
(* A run is a command of its session's lane which, inside its task, waits  *)
(* for the session's deferred maintenance and then for a second command,   *)
(* in a global lane, whose task is the turn itself.  A queued cron job is  *)
(* a third command around both.  So commands hold slots of one lane while  *)
(* they wait for slots of another; only the innermost has a lane timeout.  *)
(*                                                                         *)
(* A task runs up to its first await in the handler that starts it, and    *)
(* any handler may start tasks of several runs (Drain).  What the tasks do *)
(* when they start is therefore a function of the entries that this step   *)
(* starts: the operator RunsFollow, a conjunct of every action.            *)
(***************************************************************************)
EXTENDS CommandQueue

CONSTANTS
    Runs,            \* the calls of runEmbeddedAgent
    CronRuns,        \* those made by a queued manual cron run
    SessionOf,       \* the session of each run
    RunId,           \* the run id of each run; a retry repeats it
    RequestedLane,   \* params.lane of each run
    RunPriority,     \* resolveEmbeddedRunSessionQueuePriority(trigger)
    Environments,    \* who calls, what may happen to each call and to the
                     \* gateway, and the configuration it starts with
    Cron,            \* CommandLane.Cron
    CronNested,      \* CommandLane.CronNested
    SessionLane,     \* resolveSessionLane of each session
    MaintenanceLane, \* resolveDeferredTurnMaintenanceLane of each session
    Workers,         \* [session, name] of every maintenance worker
    Configs,         \* [agent, cron]: the limits a configuration may have
    MaxAttempts,     \* bound: turns of a run that ask for maintenance
    MaxReloads       \* bound: configuration reloads

Sessions == {SessionOf[r] : r \in Runs}

\* What may happen to a run and to the gateway.  A model explores several
\* environments, each with some of the events, so that their interleavings
\* stay within reach.  A turn that may not hang ends before its lane timeout.
RunEvents == {"hang", "abort", "release", "maintain", "suspend", "giveUp", "forget"}
GatewayEvents == {"reload", "restart", "recover", "clear", "sweep"}

CronEntry(r) == <<r, "cron">>
SessionEntry(r) == <<r, "session">>
GlobalEntry(r) == <<r, "global">>

ASSUME LanesAssumption ==
    /\ CronRuns \subseteq Runs
    /\ Entries = {CronEntry(r) : r \in CronRuns}
                   \cup {SessionEntry(r) : r \in Runs}
                   \cup {GlobalEntry(r) : r \in Runs}
                   \cup Workers
    /\ TimedEntries = {GlobalEntry(r) : r \in Runs}
    /\ \A env \in Environments :
         /\ DOMAIN env.calls \subseteq Runs
         /\ \A r \in DOMAIN env.calls : env.calls[r] \subseteq RunEvents
         /\ env.events \subseteq GatewayEvents
         /\ env.cfg \in Configs
    /\ Configs \subseteq [agent : Nat \ {0}, cron : Nat \ {0}]
    \* The names of the lanes: "session:..." for a session, and what callers ask for
    /\ \A s \in Sessions : {SessionLane[s], MaintenanceLane[s]} \subseteq Lanes
    /\ \A s \in Sessions : SessionLane[s] \notin {Main, Cron, CronNested}
    /\ \A r \in Runs : RequestedLane[r] \in Lanes
    /\ {Cron, CronNested} \subseteq Lanes
    \* A worker is a command of its own.
    /\ Workers # {}
    /\ \A w \in Workers : w[1] \in Sessions
    /\ \A w \in Workers, r \in Runs :
         w \notin {CronEntry(r), SessionEntry(r), GlobalEntry(r)}
    \* The arguments with which the functions of the queue are called
    /\ {Normal} \cup {RunPriority[r] : r \in Runs} \subseteq Priorities
    /\ {0, 1} \cup UNION {{cfg.agent, cfg.cron} : cfg \in Configs} \subseteq Limits

VARIABLES
    run,            \* what each run knows
    lifecycle,      \* the lifecycle generation of the gateway process
    runContext,     \* runContextById and runContextOwnersById, by run id
    maintenance,    \* activeDeferredTurnMaintenanceRuns, by session
    config,         \* the configuration in force
    resumeTimer,    \* laneResumeTimers: the limit to restore, 0 for no timer
    reloads,        \* how often the configuration was reloaded
    environment     \* the member of Environments the gateway lives in

laneVars == <<run, lifecycle, runContext, maintenance, config, resumeTimer,
              reloads, environment>>
allVars == <<vars, laneVars>>

-----------------------------------------------------------------------------
(* Data.                                                                   *)

\* Where a run is.  "admitted": chat.send or its cron job has claimed the run
\* id.  "called": runEmbeddedAgent resolves the session.  "session": its
\* session command is queued.  "checkpoint": that command's task awaits the
\* session's maintenance.  "global": the inner command is queued.
\* "executing": the turn has begun.  "rejecting": the call or a task has
\* thrown and its promise is about to reject.
Phase == {"idle", "admitted", "called", "session", "checkpoint", "global", "executing",
          "rejecting"}

Run == [phase : Phase,
        lifecycleGeneration : Nat, queuedLifecycleGeneration : Nat,
        admittedIn : Nat,     \* the lifecycle whose server has it in flight
        chain : Nat,          \* the maintenance it awaits, 0 for none
        before : Nat,         \* history: requests for maintenance before it
        contextLost : BOOLEAN, \* history: its context was cleared or swept
        aborted : BOOLEAN,    \* params.abortSignal
        attempts : Nat,       \* how often it asked for maintenance
        suspending : {"no", "patching", "done"},
        cfg : Configs]        \* params.config

\* The context of a run id: the generation that owns it, 0 for no context, and
\* the cron runs whose owner token stands.  An isolated cron run owns its
\* context, so preserveAfterRelease is never set, and clearRequested never
\* matters.
Context == [generation : Nat, owners : SUBSET CronRuns]

Contexts == [{RunId[r] : r \in Runs} -> Context]

NoContext == [generation |-> 0, owners |-> {}]

\* A session's maintenance.  A rerun belongs to the chain of the promise that
\* awaits it, so chain counts the promises that waiters can hold.
Maintenance == [active : BOOLEAN, chain : Nat, worker : Workers,
                rerunRequested : BOOLEAN,
                requests : Nat]       \* history: requests so far

LanesTypeOK ==
    /\ TypeOK
    /\ run \in [Runs -> Run]
    /\ lifecycle \in Nat
    /\ runContext \in Contexts
    /\ maintenance \in [Sessions -> Maintenance]
    /\ config \in Configs
    /\ resumeTimer \in [Lanes -> Nat]
    /\ reloads \in Nat
    /\ environment \in Environments

BadResolveGlobalLane(r) == RequestedLane[r]

\* resolveGlobalLane: an agent turn of a cron job must not wait for a slot of
\* the lane whose slot the job holds.
ResolveGlobalLane(r) ==
    IF RequestedLane[r] = Cron THEN CronNested ELSE RequestedLane[r]

\* The limits that applyGatewayLaneConcurrency gives the lanes
AppliedLimits(cfg) ==
    [l \in Lanes |->
       IF l \in {Cron, CronNested} THEN cfg.cron
       ELSE IF l = Main THEN cfg.agent ELSE maxConcurrent[l]]

\* resolveLaneResumeConcurrency
ResolveLaneResumeConcurrency(cfg, l) ==
    IF l = Main THEN cfg.agent
    ELSE IF l \in {Cron, CronNested} THEN cfg.cron ELSE 1

LanesInit ==
    /\ environment \in Environments
    /\ config = environment.cfg
    /\ maxConcurrent = [l \in Lanes |-> ResolveLaneResumeConcurrency(config, l)]
    /\ run = [r \in Runs |->
         [phase |-> "idle", lifecycleGeneration |-> 0,
          queuedLifecycleGeneration |-> 0, admittedIn |-> 0, chain |-> 0, before |-> 0,
          contextLost |-> FALSE, aborted |-> FALSE, attempts |-> 0, suspending |-> "no",
          cfg |-> config]]
    /\ entry = [e \in Entries |-> Fresh]
    /\ queue = [l \in Lanes |-> <<>>]
    /\ activeTaskIds = [l \in Lanes |-> {}]
    /\ generation = [l \in Lanes |-> 0]
    /\ gatewayDraining = FALSE
    /\ nextQueueSequence = 1
    /\ waiter = [w \in Waiters |->
                   [state |-> "idle", ids |-> {}, timed |-> FALSE]]
    /\ lifecycle = 1
    /\ runContext = [i \in {RunId[r] : r \in Runs} |-> NoContext]
    /\ maintenance = [s \in Sessions |->
         [active |-> FALSE, chain |-> 0, worker |-> CHOOSE w \in Workers : TRUE,
          rerunRequested |-> FALSE, requests |-> 0]]
    /\ resumeTimer = [l \in Lanes |-> 0]
    /\ reloads = 0

Calls == DOMAIN environment.calls
May(event) == event \in environment.events
MayMeet(r, event) == r \in Calls /\ event \in environment.calls[r]

-----------------------------------------------------------------------------
(* What the tasks of runs do when a step starts them.                      *)

Starts(e) == entry[e].status # "running" /\ entry'[e].status = "running"

\* The session task: throwIfAborted, then await the maintenance of the
\* session as it is now.
Admitted(d, s) ==
    IF d.aborted THEN [d EXCEPT !.phase = "rejecting"]
    ELSE [d EXCEPT !.phase = "checkpoint",
                   !.before = maintenance[s].requests,
                   !.chain = IF maintenance[s].active
                             THEN maintenance[s].chain ELSE 0]

BadMayBegin(r) ==
    LET d == run[r]
    IN  /\ ~d.aborted
        /\ \/ d.lifecycleGeneration = lifecycle
           \/ /\ d.queuedLifecycleGeneration = d.lifecycleGeneration
              /\ RunPriority[r] = Foreground

\* taskWithCurrentLifecycle, with the contexts as they were before this step
MayBegin(r) ==
    LET d == run[r]
    IN  /\ ~d.aborted
        /\ \/ d.lifecycleGeneration = lifecycle
           \/ /\ d.queuedLifecycleGeneration = d.lifecycleGeneration
              /\ RunPriority[r] = Foreground
              /\ runContext[RunId[r]].generation # lifecycle

\* A run of the same id that the same pump starts earlier, and that claims
\* the context first
Preceded(r) ==
    \E p \in Runs \ {r} :
      /\ RunId[p] = RunId[r]
      /\ Starts(GlobalEntry(p))
      /\ MayBegin(p)
      /\ GoesBefore(entry'[GlobalEntry(p)], entry'[GlobalEntry(r)])

Begins(r) ==
    /\ Starts(GlobalEntry(r))
    /\ MayBegin(r)
    /\ run[r].lifecycleGeneration # lifecycle => ~Preceded(r)

\* The turn begins: the run belongs to the current lifecycle from now on.
Claims(d) == [d EXCEPT !.phase = "executing", !.lifecycleGeneration = lifecycle]

\* claimAgentRunContext for this generation, with the owner tokens it adds: a
\* claim for another generation replaces the owners.
Claimed(c, g, tokens) ==
    [generation |-> g,
     owners |-> (IF c.generation = g THEN c.owners ELSE {}) \cup tokens]

\* run' and runContext', where runs are the runs as the handler changed them
RunsFollow(runs) ==
    /\ run' = [r \in Runs |->
         IF Starts(SessionEntry(r)) THEN Admitted(runs[r], SessionOf[r])
         ELSE IF Begins(r) THEN Claims(runs[r])
         ELSE IF Starts(GlobalEntry(r))
              THEN [runs[r] EXCEPT !.phase = "rejecting"]
         ELSE runs[r]]
    /\ runContext' = [i \in DOMAIN runContext |->
         IF \E r \in Runs : RunId[r] = i /\ Begins(r)
         THEN Claimed(runContext[i], lifecycle, {})
         ELSE runContext[i]]

-----------------------------------------------------------------------------
(* Admission.                                                              *)

\* cron/service/ops.ts enqueueRun: a manual run waits in the cron lane.
EnqueueCronRun(r) ==
    /\ r \in CronRuns \cap Calls
    /\ EnqueueCommandInLane(CronEntry(r), Cron, Normal)
    /\ RunsFollow(run)
    /\ UNCHANGED <<lifecycle, maintenance, config, resumeTimer, reloads, environment>>

\* A chat run that the server of this lifecycle knows, and not yet answered
InFlight(q) ==
    /\ run[q].admittedIn = lifecycle
    /\ \/ run[q].phase \in {"admitted", "called"}
       \/ entry[SessionEntry(q)].answer = "pending"

\* chat.send takes the run id for the current lifecycle, unless a run of that
\* id is in flight in it.
AdmitChatRun(r) ==
    /\ r \in Calls \ CronRuns
    /\ run[r].phase = "idle"
    /\ \A q \in Runs \ {r} : RunId[q] = RunId[r] => ~InFlight(q)
    /\ run' = [run EXCEPT ![r].phase = "admitted",
                          ![r].admittedIn = lifecycle,
                          ![r].lifecycleGeneration = lifecycle,
                          ![r].contextLost = FALSE]
    /\ runContext' = [runContext EXCEPT ![RunId[r]] = Claimed(@, lifecycle, {})]
    /\ UNCHANGED <<vars, lifecycle, maintenance, config, resumeTimer, reloads,
                   environment>>

\* runCronIsolatedAgentTurn claims the run id with an owner token.  A restart
\* since the turn was admitted would end it here, as giving up does.
AdmitCronRun(r) ==
    /\ r \in CronRuns
    /\ run[r].phase = "idle"
    /\ entry[CronEntry(r)].body = "executing"
    /\ run' = [run EXCEPT ![r].phase = "admitted", ![r].contextLost = FALSE]
    /\ runContext' = [runContext EXCEPT ![RunId[r]] = Claimed(@, lifecycle, {r})]
    /\ UNCHANGED <<vars, lifecycle, maintenance, config, resumeTimer, reloads,
                   environment>>

\* captureAgentRunLifecycleGeneration, for a caller that names none: a context
\* that nobody cleared lends its generation.
CapturedGeneration(r) ==
    IF runContext[RunId[r]].generation # 0 THEN runContext[RunId[r]].generation
    ELSE lifecycle

\* runEmbeddedAgent up to its first await, called by a chat run or a cron job
RunEmbeddedAgent(r) ==
    /\ run[r].phase = "admitted"
    /\ run' = [run EXCEPT
         ![r].phase = "called", ![r].cfg = config,
         ![r].lifecycleGeneration = IF r \in CronRuns THEN CapturedGeneration(r) ELSE @,
         ![r].queuedLifecycleGeneration = lifecycle]
    /\ UNCHANGED <<vars, runContext, lifecycle, maintenance, config, resumeTimer, reloads,
                   environment>>

\* The session is resolved: throwIfAborted, then enqueueSession.
EnqueueSession(r) ==
    /\ run[r].phase = "called"
    /\ IF run[r].aborted
       THEN /\ run' = [run EXCEPT ![r].phase = "rejecting"]
            /\ UNCHANGED <<vars, runContext>>
       ELSE /\ EnqueueCommandInLane(SessionEntry(r), SessionLane[SessionOf[r]],
                                    RunPriority[r])
            /\ RunsFollow([run EXCEPT ![r].phase = "session"])
    /\ UNCHANGED <<lifecycle, maintenance, config, resumeTimer, reloads, environment>>

\* waitForDeferredTurnMaintenanceForSession: the promise the run holds has
\* resolved, its reruns included.
MaintenanceIsOver(r) ==
    LET m == maintenance[SessionOf[r]]
    IN  run[r].chain = 0 \/ ~m.active \/ m.chain # run[r].chain

\* The session task after the maintenance: throwIfAborted and enqueueGlobal
PassCheckpoint(r) ==
    /\ run[r].phase = "checkpoint"
    /\ MaintenanceIsOver(r)
    /\ IF run[r].aborted
       THEN /\ run' = [run EXCEPT ![r].phase = "rejecting"]
            /\ UNCHANGED <<vars, runContext>>
       ELSE /\ EnqueueCommandInLane(GlobalEntry(r), ResolveGlobalLane(r),
                                    RunPriority[r])
            /\ RunsFollow([run EXCEPT ![r].phase = "global"])
    /\ UNCHANGED <<lifecycle, maintenance, config, resumeTimer, reloads, environment>>

\* The caller aborts.  An attempt in progress relays it to the lane timeout.
AbortRun(r) ==
    /\ MayMeet(r, "abort")
    /\ ~run[r].aborted
    /\ run' = [run EXCEPT ![r].aborted = TRUE]
    /\ IF run[r].phase = "executing" /\ entry[GlobalEntry(r)].status = "running"
       THEN AbortTask(GlobalEntry(r))
       ELSE UNCHANGED vars
    /\ UNCHANGED <<lifecycle, runContext, maintenance, config, resumeTimer,
                   reloads, environment>>

-----------------------------------------------------------------------------
(* Settling.                                                               *)

Unchanged == UNCHANGED laneVars

\* The turn ends, or its task threw before it began.  Nothing here depends on
\* whether a turn that began succeeds, so it does.
TurnSettles(r) ==
    /\ TaskSettles(GlobalEntry(r),
                   IF run[r].phase = "executing" THEN "value" ELSE "error")
    /\ Unchanged

\* The attempt's timeout released the lane: laneTaskReleaseController.
ReleaseRun(r) ==
    /\ MayMeet(r, "release")
    /\ run[r].phase = "executing"
    /\ ReleaseTask(GlobalEntry(r))
    /\ Unchanged

BadSessionWaits(r) == run[r].phase = "checkpoint"

\* The session task awaits its checkpoint or the inner command.
SessionWaits(r) ==
    \/ run[r].phase = "checkpoint"
    \/ entry[GlobalEntry(r)].answer = "pending"

\* The session task ends with the answer of the inner command, or with what
\* it threw before it had one.
SessionSettles(r) ==
    /\ ~SessionWaits(r)
    /\ TaskSettles(SessionEntry(r),
                   IF entry[GlobalEntry(r)].answer = "value" THEN "value" ELSE "error")
    /\ Unchanged

\* The call of runEmbeddedAgent has returned or thrown.
Returned(r) ==
    /\ run[r].phase \notin {"idle", "admitted", "called"}
    /\ entry[SessionEntry(r)].answer # "pending"

\* The cron job ends with its agent run and the cleanup after it ...
CronJobEnds(r) ==
    /\ r \in CronRuns
    /\ Returned(r)
    /\ r \notin runContext[RunId[r]].owners
    /\ TaskSettles(CronEntry(r), "value")
    /\ Unchanged

\* ... or without it: the job is skipped, or its own timeout ends it first.
CronJobGivesUp(r) ==
    /\ MayMeet(r, "giveUp")
    /\ r \in CronRuns
    /\ TaskSettles(CronEntry(r), "error")
    /\ Unchanged

\* The lane timeout of a turn
LaneTimesOut(r) ==
    /\ MayMeet(r, "hang")
    /\ TaskTimesOut(GlobalEntry(r))
    /\ Unchanged

\* The continuation of any command, which may start others
CommandContinues(e) ==
    /\ TaskContinues(e)
    /\ RunsFollow(run)
    /\ UNCHANGED <<lifecycle, maintenance, config, resumeTimer, reloads, environment>>

\* The contexts of these run ids are gone: run' and runContext'
Forgotten(ids) ==
    /\ runContext' = [i \in DOMAIN runContext |->
                        IF i \in ids THEN NoContext ELSE runContext[i]]
    /\ run' = [r \in Runs |-> IF RunId[r] \in ids
                              THEN [run[r] EXCEPT !.contextLost = TRUE] ELSE run[r]]

\* clearAgentRunContext: by the lifecycle event with which a turn ends
\* (server-chat.ts:706), or by the caller once it has its answer.  A context
\* with an owner stays until the last owner releases it.
ClearAgentRunContext(r) ==
    /\ MayMeet(r, "forget")
    /\ run[r].phase = "executing" \/ Returned(r)
    /\ runContext[RunId[r]].generation # 0
    /\ runContext[RunId[r]].generation = run[r].lifecycleGeneration
    /\ runContext[RunId[r]].owners = {}
    /\ Forgotten({RunId[r]})
    /\ UNCHANGED <<vars, lifecycle, maintenance, config, resumeTimer, reloads, environment>>

\* disposeCronRunContext: releaseAgentRunContext
ReleaseAgentRunContext(r) ==
    LET c == runContext[RunId[r]]
    IN  /\ r \in c.owners
        /\ Returned(r)
        /\ IF c.owners = {r} THEN Forgotten({RunId[r]})
           ELSE /\ runContext' = [runContext EXCEPT ![RunId[r]].owners = @ \ {r}]
                /\ UNCHANGED run
        /\ UNCHANGED <<vars, lifecycle, maintenance, config, resumeTimer, reloads,
                       environment>>

\* sweepStaleRunContexts: any run may have been silent for half an hour, also
\* one that is queued or executing.
SweepStaleRunContexts(ids) ==
    /\ May("sweep")
    /\ ids # {}
    /\ \A i \in ids : runContext[i].generation # 0
    /\ Forgotten(ids)
    /\ UNCHANGED <<vars, lifecycle, maintenance, config, resumeTimer, reloads, environment>>

-----------------------------------------------------------------------------
(* Deferred turn maintenance.                                              *)

Idle(s) == {w \in Workers : w[1] = s /\ entry[w].answer = "none"}

\* The part of scheduleDeferredTurnMaintenance that enqueues a worker.  Workers
\* bounds how many a session has.
EnqueueWorker(s, m) ==
    LET w == CHOOSE w \in Idle(s) : TRUE
    IN  /\ Idle(s) # {}
        /\ EnqueueCommandInLane(w, MaintenanceLane[s], Normal)
        /\ maintenance' = [maintenance EXCEPT ![s] =
             [m EXCEPT !.active = TRUE, !.worker = w, !.rerunRequested = FALSE]]

\* The end of an attempt: scheduleDeferredTurnMaintenance.  A body that its
\* lane gave up on may still get here.
ScheduleDeferredTurnMaintenance(r) ==
    LET s == SessionOf[r]
        m == [maintenance[s] EXCEPT !.requests = @ + 1]
    IN  /\ MayMeet(r, "maintain")
        /\ run[r].phase = "executing"
        /\ run[r].attempts < MaxAttempts
        /\ entry[GlobalEntry(r)].body = "executing"
        /\ \/ gatewayDraining /\ UNCHANGED <<vars, maintenance>>
           \/ /\ ~gatewayDraining
              /\ maintenance[s].active
              /\ maintenance' = [maintenance EXCEPT ![s] =
                                   [m EXCEPT !.rerunRequested = TRUE]]
              /\ UNCHANGED vars
           \/ /\ ~gatewayDraining
              /\ ~maintenance[s].active
              /\ EnqueueWorker(s, [m EXCEPT !.chain = @ + 1])
        /\ RunsFollow([run EXCEPT ![r].attempts = @ + 1])
        /\ UNCHANGED <<lifecycle, config, resumeTimer, reloads, environment>>

\* runDeferredTurnMaintenanceWorker ends; it catches its own errors.
WorkerSettles(w) ==
    /\ TaskSettles(w, "value")
    /\ Unchanged

BadRerunPromise(m) == [m EXCEPT !.chain = @ + 1]

\* A rerun is awaited by the promise of the run that it follows.
RerunPromise(m) == m

\* cleanupDeferredTurnMaintenance: forget the run, start the rerun.
CleanupDeferredTurnMaintenance(s) ==
    LET m == maintenance[s]
    IN  /\ m.active
        /\ entry[m.worker].answer # "pending"
        /\ IF m.rerunRequested /\ ~gatewayDraining
           THEN EnqueueWorker(s, RerunPromise(m))
           ELSE /\ maintenance' = [maintenance EXCEPT ![s] =
                                     [m EXCEPT !.active = FALSE,
                                               !.rerunRequested = FALSE]]
                /\ UNCHANGED vars
        /\ RunsFollow(run)
        /\ UNCHANGED <<lifecycle, config, resumeTimer, reloads, environment>>

-----------------------------------------------------------------------------
(* Suspension of a lane.                                                   *)

\* suspendForFailure: suspendSession begins to write the session store.
SuspendForFailure(r) ==
    /\ MayMeet(r, "suspend")
    /\ run[r].phase = "executing"
    /\ run[r].suspending = "no"
    /\ entry[GlobalEntry(r)].body = "executing"
    /\ run' = [run EXCEPT ![r].suspending = "patching"]
    /\ UNCHANGED <<vars, lifecycle, runContext, maintenance, config,
                   resumeTimer, reloads, environment>>

BadScheduledResume(l, limit) == resumeTimer

\* scheduleLaneAutoResume: one timer for a lane
ScheduledResume(l, limit) == [resumeTimer EXCEPT ![l] = limit]

\* suspendSession after the write: the lane is closed and its timer set with
\* the limit of the run's own configuration; a failed write changes nothing.
SuspendSession(r, written) ==
    LET l == ResolveGlobalLane(r)
    IN  /\ run[r].suspending = "patching"
        /\ IF written
           THEN /\ SetCommandLaneConcurrency(l, 0)
                /\ resumeTimer' = ScheduledResume(l,
                     ResolveLaneResumeConcurrency(run[r].cfg, l))
           ELSE UNCHANGED <<vars, resumeTimer>>
        /\ RunsFollow([run EXCEPT ![r].suspending = "done"])
        /\ UNCHANGED <<lifecycle, maintenance, config, reloads, environment>>

\* The timer of scheduleLaneAutoResume
ResumeLane(l) ==
    /\ resumeTimer[l] # 0
    /\ SetCommandLaneConcurrency(l, resumeTimer[l])
    /\ resumeTimer' = [resumeTimer EXCEPT ![l] = 0]
    /\ RunsFollow(run)
    /\ UNCHANGED <<lifecycle, maintenance, config, reloads, environment>>

-----------------------------------------------------------------------------
(* The gateway.                                                            *)

\* applyGatewayLaneConcurrency on a configuration reload: it sets the lanes
\* one after the other and pumps each.
ApplyGatewayLaneConcurrency(cfg) ==
    /\ May("reload")
    /\ reloads < MaxReloads
    /\ cfg # config
    /\ reloads' = reloads + 1
    /\ config' = cfg
    /\ maxConcurrent' = AppliedLimits(cfg)
    /\ Drain({Main, Cron, CronNested}, entry, queue, activeTaskIds,
             maxConcurrent', generation)
    /\ UNCHANGED <<generation, gatewayDraining, nextQueueSequence, waiter>>
    /\ RunsFollow(run)
    /\ UNCHANGED <<lifecycle, maintenance, resumeTimer, environment>>

\* markGatewayDraining, at the start of an in-process restart
BeginRestart ==
    /\ May("restart")
    /\ generation[Main] < MaxGeneration
    /\ MarkGatewayDraining
    /\ Unchanged

\* rotateAgentEventLifecycleGeneration, before the lanes are reset: only a
\* restart resets the main lane, so its generation counts the restarts.
RotateLifecycle ==
    /\ gatewayDraining
    /\ lifecycle = generation[Main] + 1
    /\ lifecycle' = lifecycle + 1
    /\ UNCHANGED <<vars, run, runContext, maintenance, config, resumeTimer,
                   reloads, environment>>

\* resetAllLanes, in the next iteration of the run loop
FinishRestart ==
    /\ gatewayDraining
    /\ lifecycle = generation[Main] + 2
    /\ ResetAllLanes
    /\ RunsFollow(run)
    /\ UNCHANGED <<lifecycle, maintenance, config, resumeTimer, reloads, environment>>

\* The recovery of a stuck session resets its lane.
RecoverSession(s) ==
    /\ May("recover")
    /\ activeTaskIds[SessionLane[s]] # {}
    /\ ResetCommandLane(SessionLane[s])
    /\ RunsFollow(run)
    /\ UNCHANGED <<lifecycle, maintenance, config, resumeTimer, reloads, environment>>

\* clearSessionQueues rejects the session's queued runs.
ClearSessionQueue(s) ==
    /\ May("clear")
    /\ ClearCommandLane(SessionLane[s])
    /\ Unchanged

\* Promise continuations run before the event loop takes its next task.
Continuations ==
    \/ \E e \in Entries : CommandContinues(e)
    \/ \E r \in Runs : PassCheckpoint(r) \/ SessionSettles(r)
    \/ \E s \in Sessions : CleanupDeferredTurnMaintenance(s)

\* No continuation is due.
Quiet ==
    /\ \A e \in Entries : entry[e].status = "running" => entry[e].race = "open"
    /\ \A r \in Runs :
         /\ ~(run[r].phase = "checkpoint" /\ MaintenanceIsOver(r))
         /\ entry[SessionEntry(r)].body = "executing" => SessionWaits(r)
    /\ \A s \in Sessions : maintenance[s].active
         => entry[maintenance[s].worker].answer = "pending"

\* Calls, timers and whatever else the event loop delivers
LoopTasks ==
    \/ \E r \in Runs :
         \/ EnqueueCronRun(r)
         \/ AdmitChatRun(r)
         \/ AdmitCronRun(r)
         \/ RunEmbeddedAgent(r)
         \/ EnqueueSession(r)
         \/ AbortRun(r)
         \/ TurnSettles(r)
         \/ LaneTimesOut(r)
         \/ ReleaseRun(r)
         \/ CronJobEnds(r)
         \/ CronJobGivesUp(r)
         \/ ClearAgentRunContext(r)
         \/ ReleaseAgentRunContext(r)
         \/ ScheduleDeferredTurnMaintenance(r)
         \/ SuspendForFailure(r)
         \/ \E written \in BOOLEAN : SuspendSession(r, written)
    \/ \E w \in Workers : WorkerSettles(w)
    \/ \E l \in Lanes : ResumeLane(l)
    \/ \E cfg \in Configs : ApplyGatewayLaneConcurrency(cfg)
    \/ \E ids \in SUBSET DOMAIN runContext : SweepStaleRunContexts(ids)
    \/ BeginRestart
    \/ RotateLifecycle
    \/ FinishRestart
    \/ \E s \in Sessions : RecoverSession(s)
    \/ \E s \in Sessions : ClearSessionQueue(s)

LanesNext == Continuations \/ (Quiet /\ LoopTasks)

LanesSpec == LanesInit /\ [][LanesNext]_allVars

-----------------------------------------------------------------------------
(* Safety.                                                                 *)

Executing(r) == run[r].phase = "executing" /\ entry[GlobalEntry(r)].body = "executing"

\* A run that the lanes gave up on while it was running: its lane timeout or
\* its release won the race, or its session lane was reset under it.
GivenUp(r) ==
    \/ entry[GlobalEntry(r)].race = "timeout"
    \/ entry[SessionEntry(r)].taskGeneration < generation[SessionLane[SessionOf[r]]]

\* Turns of one session do not overlap, through every path of suspension,
\* abort, clearing and reload, unless a lane gave up on one of them.
SessionExclusive ==
    \A r1, r2 \in Runs :
      r1 # r2 /\ SessionOf[r1] = SessionOf[r2] /\ Executing(r1) /\ Executing(r2)
        => GivenUp(r1) \/ GivenUp(r2)

\* "Same-session reads below must see any prior deferred transcript rewrite":
\* while a turn executes, no worker of its session carries out only requests
\* made before the run was admitted, not even in the rerun of an earlier one.
MaintenanceFirst ==
    \A r \in Runs, w \in Workers :
      w[1] = SessionOf[r] /\ Executing(r) /\ entry[w].body = "executing"
        => maintenance[w[1]].requests > run[r].before

\* A closed lane has a timer that will open it: neither a reload, a second
\* suspension nor a restart leaves it at zero for good.
ClosedLaneHasTimer ==
    \A l \in Lanes : maxConcurrent[l] = 0 => resumeTimer[l] # 0

\* A run that was queued before a restart does not begin while a retry of its
\* run id is in flight in the new lifecycle (taskWithCurrentLifecycle), for
\* as long as the context the retry claimed stands: the end of a turn of that
\* id, the end of an earlier retry and the sweep take it away.
RetrySupersedes ==
    [][\A r, q \in Runs :
         /\ r # q /\ RunId[r] = RunId[q]
         /\ InFlight(q) /\ ~run[q].contextLost
         /\ run[r].lifecycleGeneration # lifecycle
         => ~(run[r].phase # "executing" /\ run'[r].phase = "executing")]_allVars

-----------------------------------------------------------------------------
(* Liveness.                                                               *)

\* Continuations run, lane timers fire, workers and the code around an agent
\* run come to an end.  Turns that may hang need not settle.  Each of these steps happens a bounded
\* number of times, so fairness to their disjunction is enough.
Progress ==
    \/ Continuations
    \/ /\ Quiet
       /\ \/ \E r \in Runs : LaneTimesOut(r)
          \/ \E r \in Runs : ~MayMeet(r, "hang") /\ TurnSettles(r)
          \/ \E r \in CronRuns :
               \/ AdmitCronRun(r)
               \/ RunEmbeddedAgent(r)
               \/ EnqueueSession(r)
               \/ ReleaseAgentRunContext(r)
               \/ CronJobEnds(r)
          \/ \E w \in Workers : WorkerSettles(w)
          \/ \E l \in Lanes : ResumeLane(l)

FairLanesSpec == LanesSpec /\ WF_allVars(Progress)

\* Every command is answered, although runs hold slots of one lane while they
\* wait for slots of another, lanes are closed by suspensions, and turns may
\* hang: no set of runs waits on itself (the order cron, session, global of
\* the lanes, resolveGlobalLane, the lane timeout of the innermost command
\* and the timer of scheduleLaneAutoResume).
AllRunsAnswered == []<>(\A e \in Entries : entry[e].answer # "pending")
=============================================================================
