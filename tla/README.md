# A verification development of the OpenClaw gateway

TLA+ modules, TLC configurations and TLAPS proofs for the parts of the gateway
process whose correctness depends on the order in which things happen: the
queue that runs its commands, the agent runs that nest in it, the queue that
delivers its messages, the cron scheduler, the watchers of on-exit cron jobs and
the heartbeats. Paths below are relative to
the root of the development (`src/` is the repository).

To check a run: `tlc -config <cfg> <module>`; to check the proofs: `tlapm` on
each of the modules whose name ends in `Proofs`. `PROJECT.json` lists the runs
and the theorems, maps every definition to the lines it models and holds the
list of hazards.

## 1. The system

The gateway is one Node.js process. JavaScript runs one handler at a time, so
the unit of interleaving is the code between two `await`s; what interleaves are
promises, timers, child processes, other processes on the same SQLite file, and
crashes or restarts. The models follow this: one action is one such stretch of
code, with every synchronous call it makes.

| Component | Source | State | Operations | Hard behaviours | What makes it correct |
|---|---|---|---|---|---|
| Command queue | `src/src/process/command-queue.ts` | lanes with a queue, slots, a limit and a generation; waiters; the draining flag | enqueue, clear, reset, set concurrency, drain, wait | reset under running tasks, timeouts against late results, priorities | nothing lost, order, limits, slots agree with runs, everybody is answered |
| Outbound delivery queue | `src/src/infra/outbound/deliver.ts`, `delivery-queue-storage.ts`, `delivery-queue-recovery.ts` | rows in SQLite; claims and senders in memory | enqueue, send, mark, ack, fail, recover, drain | crash between send and ack, failing writes, loops that meet on a row | at most one copy, evidence on the row, one sender, hooks once, nothing required lost |
| Cron exit watchers | `src/src/gateway/cron-exit-watchers.ts`, wiring in `server-cron.ts` | slots by job, arms in flight, children; the job store | reconcile, arm, cancel, persist, fire | cancel during spawn, stale lists, restart between exit and write | one run per request, no orphan child, every enabled job watched |
| Heartbeat wake layer | `src/src/infra/heartbeat-wake.ts` | pending wakes, one timer, batches, the handler and its generation | request, fire, hand over, retry, register, dispose | requests during a batch, handlers replaced in mid-batch | no wake lost, always a timer, bounded overlap |
| Heartbeat runner | `src/src/infra/heartbeat-runner.ts` (l. 2386-2870), `heartbeat-cooldown.ts`, `heartbeat-schedule.ts` | due times and recent runs of agents, its own timer | tick, gate, run, record, reload, stop | reload during a run, disabling over a tick, busy answers | spacing, flood guard, ticks go on, nothing runs when off |
| Agent run lanes | `src/src/agents/embedded-agent-runner/run.ts` (admission), `lanes.ts`, `context-engine-maintenance.ts`, `src/src/gateway/server-lanes.ts`, `src/src/agents/session-suspension.ts`, `src/src/infra/agent-events.ts` | commands nested in session, global and cron lanes; maintenance by session; resume timers; the lifecycle that owns a run id | admit, run, abort, maintain, suspend, resume, reload, recover, restart | deadlock by nesting, reruns of maintenance, stale resume timers, retries across a restart | turns of a session exclude each other, reads follow maintenance, closed lanes open, all are answered |
| Follow-up reply queue | `src/src/auto-reply/reply/queue/` | messages that wait per session | enqueue, drain, clear | drain against new arrivals, caps | nothing lost, order |
| Cron service | `src/src/cron/service/`, `src/src/cron/active-jobs.ts`, `schedule.ts` | rows in SQLite and a copy in each service, running marks, markers of executions, timer, store lock | tick, start, run, add, update, remove, read, stop | crash or restart in a run, hot reload with two services, failing writes, late outcomes | one execution at a time, its mark stands, edits stand, due slots run |
| Session write lock, session store | `src/src/agents/session-write-lock.ts`, `src/src/config/sessions/` | lock files, writer queue | acquire, release, patch | stale owners, other processes | mutual exclusion |
| Process supervisor | `src/src/process/supervisor/` | runs by scope | spawn, cancel, wait | cancel against exit | a settled run stays settled |
| Session delivery queue | `src/src/infra/session-delivery-queue-*.ts` | rows of the same table | as the outbound queue | as the outbound queue | as the outbound queue |
| Exec approvals | `src/src/gateway/exec-approval-manager.ts` | open requests | request, decide, expire | late decisions | one decision each |
| Task and subagent registries, ACP control plane | `src/src/tasks/`, `src/src/agents/subagent-registry*.ts`, `src/src/acp/control-plane/` | life cycles of background work | start, complete, announce, cancel | restart, retries, timeouts | one terminal state, announced |
| Restart coordination, configuration reload | `src/src/infra/restart*.ts`, `gateway-lock.ts`, `src/src/gateway/config-reload.ts` | pending restarts and reloads | request, defer, drain | restart against work in flight | no work cut off in silence |

How they interact: agent runs, queued cron runs and replies are commands of the
queue; a cron job that runs an agent holds a slot of the cron lane while its
agent run takes slots of a session lane and of `cron-nested`. The restart code
drains it with `markGatewayDraining` and `waitForActiveTasks`, and diagnostics
reset lanes. Replies and cron announcements become deliveries;
the recovery loops start with the gateway and with channels that reconnect.
Exit watchers listen to changes of the cron store and call back into the cron
service. Cron jobs, hooks and exec events request wakes; the wake layer calls
the runner, which asks the command queue how busy it is. A reload of the
configuration reaches the runner and the cron service while they work.

Chat channels, model providers, the agent loop, media, the command line, the
apps and the plugins are adapters or data processing around this core.
`PROJECT.json` lists them with the reason they are left out.

## 2. Modules

| Module | Models | Extends or uses |
|---|---|---|
| `CommandQueue` | the command queue | |
| `CommandQueueProofs`, `CommandQueueAnswerProofs` | its theorems: order and slots; starts, answers and waiters | `CommandQueue` |
| `AgentRunLanes` | the runs and their lanes | `CommandQueue` |
| `AgentRunLanesProofs` | its theorems | `AgentRunLanes`, `CommandQueueAnswerProofs` |
| `Outbox` | the promise of the delivery queue | |
| `OutboundDelivery` | the delivery queue | instance of `Outbox` |
| `OutboundDeliveryProofs` | its theorems and the refinement of `Outbox` | `OutboundDelivery` |
| `CronService` | the scheduler, its store and its gateway | |
| `CronServiceProofs` | its theorems | `CronService` |
| `CronExitWatchers` | watchers, store and children | |
| `CronExitWatchersProofs` | its theorems | `CronExitWatchers` |
| `HeartbeatWake` | the wake layer, with a handler that answers as it likes | |
| `HeartbeatWakeProofs` | its theorems | `HeartbeatWake` |
| `HeartbeatRunner` | the runner as that handler | `HeartbeatWake` |
| `HeartbeatRunnerProofs` | its theorems | `HeartbeatRunner`, `HeartbeatWakeProofs` |
| `MC...` | instances for TLC | the module of that name |

Operators whose name begins with `Bad` are mutations of the operator that
follows them: the faults which `PROJECT.json` pairs with the properties that
notice them. No specification uses them.

### CommandQueue

`queue`, `activeTaskIds`, `maxConcurrent` and `generation` are the fields of a
`LaneState`; `entry` holds what the code spreads over a `QueueEntry`, the
closure of the pump and the promises: where the command is, the timer of
`runQueueEntryTask`, the winner of its `Promise.race`, what the task itself does
and what the caller was told. `EnqueueCommandInLane`, `ClearCommandLane`,
`ResetCommandLane`, `ResetAllLanes`, `SetCommandLaneConcurrency`,
`MarkGatewayDraining` and `WaitForActiveTasks` are the exported functions;
`TaskSettles`, `TaskTimesOut`, `AbortTask`, `ReleaseTask` and `WaitTimesOut` are
what the event loop may deliver; `TaskContinues` is the code after the `await`
of the pump, a step of its own, since a reset may come between it and the end
of the race. `Drain` is the pump: it runs to its end inside the action that
calls it, so the `draining` flag is never seen. Task ids are the commands
themselves, as a command starts at most once. Lanes are never removed by the
code; the constant `Lanes` holds the ones that exist.

### AgentRunLanes

The module extends `CommandQueue` and uses its actions with real callers.
`runEmbeddedAgent` puts a command into the lane of its session; the task of that
command waits for the session's deferred maintenance and then puts a second
command, the turn, into a global lane; a queued manual cron run is a third
command around both. Only the innermost has a lane timeout. A task runs up to
its first `await` in the handler that starts it, and any handler may start tasks
of several runs, so what the started tasks do is one operator, `RunsFollow`, and
a conjunct of every action that can pump a lane. Promise continuations run
before the event loop takes its next task: `LanesNext` takes an action of
`LoopTasks` only in a state that is `Quiet`.

`run` holds the closure of `runEmbeddedAgentInternal`. A run is admitted, which
registers its context and captures the lifecycle, then awaits (the plugin
harness, `run.ts:659`), and enqueues its session command in a later step; a cron
job is admitted by its own code before it calls the agent run
(`AdmitCronRun`). `lifecycle` and `runContext` are the generation and the
contexts of `agent-events.ts`, a context with the tokens of its owners:
`ClearAgentRunContext` leaves one with owners alone, and the release of the last
token removes it; a clear of the same lifecycle may come late, after a retry of
that id claimed the context. `SweepStaleRunContexts` removes contexts of any age
(which is abstracted), those of runs in flight too.
`maintenance` is `activeDeferredTurnMaintenanceRuns`, where `chain` tells apart
the promises a run may hold (a rerun belongs to the promise it follows);
`resumeTimer` holds the limit that `scheduleLaneAutoResume` will set. `before`,
`requests` and the field `contextLost`, which says that a clear or a sweep took
the context of a run in flight, are history. `Workers` bounds how many workers
the maintenance of a session may enqueue: one that has none left does not ask.
`ResetAllLanes` of a restart is preceded by the rotation of the lifecycle, a step of its own, as the code awaits the drain of
cron runs in between.

### CronService

Operations work on the store in sections under `locked()`; jobs execute outside
of them. A section is one action, or two where `stop()` may come while a write is
awaited and the code looks again (`lock` names who is between the halves). `disk`
holds the rows, `mem` the copy of each service; `work` what each owner (a tick,
a start, a manual run) reserved and executes; `marker` and `generation` are
`active-jobs.ts`. There are two services: a hot reload stops the first and
starts the second at once, a restart in the same process does so after the lanes
were reset, and a crash keeps nothing but `disk`. `ApplyJobResult`,
`Maintained`, `ComputeJobNextRun` and `Recomputed` are the functions of those
names in the source, for schedules of the kinds "every" and "at".

A one-shot job of the main session that is skipped because heartbeats are
disabled is tried again, and for this the code enables it
(`timer.ts:581-592, 804-838`). Its retries are limited by a counter of the row;
here the outcome says whether another one is left ("disabled") or not
("exhausted"), either at any time. The status "disabled" of a row stands for
"skipped" with the error text by which `timer.ts:611-616` and the startup
recognise such a row.

`stale` and `disowned` are history variables, and say where the code lets go of
its guarantee on purpose or for want of better: `stale`, that the store may
differ from the copy of the service in use (the scheduler could not write, or a
replaced service wrote); `disowned`, that the store shows as over a run that is
not (its job was disabled or removed, or a start took it for the run of a dead
process), or that a run began beside such a one. `LetGo` adds runs older than
`STUCK_RUN_MS`. The properties say what holds of everything else.

### Outbox and OutboundDelivery

A row has a status, the `recoveryState` and a retry count. A sender is a live
call or a recovery loop; its record holds the local variables the code decides
by (`pre`, `post`, `results`, `partial`, `allPre`, `error`). The store operators
are sets of outcomes, with the failed call among them if `StoreMayFail`. Each
delivery has an `Option`: how many platform sends, best effort or not, the queue
policy, and what its adapter declares. `copies` counts what the platform saw and
`waived` what was given up on purpose; these are what the properties talk about,
no code reads them. `Crash` keeps rows and copies and forgets the rest. An
adapter's `reconcileUnknownSend` is assumed to be honest: it may not know, but
what it says is true. And adapters are assumed to throw no error named
`AbortError` of their own: `isDeliveryAbortError` looks at the name only
(`deliver.ts:654-659`), and the row of a delivery that ends with such an error
is acknowledged (l. 1597) as if the caller had aborted it. In the model only the
caller aborts. No adapter of the repository was found that throws one from a
send, but a plugin may.

`Outbox` says in a page what that machinery is for: a row is accepted, settled
once and never comes back; a part is transmitted at most once and not after the
intent was dead-lettered. `ImplementsOutbox` is the refinement, with the row's
status as `fate`.

### CronExitWatchers

`store` is the cron store, whose operations take turns under its lock; `due` and
`listed` are the two halves of a reconcile (it waits for the lock, lists, and
goes on with the list); `arms[j]` are the asynchronous arms of a job, each in
one of the phases between its awaits; `active[j]` is the slot. `wanted` counts
how often the owner asked for a watch and `runs` how often the job ran.
`Restart` loses arms and slots. A slot stays after its command exited, with
`fired` set ("A fired one-shot stays put"), until a list shows the job as
disabled. `Watched` counts a slot only before it fired.
A child that survives a crash of the gateway is
outside of the model.

### HeartbeatWake and HeartbeatRunner

`HeartbeatWake` has the module-level variables of the source under their names.
A batch in flight is a record with its wakes and the position of the one the
handler works on. `asked` is a history variable: how urgent a wake of each
target is owed. Time is a countdown of the timer in ticks; a timer fires when it
is due or later.

`HeartbeatRunner` puts the real handler in. Each handover of a wake is joined
with the synchronous part of `run()`: the early returns, the gate of
`heartbeat-cooldown.ts` and the start of the runs. `calls` remembers for each
batch what its `finally` block will do; `runs` are agent runs, which may outlive
the call (under `Promise.all` a failing agent ends the call, and the runs of the
others go on). A run holds the state object of its agent; `holds` says whether this is
still the object the runner reads. Times are relative to now and stop counting
where no comparison tells them apart.

## 3. Runs

| Run | What it checks | Instance |
|---|---|---|
| `command_queue` | `TypeOK`, `NoCommandLost`, `SlotsMatchRuns`, `QueueOrdered`, `WorkConserving`, `WaiterWatchesActive`, `DrainedForGood`, `AnswerMatchesExecution`, `StartsInOrder` | one lane, three commands of two priorities, limits below zero and two, clears and a reset; or two lanes, one a probe lane, a timed and an untimed command and a waiter |
| `agent_lanes` | `SessionExclusive`, `MaintenanceFirst`, `ClosedLaneHasTimer`, `RetrySupersedes`, `AllRunsAnswered` | four runs of one session, two of them retries of a third, two queued cron jobs, four maintenance workers, two configurations, a restart, late clears and sweeps of contexts; seven environments |
| `cron_service` | `TypeOK`, `NoOverlap`, `MarkStands`, `CopyInSync`, `NoSlotSkipped`, `EditsStand`, `DueJobsRun` | a one-shot and a repeating job, two manual runs, two services, one reload, restart or crash, a failing write, an edit, disabled heartbeats; seventeen environments |
| `outbound_faults` | `AtMostOnce`, `EvidenceOnRow`, `OneSenderPerDelivery`, `HooksOnceAfterAck`, `NoRequiredLoss`, `EvidenceKept`, `ImplementsOutbox`, `ClaimsReleased` | one delivery of every kind, two sends, a live sender and two loops, two retries, two crashes, any store call may fail |
| `exit_watchers` | `RunsOncePerRequest`, `NoOrphanChild`, `RunsOnlyAfterExit`, `EnabledJobsWatched` | one job, two commands, three edits, a fault, a restart |
| `heartbeat_wake` | `NoWakeLost`, `PendingIsArmed`, `OverlapsBounded`, `WakesHandedOver` | two targets, two delays, unbounded requests, two registrations, a throw |
| `heartbeat_runner` | `TickerAlive`, `SpacingHeldInOrder`, `FloodHeld` | two agents and a failing call; one agent, two foreign requests of any intent, a switch off, a failing call; two runners, one reload |
| `outbound_evidence`, `exit_watchers_own`, `heartbeat_reload`, `heartbeat_disable`, `heartbeat_order` | disagreements with the code, section 6 | as small as shows them |

Three instances start in one of several *environments*, chosen by the initial
state and kept for ever (those of `command_queue`, `agent_lanes` and
`cron_service`): what exists, who calls, and which events may happen.
`CommandQueue` has two (`focus` in `MCCommandQueue`). An environment has the
events of one family of hazards, so each interleaving of those is explored, and
the run is the union. Events of different families do not meet in these
instances: a hanging turn meets a restart, for example, but no reload of the
configuration meets a restart.

`heartbeat_runner` is cut by a state constraint instead, `Covered`, as its
environments would share most of their states. It keeps the states of three
families: one runner of two agents with one foreign request that is no manual
wake, no switch off and a few recorded starts; one runner of one agent with two
requests of any intent for everyone, the switch and a failing call; and, with no
failing call and no switch, runners of one agent that are replaced and
reconfigured, with a request only if there is no reload. TLC checks the
properties in every state it keeps and on every step between two of them, and
explores nothing beyond. What falls between the families, such as manual wakes
with two agents or a failing call across a reload, is not explored. All three
properties are about safety, so the constraint hides behaviours but refutes none.

`heartbeat_wake` has one intent: a second one beside two targets makes the
liveness property too expensive. That a later, less urgent request does not take
the urgency from a pending wake is therefore not exercised by TLC; it is part of
`NoWakeLost`, which is proved for all intents (`WakesAreNeverLost`).

Why the bounds are enough to be interesting. Order and slots need a queue of two
behind one running command, hence three commands; a stale continuation needs one
reset. A lost or doubled message needs a batch with a first and a second send, a
live sender and two loops that all know the row, a crash after a send and one
more in its recovery. A replaced watch needs two commands, and one edit more to
undo it. Overlapping batches need two registrations. The flood guard needs more
starts than its threshold (two) within the window. Nesting needs
two cron jobs for one slot of the cron lane; exclusion in a session needs a run
that executes, one that waits and a retry; a context that is cleared under a
retry needs a second retry of the same id, a run beside them that holds the
session, and a caller that forgets late. A cron job needs two slots within the
horizon, a second job that waits for the only worker or that a restart puts
off, and a second service; times run to four, with slots two apart and a
timeout of two. `CHECK_DEADLOCK FALSE` stands where a system may be at rest: when the
delivery is settled, the runs are answered, or the clock or the edits of a job
are used up.

Bounds that are not in the code are named `Max...` in the modules: generations,
crashes, edits, faults, restarts, registrations, throws, foreign requests,
toggles, reloads, attempts; in `CronService` they are the fields `edits`,
`failures` and `until` of an environment. `MaxImmediate` there is the code's
`maxMissedJobsPerRestart`. `MaxRetries` is the code's `MAX_RETRIES` with a smaller value.

### Fairness

* `AgentRunLanes`: continuations run, lane timers and resume timers fire,
  maintenance workers end, and the code between a cron job and its agent run
  goes on. A turn that may hang need not end; this is what the lane timeout is
  for. No restart, reload, abort or suspension need happen. `Progress` is one
  disjunction, as each of its steps happens a bounded number of times.
* `CronService`: time passes, executions end at the latest with their timeout
  (which the code enforces with a timer of its own), the timer of a service
  fires and its tick goes on, sections get the lock. Nobody need ask for
  anything. `DueJobsRun` speaks of behaviours in which the store could be
  written and no replaced service wrote it.
* `OutboundDelivery`: a sender that has begun goes on: its awaits settle (store
  calls are synchronous SQLite, adapters have timeouts). Neither the start of a
  loop nor the success of a call is assumed.
* `CronExitWatchers`: lists, reconciles, spawns and store writes end, one way or
  the other; the watched command need not end, and no fault need happen.
* `HeartbeatWake`: time passes, timers fire and the handler answers something
  (an agent run has its own timeout); it may be busy for ever. Producers are not
  assumed to ask.

## 4. Proofs

TLC checks the instances of section 3; the theorems below hold for every value
of the constants: any set of lanes, commands and waiters, any number of
deliveries, loops, jobs, handlers, runs and sessions, every bound. Each module
assumes what its named assumption says and nothing else, and TLC evaluates it on
every run:

* of the command queue, that the commands are finitely many and the priorities
  the three of the code;
* of the lanes, that commands of different kinds are different commands, that a
  session's lane is none of `main`, `cron` and `cron-nested` (its name begins
  with `session:`), that configured limits are positive, and that the functions
  of the queue are called with arguments of the queue's own constants;
* of the deliveries, that live senders and loops have different names and that
  an exact send has one unit and an adapter that marks and reconciles it;
* of the cron service, that there is a job, that services are finitely many, and
  that times and bounds are numbers, a horizon above zero;
* of the wake layer, which intents there are, and that delays are numbers;
* of the runner, that there are finitely many agents, that the wakes its own timer
  requests are wakes of the layer, that an interval and the flood window are
  positive (the guard is off without a window), and that the absence of a timer
  is not a number;
* of the watchers, that the bounds are numbers.

The adapters' honesty is not an assumption of the proofs but part of the model
(`Answers`), and so is that an adapter throws no `AbortError`.

### Command queue

`CommandQueueProofs` proves

* `TypeCorrect`: `Spec => []TypeOK`;
* `SlotsMatchRunsAlways`: the slots of a lane are the unfinished runs of its
  current generation;
* `NoCommandLostEver`: an accepted command is in its lane's queue exactly once
  or has started, and its promise is pending for exactly as long;
* `QueueAlwaysOrdered`: queues are ordered by priority, then by arrival.

None of the three invariants is inductive: that slots match runs needs a queued
command to be in no slot, that needs queues without duplicates, and that a queue
stays ordered when a command is inserted needs every queued sequence number to
be below the next one. `Core` states these together, of tables that are
parameters and not of the variables, because handlers change the tables and
then drain: `EnqueueKeepsCore`, `ContinueKeepsCore` and `ResetKeepsCore` show
that the tables handed to the pump satisfy it, and `DrainKeepsCore` that the
pump keeps it. `IInv` is `TypeOK /\ Core`; `NextIInv` has one step per action.
`CutQueue` and `PutIntoQueue` say what cutting the head off a queue and putting
a command into one do to its elements, their order and their number;
`EnqueuePlace` finds the place at which `EnqueueLaneEntry` inserts.

`CommandQueueAnswerProofs` builds on these and proves the rest of the safety of
the queue:

* `LanesWorkAlways` (`WorkConserving`): no command waits beside a free slot.
  Every handler either pumps a lane or leaves its queue and its slots alone and
  closes it at most (`Pumps`); a pumped lane is full or empty.
* `StartsAlwaysInOrder` (`StartsInOrder`): of a pumped lane a prefix is started
  (`Pumped`), so what starts goes before what stays.
* `AnswersTrue` (`AnswerMatchesExecution`): `EntrySound` relates, in one command,
  its place, its body, its timer, the winner of its race and its answer. A
  handler leaves a command alone or does one of seven things to it (`Change`),
  and the pump starts it; each keeps `EntrySound`.
* `WaitersWatchAlways` and `DrainedAlways` (`WaiterWatchesActive`,
  `DrainedForGood`): inductive with the addition that what a waiter watches has
  started (`WaitersSound`), as a command that has started gets no second slot.

### Deliveries

`OutboundDeliveryProofs` proves all safety properties of the run
`outbound_faults`:

* `NothingTwice` (`AtMostOnce`), `EvidenceAlwaysOnRow` (`EvidenceOnRow`),
  `OneSenderAlways` (`OneSenderPerDelivery`), `HooksOnce` (`HooksOnceAfterAck`),
  `RequiredKept` (`NoRequiredLoss`), and `TypeCorrect`;
* `EvidenceStays`: `EvidenceKept`, an action property;
* `OutboxImplemented`: `Spec => ImplementsOutbox`, the refinement.

The properties speak of rows and of what the platform saw; why they hold lies in
the local variables of the senders. `IInv` therefore has a part for every sender
in charge of a delivery, `Local`: which units the platform has seen, given the
phase the sender is in (`Progress`); what was given up if nothing was sent
(`GivenUp`); and what `pre`, `post`, `results` and the phase say of the row
(`OnRow`), or that there is none (`Direct`). A part of it holds of every row
(`RowSound`) and of live sends that have not begun (`Waits`). The claims tie the
two together: two senders in charge have different deliveries, and the claimed
deliveries are those of senders that keep a row. The proof needs a fact that no
property states: a row that a sender read as free of evidence stays so until
that sender writes, since nobody else is in charge.

`Frame` reduces a step to the sender and the delivery it changes: if nobody else
is in charge of the delivery, it is enough that `Local`, `RowSound` and `Waits`
hold of the new values. `GoesOn` and `Releases` are its two cases, a sender that
stays in charge and one that lets go. The outcomes of the store calls have a
lemma each (`UpdateOutcome` to `DeadLetterOutcome`); `RowLeft` lists what a
sender may leave behind. Then there is one lemma per action (`SuppressUnitSafe`
to `CrashSafe`). Each also concludes `Moves`: at most one delivery changes, and
in a way that the abstract queue allows and that keeps evidence. This gives
`EvidenceStays` and the step half of the refinement.

### Cron exit watchers

`CronExitWatchersProofs` proves `TypeCorrect`, `OneRunPerRequest`
(`RunsOncePerRequest`), `ChildrenAreWatched` (`NoOrphanChild`) and `OnlyExitsFire`
(`RunsOnlyAfterExit`). `ArmsMatch` relates phase, child, marks and slot of every
arm; the last two properties are parts of it. That a job runs at most once per
request is an argument about a budget: `Paid(j)` says that the runs of `j`, the
arms that may still end in a run and the arms that a list or the store may still
lead to (`Credit`) are together at most the requests. Edits add one to both
sides, arming turns credit into an arm, and an exit turns an arm into a run.

### Cron service

`CronServiceProofs` proves the safety of the scheduler but for missed slots:

* `NothingOverlaps` (`NoOverlap`): no job is executed twice at once, unless one
  of the two executions was let go;
* `MarksStand` (`MarkStands`): the running mark of an execution stays in the
  store until its own outcome is recorded;
* `CopyKeepsUp` (`CopyInSync`): the copy that the service in use trusts has the
  jobs and definitions of the store;
* `EditsAreKept` (`EditsStand`), an action property: nothing brings back what an
  owner removed, and nothing enables what an owner disabled but the one retry for
  which the code does so on purpose (`RetriesDisabledHeartbeat`,
  `timer.ts:814`), and a manual run that outlives its service;
* `TypeIsOK`.

They share one invariant, `CronInv`. None of them is inductive alone, as an
execution is safe for a reason that lies elsewhere: in its mark in the store, in
the copy of the service that reserves the next one, and in who is between the
halves of a section. `TickShape`, `StartShape` and `RunShape` say what an owner
holds in each phase, and who has the lock; `RunWork` and `RunMark` tie a manual
run to its work and, while its write is awaited, to its mark. A run counts as
firm while it was not let go and is not older than `STUCK_RUN_MS` (`IsFirm`;
`ReservedBefore` makes ages meaningful): `FirmHolds` says that its mark stands in
the store and in the copy of the service of the day, and `OneWriter` that nobody
else can begin or record an execution of its job. `OneService` says which
services are stopped or yet to come, `CopiesAreGood` that copies are well formed,
`Synced` that the copy of the service of the day has the definitions of the
store unless `stale` says otherwise. There is one lemma per action, and under it
one step per part of `CronInv` that the action can disturb.

The proof changed the model in one place. A manual run that begins on a job that
the store shows as disabled is let go from its beginning (`RunReserved` sets
`disowned`), because the next maintenance clears the mark of a disabled job
(`jobs.ts:597`); the invariant was not inductive without it.

### Agent lanes

`AgentRunLanesProofs` proves `SessionsExclude` (`SessionExclusive`),
`MaintenanceComesFirst` (`MaintenanceFirst`), `ClosedLanesOpen`
(`ClosedLaneHasTimer`), `RetriesSupersede` (`RetrySupersedes`) and `LanesTyped`,
from the invariant `LanesInv`:

* that turns of a session exclude each other is a chain. A turn that its lane
  did not give up on has a caller that waits (`TimeoutsTold` and the queue's
  `EntrySound`), so the session command around it executes (`SessionHolds`), in
  the lane of the session (`SessionLanes`), in its current generation, so it has
  a slot there (the queue's `SlotsMatch`), and the lane has one slot, now and
  when its timer opens it again (`SingleSlots`);
* a worker that executes is the one that the session's maintenance names
  (`OneWorker`), and maintenance that a run does not await was asked for after
  it came to its checkpoint (`AwaitedFirst`, which `QueuedPhases` needs beside
  it, as a run's phase must say which of its commands is queued).

`RetriesSupersede` holds for any number of runs of one id. `RetriesClaim` adds
to `LanesInv` that a retry in flight which kept its context has claimed it for
the lifecycle of the day; `RetryGoes` says what a step may make of a run and of
the context of its id, and `NextRetries` that every action is of that kind. The
property excepts retries that lost their context (`contextLost`), since then the
guard at `run.ts:752` finds nothing and the older run begins (section 5).

The module proves nothing about the pump again. `Effect` sums up what any
handler does to the commands: which it accepts, which bodies it ends, that no
command goes back, and that a lane with one slot keeps one task. It is shown
once for each function of the queue, from the lemmas of
`CommandQueueAnswerProofs`. `Moves` and `Matches` say what a handler makes of a
run and how that fits the commands it touches, and `RunGoes` adds the tasks that
the pump starts. Each action is a `LaneStep` (one lemma per action), and
`LaneStepKeeps` shows once that a `LaneStep` keeps `LanesInv`.

### Heartbeat wake layer

`HeartbeatWakeProofs` proves `WakesAreNeverLost` (`NoWakeLost`),
`PendingIsAlwaysArmed` (`PendingIsArmed`), `OverlapsAreBounded`
(`OverlapsBounded`) and `TypeIsOK`. Their conjunction is inductive with one
addition, `ScheduledForPending`: the flag that makes the end of a batch arm the
timer is only up while something is pending. `Covered` restates `NoWakeLost` of
parameters, so that each handler is a few steps: queueing keeps what a queue
serves (`Keeps`), handing over takes from what is owed exactly what is handed
over (`HandedOverIs`).

The batch of a handler that throws is queued again by a fold (`FoldLeft`), a
recursive function over sets of positions. What it computes follows here from
the well-ordering of the numbers (`LeastNatural`, `SetInduction`): a function
with the fold's recursion exists for every length (`FoldsToExists`), its values
are the queue after each wake (`FoldLeftSteps`), and so every wake of the batch
is served at the end (`FoldServes`).

### Heartbeat runner

`HeartbeatRunnerProofs` builds on these. `RunnerIsAHandler` is the refinement:
`RunnerSpec => Spec`, where the variables of `Spec` are among those of the
runner. `RunnerStepsAreWakeSteps` maps every action of the runner to one of the
wake layer or to a stutter, so `NoWakeLost` and `PendingIsArmed` hold of the
composition (`RunnersLoseNoWake`). Two steps need the runner's own invariant or
assumption: a failing call is a `HandlerThrows` because the batch its run is
bound to is in flight, and a tick is a request because its wake is one of the
layer's.

`RunnerIsTyped` is the runner's type invariant. Runs outlive calls and batches
leave from the middle, so its hard part is that the numbers by which runs know
batches are renumbered in step with them (`RunsOf`, `UnboundType`, `PairsStay`).

`TickersStayAlive` proves `toggles = 0 => TickerAlive`: while heartbeats were
never switched off. `TickerAlive` is inductive with the type invariant, those of
the wake layer and the fact that heartbeats are enabled (`RunnerInv`,
`Undisturbed`). A call that ends without arming the timer found its runtime
busy, and leaves a wake pending; the next call of a batch arms it because the
runner is not stopped; a call that fails leaves the wakes of its batch pending
(`FoldServes`). After the switch was used it is false (`heartbeat_disable`).

### Only model-checked

* Liveness, under the fairness of section 3: it is out of the prover's reach.
* `NoSlotSkipped` of the cron service: beside `CronInv` it needs to know of every
  copy that is written how its next run times relate to those in the store, over
  the arithmetic of intervals; that invariant has not been worked out.
* `SpacingHeldInOrder` and `FloodHeld` of the heartbeat runner. Both speak of a
  runner that knows of every start: it is the only one there was, and its
  configuration did not change (`KnowsStarts`). Both except starts that were
  recorded out of order (`Overtaken`): with two agents the failure of one ends
  the call while a run of the other goes on, the retry runs that agent again, and
  the older run is recorded last. Then `lastRunStartedAtMs` goes back to its
  start (`heartbeat-runner.ts:2497`), and the scan of the recent starts, newest
  first, stops at it and misses the later ones (`heartbeat-cooldown.ts:129`). What is false
  without the exceptions is `SpacingHeld`, in section 6. For every value of the
  constants the two would need the runner's recent starts tied to the history of
  all starts; this has not been worked out.

## 5. What the passing runs show

In these instances the command queue keeps its promises without exception. Agent
runs never wait for each other in a circle: lanes are taken in the order cron,
session, global, and `resolveGlobalLane` moves the turn of a cron job out of the
lane whose slot the job holds (without it, `AllRunsAnswered` fails). Turns of a
session overlap only after a lane gave up on one of them. Every lane that a
suspension closed has a timer, though the timer restores the limit the suspended
run was configured with. A run that was queued before a restart gives way to a
retry of its id, with one exception, which the instance has and the property
names: if the context of that id was cleared late by another caller, or swept as
stale while the retry waits, the guard finds no newer lifecycle
(`run.ts:752`) and the old run begins beside the retry.

The cron service starts no job twice at once, keeps the marks of what runs, and
runs what is due, outside of the cases that `LetGo`, `stale` and
`RetriesDisabledHeartbeat` name. Those are real:

* disabling a running job clears its mark (`ops.ts:577`), and so does any
  maintenance of a disabled one (`jobs.ts:597`), so a forced run, or enabling it
  again, starts it beside the execution that goes on;
* the start of a service takes every mark for that of a dead process
  (`ops.ts:248`), also those of runs that a replaced service still executes
  after a hot reload, or that began before a delayed start; a one-shot job that
  waited for a worker is then disabled without having run;
* a manual run that ends on a replaced service writes its copy of the row over
  later edits (`ops.ts:194`) and arms no timer of the service in use;
* a one-shot job of the main session that its user disabled while it ran is
  enabled again if it was skipped because heartbeats are disabled
  (`timer.ts:814`);
* `STUCK_RUN_MS` counts from the reservation, also while a job waits for a
  worker.

In the delivery queue, whatever fails, no part is sent twice by a sender that
may not, and no error path leaves a claim behind, given honest adapters and one
process. On-exit jobs never run twice per request and leak no child. An enabled
one gets its watcher, with one exception (`KeepsFiredSlot`): if its owner enables
it again after its exit was written and before a reconcile listed it as
disabled, the slot of the exit stays (`cron-exit-watchers.ts:213-217`), also
under another command, and nothing watches the job until a list shows it as
disabled or the gateway restarts. The wake
layer loses no wake, though its batches may overlap after a restart in mid-batch
and a batch that throws serves some wakes twice.

The cooldown and the flood guard of heartbeats hold against the starts that the
runner knows of and that were recorded in order, through failing calls, busy
answers and manual wakes, with one agent and with two; `TickerAlive` holds while
heartbeats are not switched off. What happens otherwise is in the next section.

## 6. Disagreements between the code and what it says

Each is a run that TLC refutes, and a finding in `PROJECT.json`.

* `outbound_evidence`: the dispatch mark of a second send overwrites the row's
  evidence that the first was delivered (`delivery-queue-storage.ts:220`), while
  comments promise that evidence is preserved. `EvidenceKept` shows that this is
  the only way: it holds for adapters that mark no dispatch.
* `exit_watchers_own`: ownership of a watch is not checked again after the wait
  for the store (`cron-exit-watchers.ts:172`), so the exit of a replaced command
  disables and fires the job that was armed for another one.
* `heartbeat_reload`: a run in flight during a reload is recorded in an object
  that nobody reads any more (`heartbeat-runner.ts:2582`), so the next event
  runs the agent at once.
* `heartbeat_disable`: a tick that meets disabled heartbeats ends the chain of
  ticks (`heartbeat-runner.ts:2623`), and enabling them does not restart it.
* `heartbeat_order`: a run that outlives its failed call is recorded after a later
  run of its agent and sets `lastRunStartedAtMs` back to its own start
  (`heartbeat-runner.ts:2497`), so the next event runs the agent too soon.

Two smaller ones have no run. On a partial failure in which every earlier store
call failed and the last fallback ack succeeds, commit hooks never run
(`deliver.ts:1534`). And a normal timer that was armed while the handler worked
is kept when a busy answer asks for the retry cooldown, which the comment calls
a hard minimum (`heartbeat-wake.ts:192-200`).

## 7. Not modelled

Content, formatting and chunking of messages; adapters and channels; the wording
of errors; logging and metrics; several processes on one delivery queue; what a
turn of an agent does; queued compaction, runs that bring their own
`params.enqueue`, the subagent lane and the abort of maintenance by process
signals; active hours and changes of the heartbeat interval; of the cron service
"cron" expressions (staggering, repair of missed slots), triggers, isolated
agents whose setup times out, failure alerts, quarantine of invalid rows, the
task ledger, cancellation and declarative adds; exit watchers under a hot
reload; and the components of section 1 that have no module yet.

The repository has more than ten thousand implementation files, most of them
adapters, apps, plugins and data processing. The development covers the parts in
which the order of events decides about correctness, not a share of the lines.

## 8. Plan

In order of importance:

1. `FollowupQueue`, then `SessionWriteLock` and the writer queue of the session
   store.
2. `CronExitWatchers` over `CronService`, and "cron" expressions in the latter.
3. `ProcessSupervisor`, and `CronExitWatchers` over it instead of over its own
   children.
4. A second process on the delivery queue; the session delivery queue.
5. Exec approvals, subagent and task registries, restart coordination.

Abstract specifications worth stating: a lane as a bounded server with
priorities, which `CommandQueue` implements; a lock with expiry for the session
store; a one-shot job, which watchers and cron service implement together.

Theorems next: `NoSlotSkipped` of `CronService`; `SpacingHeldInOrder` and
`FloodHeld` of the runner. As more components come in, runs that ask about the
same module are merged into one instance.
