----------------------------- MODULE CronService -----------------------------
(***************************************************************************)
(* The cron scheduler: src/src/cron/service/{ops,timer,jobs,store,locked}.ts *)
(* and the process-wide markers of src/src/cron/active-jobs.ts.            *)
(*                                                                         *)
(* Every operation reads and writes the job store in sections serialized   *)
(* by locked(), but jobs are executed outside them.  What keeps a job from *)
(* being started twice is runningAtMs, a mark in its stored row; what      *)
(* keeps the outcome of an execution nobody waits for any more out of the  *)
(* store is the marker of active-jobs.ts.  A service trusts its copy of    *)
(* the store; only ticks and endings of executions read the store again.   *)
(*                                                                         *)
(* A section is one step, or two where stop() may come while its write is  *)
(* awaited and the code looks again.  Sections run in any order, which     *)
(* includes the order of the promise chain of locked().                    *)
(***************************************************************************)
EXTENDS Integers, FiniteSets

CONSTANTS
    Jobs,           \* job ids
    OneShot,        \* the jobs whose schedule is "at"; the others are "every"
    DeleteAfterRun, \* one-shot jobs that an execution without error deletes
    Services,       \* 1 .. n: a reload or a restart goes on to the next one
    Manuals,        \* manual runs
    Environments,   \* [jobs, agentTurn, main, due, forced, outcomes, edits,
                    \* event, failures, stuck, until, started]: the stored
                    \* jobs, those whose payload is an agent turn and those
                    \* with sessionTarget "main", which manual runs there
                    \* are, what may happen, STUCK_RUN_MS, where the clock
                    \* stops, and whether start() is over at first
    Every,          \* schedule.everyMs
    Backoff,        \* the delay after an error
    Timeout,        \* resolveCronJobTimeoutMs
    Concurrency,    \* maxConcurrentRuns
    MaxImmediate    \* maxMissedJobsPerRestart

ASSUME CronAssumption ==
    /\ Jobs # {}
    /\ DeleteAfterRun \subseteq OneShot /\ OneShot \subseteq Jobs
    /\ IsFiniteSet(Services) /\ Services = 1 .. Cardinality(Services) /\ 1 \in Services
    /\ {Every, Timeout, Concurrency} \subseteq Nat \ {0}
    /\ {Backoff, MaxImmediate} \subseteq Nat
    /\ \A env \in Environments :
         /\ env.jobs \cup env.agentTurn \cup env.main \subseteq Jobs
         /\ env.due \cup env.forced \subseteq Manuals \X Jobs
         /\ env.outcomes \subseteq
              {"ok", "skipped", "disabled", "exhausted", "transient", "permanent"}
         /\ {env.edits, env.failures, env.stuck} \subseteq Nat /\ env.until \in Nat \ {0}
         /\ env.started \in BOOLEAN
         /\ env.event \in {"none", "reload", "restart", "crash"}

VARIABLES
    now,         \* deps.nowMs(), from 1: zero stands for an absent time
    disk,        \* the stored rows, by job id
    mem,         \* state.store of each service
    svc,         \* the rest of the state of each service
    manual,      \* the manual runs
    work,        \* the reservations and executions of each owner
    marker,      \* activeJobs
    generation,  \* the generation of activeJobs
    lock,        \* the owner whose section awaits a write, or None
    current,     \* the service the gateway uses
    edits, failures,
    stale,       \* history: the store may differ from the copy of current
    environment

vars == <<now, disk, mem, svc, manual, work, marker, generation, lock,
          current, edits, failures, stale, environment>>

-----------------------------------------------------------------------------
(* Data.                                                                   *)

None == <<"none", 0>>
Tick(s) == <<"tick", s>>        \* onTimer
Boot(s) == <<"boot", s>>        \* runMissedJobs of start
Manual(m) == <<"manual", m>>    \* run
Owners == {Tick(s) : s \in Services} \cup {Boot(s) : s \in Services}
            \cup {Manual(m) : m \in Manuals}

\* runningAtMs is the time of the reservation and, for whoever compares it
\* with the time it wrote, the reservation: here both are kept.  "disabled" is
\* a run that was skipped with the error HEARTBEAT_SKIP_DISABLED.
Row == [enabled : BOOLEAN, at : Nat, next : Nat, running : Owners \cup {None},
        runningAt : Nat, lastRun : Nat, lastEnd : Nat,
        status : {"none", "ok", "skipped", "disabled", "error"}]

IsStore(rows) == DOMAIN rows \subseteq Jobs /\ rows \in [DOMAIN rows -> Row]

\* A job of the main session that wakes it at once is skipped while heartbeats
\* are disabled.  If it is a one-shot job it is tried again ("disabled") until
\* its retries are used up ("exhausted").
HeartbeatSkips == {"disabled", "exhausted"}

Outcomes == {"ok", "skipped", "transient", "permanent"} \cup HeartbeatSkips

NoWork == [st |-> "none", reservedAt |-> 0, start |-> 0, end |-> 0,
           outcome |-> "none", disowned |-> FALSE]

TypeOK ==
    /\ now \in 1 .. environment.until
    /\ IsStore(disk)
    /\ \A j \in DOMAIN disk : disk[j].enabled \/ disk[j].next = 0
    /\ DOMAIN mem = Services /\ \A s \in Services : IsStore(mem[s])
    /\ svc \in [Services ->
         [phase : {"new", "load", "plan", "catchup", "arm", "up", "over"},
          loaded : BOOLEAN, stopped : BOOLEAN, timer : BOOLEAN,
          tick : {"idle", "load", "reserving", "working"},
          skip : SUBSET Jobs, deferred : SUBSET Jobs]]
    /\ manual \in [Manuals ->
         [phase : {"idle", "asked", "prepare", "reserving", "running", "done"},
          job : Jobs, service : Services \cup {0}, forced : BOOLEAN, at : Nat]]
    /\ work \in [Owners -> [Jobs ->
         [st : {"none", "reserved", "executing", "ended"}, reservedAt : Nat,
          start : Nat, end : Nat, outcome : Outcomes \cup {"none"},
          disowned : BOOLEAN]]]
    /\ marker \in [Jobs -> [by : Owners \cup {None}, generation : Nat]]
    /\ generation \in Nat
    /\ lock \in Owners \cup {None}
    /\ current \in Services
    /\ edits \in Nat /\ failures \in Nat /\ stale \in BOOLEAN
    /\ environment \in Environments

-----------------------------------------------------------------------------
(* Schedules.                                                              *)

Later(a, b) == IF a > b THEN a ELSE b

\* computeNextRunAtMs of an "every" schedule whose anchor is zero
NextOfAnchor(t) == (t \div Every + 1) * Every

\* computeJobNextRunAtMs
ComputeJobNextRun(j, row, t) ==
    IF ~row.enabled THEN 0
    ELSE IF j \notin OneShot
         THEN IF row.lastRun # 0 /\ row.lastRun + Every > t
              THEN row.lastRun + Every ELSE NextOfAnchor(t)
    ELSE IF row.status = "ok" /\ row.at <= row.lastRun THEN 0 ELSE row.at

BackoffUntil(row) == row.lastEnd + Backoff

\* isErrorBackoffPending
IsErrorBackoffPending(j, row) ==
    j \notin OneShot /\ row.status = "error" /\ now < BackoffUntil(row)

Due(row) == row.next # 0 /\ now >= row.next

\* isRunnableJob of a tick
IsRunnable(j, row) ==
    row.enabled /\ row.running = None /\ ~IsErrorBackoffPending(j, row) /\ Due(row)

\* isRunnableJob of the catch-up at startup: a one-shot job that has run is
\* due again only for a retry after an error or because heartbeats were
\* disabled (isScheduledTerminalOneShotRetry).
IsMissed(j, row) ==
    IsRunnable(j, row)
      /\ (j \in OneShot /\ row.status # "none"
            => row.status \in {"error", "disabled"} /\ row.next > row.lastRun)

AlreadyExecutedSlot(row) == row.lastRun # 0 /\ row.lastRun >= row.next

\* recomputeJobNextRunAtMs
Recomputed(j, row) ==
    LET next == ComputeJobNextRun(j, row, now)
    IN  [row EXCEPT !.next =
           IF j \notin OneShot /\ row.status = "error" /\ next # 0
           THEN Later(next, BackoffUntil(row)) ELSE next]

\* normalizeJobTickState
IsStuck(row) == row.running # None /\ now - row.runningAt > environment.stuck

BadMaintained(j, row, expired) ==
    IF ~row.enabled THEN [row EXCEPT !.next = 0, !.running = None, !.runningAt = 0]
    ELSE IF row.next = 0 \/ (now >= row.next /\ row.running = None)
         THEN Recomputed(j, row) ELSE row

\* recomputeNextRunsForMaintenance: a slot that is due stays so, unless it was
\* executed or an error holds it back.
Maintained(j, row, expired) ==
    LET freed == IF IsStuck(row)
                 THEN [row EXCEPT !.running = None, !.runningAt = 0] ELSE row
    IN  IF ~row.enabled
        THEN [row EXCEPT !.next = 0, !.running = None, !.runningAt = 0]
        ELSE IF IsStuck(row) /\ ~(row.next # 0 /\ AlreadyExecutedSlot(row)) THEN freed
        ELSE IF \/ row.next = 0
                \/ /\ expired /\ Due(row) /\ freed.running = None
                   /\ \/ AlreadyExecutedSlot(row)
                      \/ /\ row.status = "error" /\ now < BackoffUntil(row)
                         /\ row.next < BackoffUntil(row)
             THEN Recomputed(j, freed)
        ELSE freed

MaintainedStore(store, expired) ==
    [j \in DOMAIN store |-> Maintained(j, store[j], expired)]

Deletes(j, w) == j \in DeleteAfterRun /\ w.outcome = "ok"

BadRetried(row, end) == [row EXCEPT !.enabled = TRUE, !.next = end + Backoff]

\* A one-shot job is tried again after a transient error.
Retried(row, end) == [row EXCEPT !.next = end + Backoff]

\* A one-shot job that met disabled heartbeats is tried again, and is enabled
\* for it even if the user disabled it while it ran.
HeartbeatRetried(row, end) == [row EXCEPT !.enabled = TRUE, !.next = end + Backoff]

\* applyJobResult, for a job that is not deleted; preserve is preserveSchedule
ApplyJobResult(j, old, w, preserve) ==
    LET failed == w.outcome \in {"transient", "permanent"}
        row == [old EXCEPT !.running = None, !.runningAt = 0,
                           !.lastRun = w.start, !.lastEnd = w.end,
                           !.status = IF failed THEN "error"
                                      ELSE IF w.outcome \in HeartbeatSkips THEN "disabled"
                                      ELSE w.outcome]
        \* the next slot of the schedule, as the branch at hand computes it
        normal == IF preserve
                  THEN ComputeJobNextRun(j, [row EXCEPT !.lastRun = old.lastRun], w.end)
                  ELSE IF old.status = "error" \/ w.outcome = "transient"
                       THEN NextOfAnchor(w.end)
                  ELSE ComputeJobNextRun(j, row, w.end)
        retry == w.end + Backoff
    IN  IF j \in OneShot
        THEN IF w.outcome = "transient" THEN Retried(row, w.end)
             ELSE IF w.outcome = "disabled" THEN HeartbeatRetried(row, w.end)
             ELSE [row EXCEPT !.enabled = FALSE, !.next = 0]
        ELSE [row EXCEPT !.next =
                IF ~row.enabled THEN 0
                ELSE IF ~failed THEN normal
                ELSE IF w.outcome = "transient" /\ ~preserve /\ retry < normal
                     THEN retry
                ELSE Later(normal, retry)]

-----------------------------------------------------------------------------
(* The store and the markers.                                              *)

Free == lock = None

\* ensureLoaded without forceReload
Loaded(s) == IF svc[s].loaded THEN mem[s] ELSE disk

\* Whether a write may succeed, and whether it may fail
Writes == IF failures < environment.failures THEN BOOLEAN ELSE {TRUE}

\* persist of store by service s.  Where the copy of the service of the day
\* keeps what was not written, or the store has what another service wrote, the
\* history says so.
Persist(s, store, written) ==
    /\ mem' = [mem EXCEPT ![s] = store]
    /\ disk' = IF written THEN store ELSE disk
    /\ failures' = IF written THEN failures ELSE failures + 1
    /\ stale' = IF s = current THEN ~written ELSE stale \/ (written /\ store # disk)

\* The copy is read from the store and nothing is written.
Reload(s) ==
    /\ mem' = [mem EXCEPT ![s] = disk]
    /\ stale' = IF s = current THEN FALSE ELSE stale
    /\ UNCHANGED <<disk, failures>>

NoStoreChange == UNCHANGED <<mem, disk, failures, stale>>

\* armTimer: enabled jobs keep the timer going even if none has a next time.
Armed(s, store) == ~svc[s].stopped /\ \E j \in DOMAIN store : store[j].enabled

Remaining(store, js) == [j \in DOMAIN store \ js |-> store[j]]

Reserved(store, js, o) ==
    [j \in DOMAIN store |->
       IF j \in js THEN [store[j] EXCEPT !.running = o, !.runningAt = now] ELSE store[j]]

\* Clears the reservations of o for js: runningAtMs === reservedAtMs.
Released(store, js, o) ==
    [j \in DOMAIN store |->
       IF j \in js /\ store[j].running = o
       THEN [store[j] EXCEPT !.running = None, !.runningAt = 0] ELSE store[j]]

NoMarker == [by |-> None, generation |-> 0]

\* markCronJobActive
Marked(j, o) == [marker EXCEPT ![j] = [by |-> o, generation |-> generation]]

BadIsCurrent(o, j) == TRUE

\* isCronActiveJobMarkerCurrent of the marker that o got for its execution of j
IsCurrent(o, j) ==
    /\ marker[j].by = o
    /\ marker[j].generation = generation \/ j \in environment.main

\* clearCronJobActive by o for the jobs js
Cleared(js, o) ==
    [j \in Jobs |-> IF j \in js /\ marker[j].by = o THEN NoMarker ELSE marker[j]]

\* History: runs that the store may show as over.  The job is or was disabled,
\* or was removed (any maintenance takes the mark of a disabled job away), a
\* start took them for those of a dead process, or the reservation is older
\* than STUCK_RUN_MS; the runs that begin while such a run may still record its
\* outcome; and a manual run that begins on a disabled job, whose mark any
\* maintenance takes away.
LetGo(o, j) ==
    \/ work[o][j].disowned
    \/ j \in DOMAIN disk /\ ~disk[j].enabled
    \/ now - work[o][j].reservedAt > environment.stuck

NewRun(j, st, at, start) ==
    [NoWork EXCEPT !.st = st, !.reservedAt = at, !.start = start,
       !.disowned = \E o \in Owners :
         /\ LetGo(o, j)
         /\ \/ work[o][j].st \in {"executing", "ended"} /\ marker[j].by = o
            \/ work[o][j].st = "reserved" /\ ~svc[o[2]].stopped]

Disowned(js) ==
    [o \in Owners |-> [j \in Jobs |->
       IF j \in js /\ work[o][j].st # "none"
       THEN [work[o][j] EXCEPT !.disowned = TRUE] ELSE work[o][j]]]

JobsIn(o, st) == {j \in Jobs : work[o][j].st = st}

\* Start of an execution: runDueJob, runStartupCatchupCandidate
Execute(o, j) ==
    /\ work' = [work EXCEPT ![o][j].st = "executing", ![o][j].start = now]
    /\ marker' = Marked(j, o)

\* applyOutcomeToStoredJob for the executions of o in js
Applied(store, js, o) ==
    LET kept == Remaining(store, {j \in js : Deletes(j, work[o][j])})
    IN  [j \in DOMAIN kept |->
           IF j \in js THEN ApplyJobResult(j, kept[j], work[o][j], FALSE) ELSE kept[j]]

-----------------------------------------------------------------------------
(* Executions.                                                             *)

\* executeJobCoreWithTimeout returns, at the latest when its timeout fires.
ExecutionEnds(o, j, outcome) ==
    /\ work[o][j].st = "executing"
    /\ outcome \in HeartbeatSkips => j \in OneShot \cap environment.main
    /\ work' = [work EXCEPT ![o][j] =
         [@ EXCEPT !.st = "ended", !.end = now, !.outcome = outcome]]
    /\ UNCHANGED <<now, disk, mem, svc, manual, marker, generation, lock, current,
                   edits, failures, stale, environment>>

\* Time passes, but no execution outlives its timeout.
Advance ==
    /\ now < environment.until
    /\ \A o \in Owners : \A j \in JobsIn(o, "executing") :
         now - work[o][j].start < Timeout
    /\ now' = now + 1
    /\ UNCHANGED <<disk, mem, svc, manual, work, marker, generation, lock,
                   current, edits, failures, stale, environment>>

-----------------------------------------------------------------------------
(* Ticks.                                                                  *)

\* onTimer; while a tick is at work the timer is only armed again.
TimerFires(s) ==
    /\ svc[s].timer /\ svc[s].tick = "idle" /\ ~svc[s].stopped
    /\ svc' = [svc EXCEPT ![s].tick = "load"]
    /\ UNCHANGED <<now, disk, mem, manual, work, marker, generation, lock,
                   current, edits, failures, stale, environment>>

\* The finally block of onTimer, with the copy that the tick leaves
TickOver(s, store) ==
    svc' = [svc EXCEPT ![s].tick = "idle", ![s].loaded = TRUE,
                       ![s].timer = Armed(s, store)]

\* The section that reserves the due jobs, up to its write
TickLoads(s, written) ==
    LET due == {j \in DOMAIN disk : IsRunnable(j, disk[j])}
        o == Tick(s)
        reserved == Reserved(disk, due, o)
    IN  /\ svc[s].tick = "load" /\ Free
        /\ \/ /\ svc[s].stopped /\ written
              /\ Reload(s)
              /\ TickOver(s, disk)
              /\ UNCHANGED <<work, lock>>
           \/ /\ ~svc[s].stopped /\ due = {}
              /\ written \/ MaintainedStore(disk, TRUE) # disk
              /\ Persist(s, MaintainedStore(disk, TRUE), written)
              /\ TickOver(s, MaintainedStore(disk, TRUE))
              /\ UNCHANGED <<work, lock>>
           \/ /\ ~svc[s].stopped /\ due # {}
              /\ Persist(s, reserved, written)
              /\ IF written
                 THEN /\ svc' = [svc EXCEPT ![s].tick = "reserving", ![s].loaded = TRUE]
                      /\ lock' = o
                      /\ work' = [work EXCEPT ![o] = [j \in Jobs |->
                           IF j \in due
                           THEN NewRun(j, "reserved", now, 0)
                           ELSE NoWork]]
                 ELSE TickOver(s, reserved) /\ UNCHANGED <<work, lock>>
        /\ UNCHANGED <<now, manual, marker, generation, current, edits, environment>>

\* The rest of that section: stop() may have come while the write was awaited.
TickReserves(s, written) ==
    LET o == Tick(s)
        released == MaintainedStore(Released(mem[s], JobsIn(o, "reserved"), o), FALSE)
    IN  /\ lock = o
        /\ lock' = None
        /\ IF svc[s].stopped
           THEN /\ Persist(s, released, written)
                /\ TickOver(s, released)
                /\ work' = [work EXCEPT ![o] = [j \in Jobs |-> NoWork]]
           ELSE /\ written
                /\ svc' = [svc EXCEPT ![s].tick = "working"]
                /\ UNCHANGED <<work, mem, disk, failures, stale>>
        /\ UNCHANGED <<now, manual, marker, generation, current, edits, environment>>

\* A worker of the tick takes the next reserved job, whose row in the copy gets
\* the time of the start.
TickExecutes(s, j) ==
    LET o == Tick(s)
    IN  /\ svc[s].tick = "working" /\ ~svc[s].stopped
        /\ j \in JobsIn(o, "reserved")
        /\ Cardinality(JobsIn(o, "executing")) < Concurrency
        /\ Execute(o, j)
        /\ \/ UNCHANGED mem   \* the copy was read again since the reservation
           \/ /\ j \in DOMAIN mem[s] /\ mem[s][j].running = o
              /\ mem' = [mem EXCEPT ![s][j].runningAt = now]
        /\ UNCHANGED <<now, disk, svc, manual, generation, lock, current,
                       edits, failures, stale, environment>>

\* releaseUnclaimedDueJobReservations, when stop() left jobs without a worker.
\* If its write fails the outcomes are lost, and the markers stay.
TickReleases(s, written) ==
    LET o == Tick(s)
        left == JobsIn(o, "reserved")
        released == MaintainedStore(Released(disk, left, o), FALSE)
    IN  /\ svc[s].tick = "working" /\ svc[s].stopped /\ Free
        /\ left # {} /\ JobsIn(o, "executing") = {}
        /\ Persist(s, released, written)
        /\ work' = [work EXCEPT ![o] = [j \in Jobs |->
             IF j \in left \/ ~written THEN NoWork ELSE work[o][j]]]
        /\ IF written THEN UNCHANGED svc ELSE TickOver(s, released)
        /\ UNCHANGED <<now, manual, marker, generation, lock, current, edits, environment>>

\* finalizeCompletedResults and the end of the tick
TickFinalizes(s, written) ==
    LET o == Tick(s)
        ended == JobsIn(o, "ended")
        finalized == {j \in ended : IsCurrent(o, j)}
        store == MaintainedStore(Applied(disk, finalized \cap DOMAIN disk, o), FALSE)
    IN  /\ svc[s].tick = "working" /\ Free
        /\ JobsIn(o, "reserved") = {} /\ JobsIn(o, "executing") = {}
        /\ IF finalized = {}
           THEN written /\ NoStoreChange /\ TickOver(s, mem[s])
           ELSE Persist(s, store, written) /\ TickOver(s, store)
        /\ work' = [work EXCEPT ![o] = [j \in Jobs |-> NoWork]]
        /\ marker' = Cleared(ended, o)
        /\ UNCHANGED <<now, manual, generation, lock, current, edits, environment>>

-----------------------------------------------------------------------------
(* Start and stop.                                                         *)

BadInterrupted(j, row) ==
    [row EXCEPT !.lastRun = row.runningAt, !.lastEnd = now, !.status = "error",
                !.next = 0, !.enabled = row.enabled /\ j \notin OneShot]

\* markInterruptedStartupRun
Interrupted(j, row) ==
    [row EXCEPT !.running = None, !.runningAt = 0,
                !.lastRun = row.runningAt, !.lastEnd = now, !.status = "error",
                !.next = 0, !.enabled = row.enabled /\ j \notin OneShot]

\* start(): the exception of a failed write leaves the service without timer.
StartOver(s) == [svc EXCEPT ![s].phase = "over", ![s].loaded = TRUE]
StartGoesOn(s, phase) == [svc EXCEPT ![s].phase = phase, ![s].loaded = TRUE]

\* The first section of start: whatever is marked as running was interrupted.
StartLoads(s, written) ==
    LET store == Loaded(s)
        found == {j \in DOMAIN store : store[j].running # None}
    IN  /\ svc[s].phase = "load" /\ Free
        /\ IF svc[s].stopped
           THEN /\ written /\ NoStoreChange
                /\ svc' = [svc EXCEPT ![s].phase = "over"]
                /\ UNCHANGED work
           ELSE /\ written \/ DOMAIN store # {}
                /\ Persist(s, [j \in DOMAIN store |->
                               IF j \in found THEN Interrupted(j, store[j])
                               ELSE store[j]], written)
                /\ svc' = IF written
                          THEN [StartGoesOn(s, "plan") EXCEPT ![s].skip = found]
                          ELSE StartOver(s)
                /\ work' = Disowned(found)
        /\ UNCHANGED <<now, manual, marker, generation, lock, current, edits,
                       environment>>

\* planStartupCatchup: at most MaxImmediate missed jobs are reserved at once,
\* agent turns and the others are put off.
StartPlans(s, written) ==
    LET o == Boot(s)
        missed == {j \in DOMAIN mem[s] \ svc[s].skip : IsMissed(j, mem[s][j])}
    IN  /\ svc[s].phase = "plan" /\ Free
        /\ \/ /\ svc[s].stopped /\ written
              /\ NoStoreChange /\ svc' = StartOver(s)
              /\ UNCHANGED work
           \/ /\ ~svc[s].stopped /\ missed = {} /\ written
              /\ NoStoreChange
              /\ svc' = [StartGoesOn(s, "arm") EXCEPT ![s].skip = {}]
              /\ UNCHANGED work
           \/ /\ ~svc[s].stopped /\ missed # {}
              /\ \E chosen \in SUBSET (missed \ environment.agentTurn) :
                   /\ \/ Cardinality(chosen) = MaxImmediate
                      \/ /\ chosen = missed \ environment.agentTurn
                         /\ Cardinality(chosen) < MaxImmediate
                   /\ Persist(s, Reserved(mem[s], chosen, o), written)
                   /\ svc' = IF written
                             THEN [StartGoesOn(s, "catchup") EXCEPT
                                     ![s].skip = {}, ![s].deferred = missed \ chosen]
                             ELSE StartOver(s)
                   /\ work' = [work EXCEPT ![o] = [j \in Jobs |->
                        IF j \in chosen /\ written
                        THEN NewRun(j, "reserved", now, 0)
                        ELSE NoWork]]
        /\ UNCHANGED <<now, manual, marker, generation, lock, current, edits, environment>>

\* executeStartupCatchupPlan: one candidate after the other
StartExecutes(s, j) ==
    LET o == Boot(s)
    IN  /\ svc[s].phase = "catchup" /\ ~svc[s].stopped
        /\ j \in JobsIn(o, "reserved") /\ JobsIn(o, "executing") = {}
        /\ Execute(o, j)
        /\ UNCHANGED <<now, disk, mem, svc, manual, generation, lock, current,
                       edits, failures, stale, environment>>

\* applyStartupCatchupOutcomes.  A service that was stopped drops the outcomes
\* and gives up the reservations it did not use.
StartApplies(s, written) ==
    LET o == Boot(s)
        stopped == svc[s].stopped
        ended == JobsIn(o, "ended")
        left == JobsIn(o, "reserved")
        store == IF stopped THEN disk ELSE mem[s]
        released == Released(store, left, o)
        finalized == {j \in ended : ~stopped /\ IsCurrent(o, j)}
        later == IF stopped THEN {} ELSE svc[s].deferred
        applied == Applied(released, finalized \cap DOMAIN store, o)
        put == [j \in DOMAIN applied |->
                  IF j \in later /\ applied[j].enabled
                  THEN [applied[j] EXCEPT !.next = now + 1] ELSE applied[j]]
    IN  /\ svc[s].phase = "catchup" /\ Free
        /\ JobsIn(o, "executing") = {} /\ (left = {} \/ stopped)
        /\ IF finalized = {} /\ later = {} /\ released = store
           THEN written /\ (IF stopped THEN Reload(s) ELSE NoStoreChange)
           ELSE Persist(s, MaintainedStore(put, FALSE), written)
        /\ svc' = IF stopped \/ ~written THEN StartOver(s)
                  ELSE [StartGoesOn(s, "arm") EXCEPT ![s].deferred = {}]
        /\ work' = [work EXCEPT ![o] = [j \in Jobs |-> NoWork]]
        /\ marker' = Cleared(ended, o)
        /\ UNCHANGED <<now, manual, generation, lock, current, edits, environment>>

\* The last section of start, which writes the copy if it changed it
StartArms(s, written) ==
    LET store == MaintainedStore(mem[s], TRUE)
    IN  /\ svc[s].phase = "arm" /\ Free
        /\ IF svc[s].stopped
           THEN written /\ NoStoreChange /\ svc' = StartOver(s)
           ELSE /\ IF store = mem[s] THEN written /\ NoStoreChange
                   ELSE Persist(s, store, written)
                /\ svc' = IF written
                          THEN [StartGoesOn(s, "up") EXCEPT ![s].timer = Armed(s, store)]
                          ELSE StartOver(s)
        /\ UNCHANGED <<now, manual, work, marker, generation, lock, current, edits,
                       environment>>

-----------------------------------------------------------------------------
(* Manual runs.                                                            *)

NoRun == [phase |-> "idle", job |-> CHOOSE j \in Jobs : TRUE, service |-> 0,
          forced |-> FALSE, at |-> 0]

\* finishPreparedManualRun has returned, or the run was refused.
RunOver(m) == [manual EXCEPT ![m] = [NoRun EXCEPT !.phase = "done"]]

\* A caller asks the service of the day for a run.
AskRun(m, j, forced) ==
    /\ manual[m].phase = "idle"
    /\ <<m, j>> \in (IF forced THEN environment.forced ELSE environment.due)
    /\ ~svc[current].stopped
    /\ manual' = [manual EXCEPT ![m] = [@ EXCEPT !.phase = "asked", !.job = j,
                                !.service = current, !.forced = forced]]
    /\ UNCHANGED <<now, disk, mem, svc, work, marker, generation, lock, current,
                   edits, failures, stale, environment>>

\* inspectManualRunPreflight; the maintenance it does stays in the copy.
Preflight(m) ==
    LET s == manual[m].service
        j == manual[m].job
        store == IF svc[s].stopped THEN Loaded(s) ELSE MaintainedStore(Loaded(s), FALSE)
        runnable == /\ ~svc[s].stopped /\ j \in DOMAIN store
                    /\ store[j].running = None
                    /\ manual[m].forced \/ (store[j].enabled /\ Due(store[j]))
    IN  /\ manual[m].phase = "asked" /\ Free
        /\ mem' = [mem EXCEPT ![s] = store]
        /\ svc' = [svc EXCEPT ![s].loaded = TRUE]
        /\ manual' = IF runnable
                     THEN [manual EXCEPT ![m].phase = "prepare", ![m].at = now]
                     ELSE RunOver(m)
        /\ UNCHANGED <<now, disk, work, marker, generation, lock, current, edits,
                       failures, stale, environment>>

BadMayReserve(s, j) == ~svc[s].stopped /\ j \in DOMAIN mem[s]

\* What the second section of prepareManualRun checks again
MayReserve(s, j) ==
    ~svc[s].stopped /\ j \in DOMAIN mem[s] /\ mem[s][j].running = None

\* prepareManualRun up to the write of the reservation
PrepareRun(m, written) ==
    LET s == manual[m].service
        j == manual[m].job
        o == Manual(m)
    IN  /\ manual[m].phase = "prepare" /\ Free
        /\ IF MayReserve(s, j)
           THEN /\ Persist(s, [mem[s] EXCEPT ![j].running = o,
                                             ![j].runningAt = manual[m].at], written)
                /\ lock' = IF written THEN o ELSE None
                /\ manual' = IF written THEN [manual EXCEPT ![m].phase = "reserving"]
                             ELSE RunOver(m)
           ELSE /\ written /\ NoStoreChange /\ UNCHANGED lock
                /\ manual' = RunOver(m)
        /\ UNCHANGED <<now, svc, work, marker, generation, current, edits, environment>>

\* The rest of that section, and the start of the execution
RunReserved(m, written) ==
    LET s == manual[m].service
        j == manual[m].job
        o == Manual(m)
    IN  /\ lock = o
        /\ lock' = None
        /\ IF svc[s].stopped
           THEN /\ Persist(s, Released(disk, {j}, o), written)
                /\ manual' = RunOver(m)
                /\ UNCHANGED <<work, marker>>
           ELSE /\ written /\ NoStoreChange
                /\ manual' = [manual EXCEPT ![m].phase = "running"]
                /\ work' = [work EXCEPT ![o][j] =
                     [NewRun(j, "executing", manual[m].at, manual[m].at) EXCEPT
                        !.disowned = @ \/ ~disk[j].enabled]]
                /\ marker' = Marked(j, o)
        /\ UNCHANGED <<now, svc, generation, current, edits, environment>>

\* mergeManualRunSnapshotAfterReload: the row of the copy, after the result,
\* replaces all but the definition of the job in the row of the store.
Merged(stored, row) == [row EXCEPT !.at = stored.at]

\* finishPreparedManualRun after the execution
FinishRun(m, written) ==
    LET s == manual[m].service
        j == manual[m].job
        o == Manual(m)
        w == work[o][j]
        ours == IsCurrent(o, j) /\ j \in DOMAIN mem[s]
        kept == Remaining(disk, IF Deletes(j, w) THEN {j} ELSE {})
        merged == [i \in DOMAIN kept |->
                     IF i = j THEN Merged(kept[j],
                                ApplyJobResult(j, mem[s][j], w, manual[m].forced))
                     ELSE kept[i]]
        store == MaintainedStore(merged, TRUE)
    IN  /\ w.st = "ended" /\ Free
        /\ IF ours
           THEN /\ Persist(s, store, written)
                /\ svc' = IF written THEN [svc EXCEPT ![s].timer = Armed(s, store)] ELSE svc
           ELSE written /\ NoStoreChange /\ UNCHANGED svc
        /\ work' = [work EXCEPT ![o][j] = NoWork]
        /\ marker' = Cleared({j}, o)
        /\ manual' = RunOver(m)
        /\ UNCHANGED <<now, generation, lock, current, edits, environment>>

-----------------------------------------------------------------------------
(* Edits and reads.                                                        *)

BadRestored(store, edited) == edited

\* persistOrRestore: a failed write takes the edit back.
Restored(store, edited) == store

\* An edit of the copy of the service of the day, written or taken back
Edit(edited, written) ==
    LET store == Loaded(current)
    IN  /\ Free /\ edits < environment.edits /\ ~svc[current].stopped
        /\ edits' = edits + 1
        /\ mem' = [mem EXCEPT ![current] =
                     IF written THEN edited ELSE Restored(store, edited)]
        /\ disk' = IF written THEN edited ELSE disk
        /\ failures' = IF written THEN failures ELSE failures + 1
        /\ stale' = IF written THEN FALSE ELSE stale
        /\ svc' = [svc EXCEPT ![current].loaded = TRUE,
                              ![current].timer = IF written THEN Armed(current, edited) ELSE @]
        /\ UNCHANGED <<now, manual, marker, generation, lock, current, environment>>

\* add
Add(j, written) ==
    LET store == Loaded(current)
        blank == [enabled |-> TRUE, at |-> now + 1, next |-> 0, running |-> None,
                  runningAt |-> 0, lastRun |-> 0, lastEnd |-> 0, status |-> "none"]
        row == [blank EXCEPT !.next = ComputeJobNextRun(j, blank, now)]
    IN  /\ j \notin DOMAIN store
        /\ Edit(MaintainedStore([i \in DOMAIN store \cup {j} |->
                  IF i = j THEN row ELSE store[i]], FALSE), written)
        /\ UNCHANGED work

\* remove
Remove(j, written) ==
    LET store == Loaded(current)
    IN  /\ j \in DOMAIN store
        /\ Edit(MaintainedStore(Remaining(store, {j}), FALSE), written)
        /\ work' = IF written THEN Disowned({j}) ELSE work

BadPatched(j, row) ==
    IF row.enabled THEN [row EXCEPT !.next = ComputeJobNextRun(j, row, now)]
    ELSE [row EXCEPT !.running = None, !.runningAt = 0]

\* finalizeUpdatedJob, for a patch of enabled or of the time of a one-shot job:
\* a job that is disabled loses its mark.
Patched(j, row) ==
    IF row.enabled THEN [row EXCEPT !.next = ComputeJobNextRun(j, row, now)]
    ELSE [row EXCEPT !.next = 0, !.running = None, !.runningAt = 0]

\* update
Update(j, patch, written) ==
    LET store == Loaded(current)
        asked == IF patch = "toggle" THEN [store[j] EXCEPT !.enabled = ~@]
                 ELSE [store[j] EXCEPT !.at = now + 1]
    IN  /\ j \in DOMAIN store
        /\ patch = "reschedule" => j \in OneShot /\ store[j].at # now + 1
        /\ Edit([store EXCEPT ![j] = Patched(j, asked)], written)
        /\ work' = IF written /\ patch = "toggle" THEN Disowned({j}) ELSE work

\* status, list, readJob
Read(written) ==
    LET store == MaintainedStore(Loaded(current), FALSE)
    IN  /\ Free
        /\ store # Loaded(current) \/ (~svc[current].loaded /\ written)
        /\ Persist(current, store, written)
        /\ svc' = [svc EXCEPT ![current].loaded = TRUE]
        /\ UNCHANGED <<now, manual, work, marker, generation, lock, current, edits,
                       environment>>

-----------------------------------------------------------------------------
(* The gateway.                                                            *)

Fresh(phase) ==
    [phase |-> phase, loaded |-> FALSE, stopped |-> FALSE, timer |-> FALSE,
     tick |-> "idle", skip |-> {}, deferred |-> {}]

Stopped(s) == [svc EXCEPT ![s].stopped = TRUE, ![s].timer = FALSE]

\* A hot reload stops the service and starts the next one at once.
ReloadCron ==
    /\ environment.event = "reload" /\ current + 1 \in Services
    /\ svc' = [Stopped(current) EXCEPT ![current + 1] = Fresh("load")]
    /\ current' = current + 1
    /\ stale' = FALSE
    /\ UNCHANGED <<now, disk, mem, manual, work, marker, generation, lock, edits,
                   failures, environment>>

\* The server closes for a restart in the same process ...
CloseServer ==
    /\ environment.event = "restart" /\ current + 1 \in Services
    /\ ~svc[current].stopped
    /\ svc' = Stopped(current)
    /\ UNCHANGED <<now, disk, mem, manual, work, marker, generation, lock, current,
                   edits, failures, stale, environment>>

\* ... the executions of the old lifecycle are retired ...
AdvanceGeneration ==
    /\ environment.event = "restart"
    /\ svc[current].stopped /\ generation = 2 * (current - 1)
    /\ generation' = generation + 1
    /\ marker' = [j \in Jobs |->
         IF marker[j].generation < generation /\ j \notin environment.main
         THEN NoMarker ELSE marker[j]]
    /\ UNCHANGED <<now, disk, mem, svc, manual, work, lock, current, edits,
                   failures, stale, environment>>

\* ... and, whether or not they have ended, the next server starts.
NextServer ==
    /\ environment.event = "restart"
    /\ svc[current].stopped /\ generation = 2 * (current - 1) + 1
    /\ generation' = generation + 1
    /\ marker' = [j \in Jobs |-> NoMarker]
    /\ current' = current + 1
    /\ svc' = [svc EXCEPT ![current + 1] = Fresh("load")]
    /\ stale' = FALSE
    /\ UNCHANGED <<now, disk, mem, manual, work, lock, edits, failures, environment>>

\* The process dies and another one starts: only the store remains.
Crash ==
    /\ environment.event = "crash" /\ current + 1 \in Services
    /\ current' = current + 1
    /\ svc' = [svc EXCEPT ![current] = Fresh("new"), ![current + 1] = Fresh("load")]
    /\ mem' = [s \in Services |-> [j \in {} |-> {}]]
    /\ manual' = [m \in Manuals |->
         IF manual[m].phase = "idle" THEN manual[m] ELSE [NoRun EXCEPT !.phase = "done"]]
    /\ work' = [o \in Owners |-> [j \in Jobs |-> NoWork]]
    /\ marker' = [j \in Jobs |-> NoMarker]
    /\ lock' = None
    /\ stale' = FALSE
    /\ UNCHANGED <<now, disk, generation, edits, failures, environment>>

-----------------------------------------------------------------------------
Init ==
    /\ environment \in Environments
    /\ now = 1
    /\ disk = [j \in environment.jobs |->
         [enabled |-> TRUE, at |-> 2, next |-> IF j \in OneShot THEN 2 ELSE NextOfAnchor(1),
          running |-> None, runningAt |-> 0, lastRun |-> 0, lastEnd |-> 0,
          status |-> "none"]]
    \* the first service has not started yet, or start() has returned
    /\ mem = [s \in Services |-> IF s = 1 /\ environment.started THEN disk ELSE [j \in {} |-> {}]]
    /\ svc = [s \in Services |->
         IF s # 1 THEN Fresh("new")
         ELSE IF environment.started
              THEN [Fresh("up") EXCEPT !.loaded = TRUE, !.timer = environment.jobs # {}]
         ELSE Fresh("load")]
    /\ manual = [m \in Manuals |-> NoRun]
    /\ work = [o \in Owners |-> [j \in Jobs |-> NoWork]]
    /\ marker = [j \in Jobs |-> NoMarker]
    /\ generation = 0
    /\ lock = None
    /\ current = 1
    /\ edits = 0 /\ failures = 0 /\ stale = FALSE

TickSteps(s) ==
    \/ TimerFires(s)
    \/ \E written \in Writes :
         TickLoads(s, written) \/ TickReserves(s, written)
           \/ TickReleases(s, written) \/ TickFinalizes(s, written)
    \/ \E j \in Jobs : TickExecutes(s, j)

StartSteps(s) ==
    \/ \E written \in Writes :
         StartLoads(s, written) \/ StartPlans(s, written)
           \/ StartApplies(s, written) \/ StartArms(s, written)
    \/ \E j \in Jobs : StartExecutes(s, j)

RunSteps(m) ==
    \/ Preflight(m)
    \/ \E written \in Writes :
         PrepareRun(m, written) \/ RunReserved(m, written) \/ FinishRun(m, written)

UserSteps ==
    \/ \E m \in Manuals, j \in Jobs, forced \in BOOLEAN : AskRun(m, j, forced)
    \/ \E written \in Writes :
         \/ \E j \in Jobs :
              \/ Add(j, written)
              \/ Remove(j, written)
              \/ \E patch \in {"toggle", "reschedule"} : Update(j, patch, written)
         \/ Read(written)

GatewaySteps ==
    ReloadCron \/ CloseServer \/ AdvanceGeneration \/ NextServer \/ Crash

Next ==
    \/ \E o \in Owners, j \in Jobs, outcome \in environment.outcomes : ExecutionEnds(o, j, outcome)
    \/ Advance
    \/ \E s \in Services : TickSteps(s) \/ StartSteps(s)
    \/ \E m \in Manuals : RunSteps(m)
    \/ UserSteps
    \/ GatewaySteps

Spec == Init /\ [][Next]_vars

-----------------------------------------------------------------------------
(* Safety.                                                                 *)

\* A job is never executed twice at once, by whatever mix of ticks, startup
\* catch-up and manual runs, unless one of the two was let go.
NoOverlap ==
    \A j \in Jobs : \A o, p \in Owners :
      o # p /\ work[o][j].st = "executing" /\ work[p][j].st = "executing"
        => LetGo(o, j) \/ LetGo(p, j)

\* "Persist the running marker before releasing lock so timer ticks that
\* force-reload from disk cannot start the same job concurrently": the mark of
\* an execution stays in the store until its own outcome is recorded; neither
\* an execution that was let go nor a reservation given up takes it away.
MarkStands ==
    \A j \in Jobs : \A o \in Owners :
      work[o][j].st \in {"executing", "ended"} /\ IsCurrent(o, j) /\ ~LetGo(o, j)
        => j \in DOMAIN disk /\ disk[j].running = o

\* Operations trust the copy: it has the jobs and the definitions of the store
\* whenever no section is at work, although writes fail, unless the history
\* says that a service that was replaced wrote, or the scheduler could not.
CopyInSync ==
    Free /\ svc[current].loaded /\ ~stale =>
      /\ DOMAIN mem[current] = DOMAIN disk
      /\ \A j \in DOMAIN disk : /\ mem[current][j].enabled = disk[j].enabled
                                /\ mem[current][j].at = disk[j].at

\* A slot that has fallen due is not passed over: an enabled job stops being
\* due only if a run ended after the slot or is recorded now, an error holds
\* the job back, the startup catch-up puts it off, or the user edits it.  No
\* read, no tick and no other job's end takes the slot away.
NoSlotSkipped ==
    [][\A j \in DOMAIN disk :
         /\ j \in DOMAIN disk' /\ disk[j].enabled /\ disk'[j].enabled
         /\ Due(disk[j]) /\ ~(disk'[j].next # 0 /\ now' >= disk'[j].next)
         => \/ disk'[j].lastEnd >= disk[j].next
            \/ \E o \in Owners : work[o][j].st = "ended" /\ work'[o][j].st = "none"
            \/ IsErrorBackoffPending(j, disk[j])
            \/ \E s \in Services : j \in svc[s].deferred
            \/ edits' # edits \/ stale]_vars

\* An outcome of job j is recorded for which the code enables it.
RetriesDisabledHeartbeat(j) ==
    \E o \in Owners :
      /\ work[o][j].st = "ended" /\ work[o][j].outcome = "disabled"
      /\ work'[o][j].st = "none"

\* No outcome, catch-up or maintenance enables a job that the user disabled
\* while it was running, or brings back one that was removed; only a manual
\* run that outlives its service, whose copy is old, can.  There is one outcome
\* that does enable its job: heartbeats were disabled and a one-shot job of the
\* main session is to be tried again (timer.ts:814).
EditsStand ==
    [][\A j \in DOMAIN disk' :
         \/ j \notin DOMAIN disk
         \/ ~disk[j].enabled /\ disk'[j].enabled /\ ~RetriesDisabledHeartbeat(j)
         => \/ edits' # edits \/ stale
            \/ \E m \in Manuals : manual[m].phase = "running" /\ manual[m].service # current]_vars

-----------------------------------------------------------------------------
(* Liveness.                                                               *)

\* Timers fire, sections get the lock, executions end, time passes.
Fairness ==
    /\ WF_vars(Advance)
    /\ WF_vars(\E o \in Owners, j \in Jobs, outcome \in environment.outcomes :
                  ExecutionEnds(o, j, outcome))
    /\ \A s \in Services : WF_vars(TickSteps(s))
    /\ WF_vars(\/ \E s \in Services : StartSteps(s)
               \/ \E m \in Manuals : RunSteps(m)
               \/ AdvanceGeneration \/ NextServer)

FairSpec == Spec /\ Fairness

\* An enabled job whose slot has come does not stay due for ever: through
\* reloads, restarts and crashes, and whatever the executions of other jobs
\* do, some tick runs it, provided the store could always be written and no
\* manual run wrote it that outlived its service.
DueJobsRun ==
    \A j \in Jobs :
      (j \in DOMAIN disk /\ disk[j].enabled /\ Due(disk[j]))
        ~> \/ j \notin DOMAIN disk \/ ~disk[j].enabled \/ ~Due(disk[j])
           \/ failures > 0 \/ stale
=============================================================================
