--------------------------- MODULE HeartbeatRunner ---------------------------
(***************************************************************************)
(* The heartbeat runner: startHeartbeatRunner of                           *)
(* src/src/infra/heartbeat-runner.ts (l. 2386-2870), with the cooldown     *)
(* gate of heartbeat-cooldown.ts and the schedule of heartbeat-schedule.ts,*)
(* on top of the wake layer of HeartbeatWake.                              *)
(*                                                                         *)
(* A runner keeps, for each agent, when its next heartbeat is due, when    *)
(* the last one started and when the recent ones did.  Its own timer asks  *)
(* the wake layer for a heartbeat of every agent when the first is due.    *)
(* The wake layer calls the runner back; the call decides for each agent   *)
(* whether to run or to defer, runs, records the runs and arms the timer   *)
(* again.                                                                  *)
(*                                                                         *)
(* Times are kept relative to now, in ticks, and stop counting where the   *)
(* code no longer tells them apart.  What a run does is left out           *)
(* (runHeartbeatOnce): it is over, or its runtime was busy.  Agents have   *)
(* no active hours, which only move slots to later ones.                   *)
(***************************************************************************)
EXTENDS HeartbeatWake

CONSTANTS
    Agents,             \* agents that can have heartbeats
    Everyone,           \* the target of a wake of every agent
    Interval,           \* the heartbeat interval of each agent, in ticks
    Phase,              \* the phase of each agent in the interval
    MinSpacing,         \* DEFAULT_MIN_WAKE_SPACING_MS
    FloodWindow,        \* DEFAULT_FLOOD_WINDOW_MS
    FloodThreshold,     \* DEFAULT_FLOOD_THRESHOLD
    Never,              \* the agent did not run yet
    MaxRequests,        \* bound: wakes requested by other producers
    MaxToggles,         \* bound: heartbeats are disabled or enabled
    MaxReloads          \* bound: changes of the configuration

ASSUME RunnerAssumption ==
    /\ Targets = Agents \cup {Everyone}
    /\ Everyone \notin Agents
    /\ IsFiniteSet(Agents)
    \* The wakes that the runner's own timer requests
    /\ "scheduled" \in Intents
    /\ 0 \in Delays
    /\ NoTimer \notin Nat
    /\ Interval \in Nat \ {0}
    /\ Phase \in [Agents -> 0 .. Interval - 1]
    /\ MinSpacing \in Nat
    /\ FloodWindow \in Nat \ {0}
    /\ FloodThreshold \in Nat \ {0}
    /\ MaxRequests \in Nat
    /\ MaxToggles \in Nat
    /\ MaxReloads \in Nat

VARIABLES
    enabled,            \* heartbeatsEnabled, which set-heartbeats changes
    clock,              \* the position of now in the interval
    ticker,             \* for each runner, the ticks left of its own timer
    agents,             \* for each runner, the state of the agents it serves
    calls,              \* what each batch's call of its runner is about to do
    runs,               \* the agent runs in flight
    starts,             \* history: how long ago recorded runs of an agent began
    requests, toggles, reloads

runnerVars == <<enabled, clock, ticker, agents, calls, runs, starts, requests, toggles,
                reloads>>

allVars == <<vars, runnerVars>>

\* Longer ago than this is not told apart.
MaxAge == Max({Interval, MinSpacing, FloodWindow + 1})

\* due: ticks until nextDueMs, 0 once it passed; last: ticks since
\* lastRunStartedAtMs; recent: the same for recentRunStarts.
AgentState == [due : 0 .. MaxAge, last : 0 .. MaxAge \cup {Never}, recent : Seq(0 .. MaxAge)]

\* rearm: the call got as far as the finally block; busy: a run was skipped
\* because its runtime was busy.
Call == [rearm : BOOLEAN, busy : BOOLEAN]

\* A run knows the runner, the batch that waits for it (0 if none does any
\* more), the position and the time of the call's start and its intent.
\* holds tells whether the agent state it will write to is still the one of
\* the runner, was replaced by an update of the configuration that kept the
\* array of recent runs, or is out of use.
Run == [runner : Nat \ {0}, agent : Agents, batch : Nat, intent : Intents,
        everyone : BOOLEAN, position : 0 .. Interval - 1, age : 0 .. MaxAge,
        holds : {"current", "replaced", "gone"}, phase : {"main", "commitments"}]

RunnerTypeOK ==
    /\ TypeOK
    /\ enabled \in BOOLEAN
    /\ clock \in 0 .. Interval - 1
    /\ ticker \in Seq(0 .. MaxAge \cup {NoTimer})
    /\ Len(ticker) = Len(registered)
    /\ DOMAIN agents = DOMAIN registered
    /\ \A r \in DOMAIN agents :
         /\ DOMAIN agents[r] \subseteq Agents
         /\ \A a \in DOMAIN agents[r] :
              /\ agents[r][a] \in AgentState
              /\ Len(agents[r][a].recent) <= FloodThreshold + 1
    /\ calls \in Seq(Call)
    /\ Len(calls) = Len(batches)
    /\ runs \in Seq(Run)
    /\ \A k \in DOMAIN runs : /\ runs[k].runner \in DOMAIN registered
                              /\ runs[k].batch \in 0 .. Len(batches)
    /\ starts \in [Agents -> Seq(0 .. MaxAge)]
    /\ requests \in 0 .. MaxRequests
    /\ toggles \in 0 .. MaxToggles
    /\ reloads \in 0 .. MaxReloads

RunnerInit ==
    /\ Init
    /\ enabled = TRUE
    /\ clock = 0
    /\ ticker = << >>
    /\ agents = << >>
    /\ calls = << >>
    /\ runs = << >>
    /\ starts = [a \in Agents |-> << >>]
    /\ requests = 0
    /\ toggles = 0
    /\ reloads = 0

-----------------------------------------------------------------------------
(* Times.                                                                  *)

Older(age) == IF age < MaxAge THEN age + 1 ELSE age

Sooner(left) == IF left > 0 THEN left - 1 ELSE 0

\* computeNextHeartbeatPhaseDueMs: ticks from a position in the interval to
\* the agent's next slot, never zero.
NextSlot(a, position) ==
    LET delta == (Phase[a] + Interval - position) % Interval
    IN  IF delta = 0 THEN Interval ELSE delta

\* The ticks left of a delay that began some time ago
Left(delay, age) == IF delay > age THEN delay - age ELSE 0

\* advanceAgentSchedule, for a call that began at this position: an interval
\* tick goes to the next slot, anything else to a full interval later.
NextDue(a, intent, position, age) ==
    Left(IF intent = "scheduled" THEN NextSlot(a, position) ELSE Interval, age)

-----------------------------------------------------------------------------
(* The cooldown gate.                                                      *)

BadFlooded(s) ==
    /\ Len(s.recent) > FloodThreshold
    /\ \A i \in Len(s.recent) - FloodThreshold + 1 .. Len(s.recent) :
         s.recent[i] <= FloodWindow

\* checkFloodGuard: the newest FloodThreshold starts are all in the window.
Flooded(s) ==
    /\ Len(s.recent) >= FloodThreshold
    /\ \A i \in Len(s.recent) - FloodThreshold + 1 .. Len(s.recent) :
         s.recent[i] <= FloodWindow

NotDue(s, intent) ==
    /\ s.due > 0
    /\ intent = "scheduled" \/ (intent = "event" /\ s.last # Never)

TooClose(s, intent) == intent = "event" /\ s.last # Never /\ s.last < MinSpacing

\* shouldDeferWake
Deferred(s, intent) ==
    intent # "manual" /\ (Flooded(s) \/ NotDue(s, intent) \/ TooClose(s, intent))

\* advanceStaleScheduleAfterDeferral moves a slot that has passed.
AfterDeferral(a, s, intent) ==
    IF s.due > 0 THEN s ELSE [s EXCEPT !.due = NextDue(a, intent, clock, 0)]

\* recordRunStart keeps the newest FloodThreshold + 1.
Recorded(recent, age) ==
    LET all == Append(recent, age)
    IN  SubSeq(all, Max({1, Len(all) - FloodThreshold}), Len(all))

Fresh(a) == [due |-> NextSlot(a, clock), last |-> Never, recent |-> << >>]

\* scheduleNext: when the first agent is due, if the runner serves any.
NextTicker(r, served) ==
    IF r \in stopped \/ DOMAIN served = {} THEN NoTimer
    ELSE Min({served[a].due : a \in DOMAIN served})

-----------------------------------------------------------------------------
(* The runner's life, its timer and its configuration.                     *)

\* startHeartbeatRunner registers the handler and takes the configuration.
StartRunner(served) ==
    /\ SetHandler
    /\ agents' = Append(agents, [a \in served |-> Fresh(a)])
    /\ ticker' = Append(ticker, NextTicker(Len(registered) + 1, [a \in served |-> Fresh(a)]))
    /\ UNCHANGED <<enabled, clock, calls, runs, starts, requests, toggles, reloads>>

\* cleanup
StopRunner(r) ==
    /\ Dispose(r)
    /\ ticker' = [ticker EXCEPT ![r] = NoTimer]
    /\ UNCHANGED <<enabled, clock, agents, calls, runs, starts, requests, toggles, reloads>>

\* The slot of an agent that was served before, unless it passed
KeptSlot(a, s) == IF s.due > 0 THEN s ELSE [s EXCEPT !.due = NextSlot(a, clock)]

\* updateConfig makes a new state for every agent, also for the ones a run in
\* flight holds the old state of.
UpdateConfig(r, served) ==
    LET new == [a \in served |-> IF a \in DOMAIN agents[r] THEN KeptSlot(a, agents[r][a])
                                 ELSE Fresh(a)]
    IN  /\ r \notin stopped
        /\ reloads < MaxReloads
        /\ reloads' = reloads + 1
        /\ agents' = [agents EXCEPT ![r] = new]
        /\ ticker' = [ticker EXCEPT ![r] = NextTicker(r, new)]
        /\ runs' = [k \in DOMAIN runs |->
                      IF runs[k].runner # r THEN runs[k]
                      ELSE [runs[k] EXCEPT !.holds =
                              IF @ # "gone" /\ runs[k].agent \in served THEN "replaced"
                              ELSE "gone"]]
        /\ UNCHANGED <<vars, enabled, clock, calls, starts, requests, toggles>>

SetHeartbeatsEnabled ==
    /\ toggles < MaxToggles
    /\ toggles' = toggles + 1
    /\ enabled' = ~enabled
    /\ UNCHANGED <<vars, clock, ticker, agents, calls, runs, starts, requests, reloads>>

TickerFires(r) ==
    /\ ticker[r] = 0
    /\ ticker' = [ticker EXCEPT ![r] = NoTimer]
    /\ RequestHeartbeat([target |-> Everyone, intent |-> "scheduled"], 0)
    /\ UNCHANGED <<enabled, clock, agents, calls, runs, starts, requests, toggles, reloads>>

\* Any other producer
Produce(w, delay) ==
    /\ w.intent # "scheduled"
    /\ requests < MaxRequests
    /\ requests' = requests + 1
    /\ RequestHeartbeat(w, delay)
    /\ UNCHANGED <<enabled, clock, ticker, agents, calls, runs, starts, toggles, reloads>>

RunnerTimePasses ==
    /\ TimePasses
    /\ clock' = (clock + 1) % Interval
    /\ ticker' = [r \in DOMAIN ticker |->
                    IF ticker[r] = NoTimer THEN NoTimer ELSE Sooner(ticker[r])]
    /\ agents' = [r \in DOMAIN agents |-> [a \in DOMAIN agents[r] |->
                    LET s == agents[r][a]
                    IN  [due |-> Sooner(s.due),
                         last |-> IF s.last = Never THEN Never ELSE Older(s.last),
                         recent |-> [i \in DOMAIN s.recent |-> Older(s.recent[i])]]]]
    /\ runs' = [k \in DOMAIN runs |-> [runs[k] EXCEPT !.age = Older(@)]]
    /\ starts' = [a \in Agents |-> [i \in DOMAIN starts[a] |-> Older(starts[a][i])]]
    /\ UNCHANGED <<enabled, calls, requests, toggles, reloads>>

-----------------------------------------------------------------------------
(* A call of the runner with wake w.  Up to its first await it belongs to  *)
(* the step of the wake layer that makes the call.                         *)

\* The early returns of run(), ahead of the try block
Refused(r) == r \in stopped \/ ~enabled \/ DOMAIN agents[r] = {}

\* The agents the wake is for
Called(r, w) ==
    IF Refused(r) THEN {}
    ELSE IF w.target = Everyone THEN DOMAIN agents[r] ELSE {w.target} \cap DOMAIN agents[r]

Admitted(r, w) == {a \in Called(r, w) : ~Deferred(agents[r][a], w.intent)}

AfterGate(r, w) ==
    [a \in DOMAIN agents[r] |->
       IF a \in Called(r, w) \ Admitted(r, w) THEN AfterDeferral(a, agents[r][a], w.intent)
       ELSE agents[r][a]]

\* The runs the call starts, on behalf of batch n
NewRuns(r, w, n) ==
    SetToSeq({[runner |-> r, agent |-> a, batch |-> n, intent |-> w.intent,
               everyone |-> w.target = Everyone, position |-> clock, age |-> 0,
               holds |-> "current", phase |-> "main"] : a \in Admitted(r, w)})

NewCall(r) == [rearm |-> ~Refused(r), busy |-> FALSE]

StartBatchCall ==
    /\ StartBatch
    /\ calls' = Append(calls, NewCall(handler))
    /\ runs' = runs \o NewRuns(handler, pending[1], Len(batches) + 1)
    /\ agents' = [agents EXCEPT ![handler] = AfterGate(handler, pending[1])]
    /\ UNCHANGED <<enabled, clock, ticker, starts, requests, toggles, reloads>>

OtherTimerFires ==
    /\ FiresUnhandled \/ FiresWhileRunning
    /\ UNCHANGED runnerVars

\* The runs once batch n is gone: nobody waits for its runs any more.
Unbound(rs, n) ==
    [k \in DOMAIN rs |->
       [rs[k] EXCEPT !.batch = IF @ = n THEN 0 ELSE IF @ > n THEN @ - 1 ELSE @]]

\* The call of batch n will answer that it was busy, if anybody waits for it.
MarkBusy(n) == IF n = 0 THEN calls ELSE [calls EXCEPT ![n].busy = TRUE]

\* The runtime of the agent, or of one of its commitments, was busy.
RunBusy(k) ==
    /\ calls' = MarkBusy(runs[k].batch)
    /\ runs' = RemoveAt(runs, k)
    /\ UNCHANGED <<vars, enabled, clock, ticker, agents, starts, requests, toggles, reloads>>

BadAfterRun(run, s) == [s EXCEPT !.recent = Recorded(@, run.age)]

\* What the end of a run leaves of the agent's state s
AfterRun(run, s) ==
    CASE run.holds = "current" ->
           [due |-> NextDue(run.agent, run.intent, run.position, run.age), last |-> run.age,
            recent |-> Recorded(s.recent, run.age)]
      [] run.holds = "replaced" -> [s EXCEPT !.recent = Recorded(@, run.age)]

\* recordRunBookkeeping and advanceAgentSchedule, for a run that was not busy;
\* a wake of everyone goes on to the agent's commitments, if any are due.
RunOver(k) ==
    LET run == runs[k]
    IN  /\ run.phase = "main"
        /\ agents' = IF run.holds = "gone" THEN agents
                     ELSE [agents EXCEPT ![run.runner][run.agent] = AfterRun(run, @)]
        /\ starts' = [starts EXCEPT ![run.agent] = Recorded(@, run.age)]
        /\ \/ runs' = RemoveAt(runs, k)
           \/ run.everyone /\ runs' = [runs EXCEPT ![k].phase = "commitments"]
        /\ UNCHANGED <<vars, enabled, clock, ticker, calls, requests, toggles, reloads>>

CommitmentsOver(k) ==
    /\ runs[k].phase = "commitments"
    /\ runs' = RemoveAt(runs, k)
    /\ UNCHANGED <<vars, enabled, clock, ticker, agents, calls, starts, requests, toggles,
                   reloads>>

\* The store of commitments fails, and with it the call; the runs of the
\* other agents go on.
CommitmentsFail(k) ==
    LET n == runs[k].batch r == runs[k].runner
    IN  /\ runs[k].phase = "commitments"
        /\ n # 0
        /\ HandlerThrows(n)
        /\ runs' = Unbound(RemoveAt(runs, k), n)
        /\ calls' = RemoveAt(calls, n)
        /\ ticker' = [ticker EXCEPT ![r] = NextTicker(r, agents[r])]
        /\ UNCHANGED <<enabled, clock, agents, starts, requests, toggles, reloads>>

BadRearms(c) == c.rearm /\ c.busy

\* The finally block leaves a busy call to the retry of the wake layer.
Rearms(c) == c.rearm /\ ~c.busy

\* Every run of the call ended: the finally block, the answer, and the next
\* call of the batch.
CallEnds(n) ==
    LET b == batches[n] r == b.handler c == calls[n]
    IN  /\ \A k \in DOMAIN runs : runs[k].batch # n
        /\ IF c.busy THEN HandlerBusy(n) ELSE HandlerDone(n)
        /\ ticker' = IF Rearms(c) THEN [ticker EXCEPT ![r] = NextTicker(r, agents[r])]
                     ELSE ticker
        /\ IF b.at = Len(b.wakes)
           THEN /\ calls' = RemoveAt(calls, n)
                /\ runs' = Unbound(runs, n)
                /\ UNCHANGED agents
           ELSE /\ calls' = [calls EXCEPT ![n] = NewCall(r)]
                /\ runs' = runs \o NewRuns(r, b.wakes[b.at + 1], n)
                /\ agents' = [agents EXCEPT ![r] = AfterGate(r, b.wakes[b.at + 1])]
        /\ UNCHANGED <<enabled, clock, starts, requests, toggles, reloads>>

RunnerNext ==
    \/ \E served \in SUBSET Agents : StartRunner(served)
    \/ \E r \in DOMAIN registered :
         \/ StopRunner(r)
         \/ TickerFires(r)
         \/ \E served \in SUBSET Agents : UpdateConfig(r, served)
    \/ SetHeartbeatsEnabled
    \/ \E w \in Wake, d \in Delays : Produce(w, d)
    \/ RunnerTimePasses
    \/ StartBatchCall
    \/ OtherTimerFires
    \/ \E k \in DOMAIN runs :
         RunBusy(k) \/ RunOver(k) \/ CommitmentsOver(k) \/ CommitmentsFail(k)
    \/ \E n \in DOMAIN batches : CallEnds(n)

RunnerSpec == RunnerInit /\ [][RunnerNext]_allVars

-----------------------------------------------------------------------------
(* Safety.                                                                 *)

\* The heartbeats of a runner never stop by themselves: its timer is armed,
\* or a wake or a call is under way that ends by arming it.
TickerAlive ==
    \A r \in DOMAIN registered \ stopped :
      r = handler /\ enabled /\ DOMAIN agents[r] # {}
        => \/ ticker[r] # NoTimer
           \/ pending # << >>
           \/ \E n \in DOMAIN batches :
                /\ batches[n].handler = r
                /\ calls[n].rearm \/ batches[n].at < Len(batches[n].wakes)

\* The runs a step starts
Begun == {runs'[k] : k \in Len(runs) + 1 .. Len(runs')}

\* "Everything else respects nextDueMs, the min-spacing floor ...": an event
\* does not run an agent sooner than MinSpacing after the start of a run of
\* it.  The code does not keep this: a run that outlived its call is recorded
\* after a later one, and the state of the agent goes back to its start.
SpacingHeld ==
    [][\A run \in Begun : run.intent = "event" =>
         \A i \in DOMAIN starts[run.agent] : starts[run.agent][i] >= MinSpacing]_allVars

\* A run that began earlier was recorded after the i-th one.
Overtaken(a, i) ==
    \E j \in i + 1 .. Len(starts[a]) : starts[a][j] > starts[a][i]

\* One runner serves the agents, with the configuration it started with: a
\* runner that replaces another one, and one whose configuration changed, do
\* not know of every start.
KnowsStarts == Len(registered) = 1 /\ reloads = 0

\* What the code keeps of it, as long as the runner knows of the starts: the
\* spacing from every start that no earlier start was recorded after.
SpacingHeldInOrder ==
    [][\A run \in Begun : run.intent = "event" /\ KnowsStarts =>
         \A i \in DOMAIN starts[run.agent] :
           starts[run.agent][i] >= MinSpacing \/ Overtaken(run.agent, i)]_allVars

\* "... and the flood guard": unless an operator asks for it, an agent whose
\* starts the runner knows of, and which were recorded in order, does not
\* start more than FloodThreshold runs in any window.
FloodHeld ==
    [][\A run \in Begun :
         /\ run.intent # "manual"
         /\ KnowsStarts
         /\ \A i \in DOMAIN starts[run.agent] : ~Overtaken(run.agent, i)
         => Cardinality({i \in DOMAIN starts[run.agent] :
                          starts[run.agent][i] <= FloodWindow}) < FloodThreshold]_allVars

=============================================================================
