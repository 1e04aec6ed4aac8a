---------------------------- MODULE CommandQueue ----------------------------
(***************************************************************************)
(* The in-process command queue: src/src/process/command-queue.ts.         *)
(*                                                                         *)
(* A lane is a priority queue of commands and a set of slots.  A command   *)
(* enters with enqueueCommandInLane, is started by the pump of its lane    *)
(* when a slot is free, runs as a promise raced against an optional lane   *)
(* timeout, and gives its slot back in a continuation that runs after the  *)
(* race is decided.  Lanes can be cleared, resized, and reset to idle      *)
(* under running commands, whose late continuations carry the generation   *)
(* they were started in.                                                   *)
(*                                                                         *)
(* JavaScript runs one handler at a time, so a handler is one action.      *)
(* The pump is always called from such a handler and runs to its end, so   *)
(* "draining" is FALSE between actions and is not a variable.  What does   *)
(* interleave is the settling of a task, the firing of its timer and the   *)
(* continuation that observes the winner.                                  *)
(*                                                                         *)
(* A task id is drawn from nextTaskId when an entry starts.  An entry      *)
(* starts at most once (NoCommandLost), so the entry stands for its id.    *)
(***************************************************************************)
EXTENDS Integers, Sequences, FiniteSets, SequencesExt

CONSTANTS
    Lanes,          \* lane names that getLaneState has created
    Main,           \* CommandLane.Main, the lane of a blank name
    ProbeLanes,     \* the "auth-probe:" and "session:probe-" lanes
    Entries,        \* the commands that callers may enqueue
    TimedEntries,   \* the commands enqueued with a usable taskTimeoutMs
    Waiters,        \* the calls of waitForActiveTasks
    Priorities,     \* the priorities that callers use
    Limits,         \* arguments of setCommandLaneConcurrency
    MaxGeneration   \* bound: a lane is reset at most this many times

ASSUME ConstantsAssumption ==
    /\ IsFiniteSet(Entries)
    /\ Main \in Lanes
    /\ ProbeLanes \subseteq Lanes
    /\ TimedEntries \subseteq Entries
    /\ Priorities \subseteq -1 .. 1
    /\ Limits \subseteq Int
    /\ MaxGeneration \in Nat

VARIABLES
    entry,              \* what is known of each command
    queue,              \* queue[l]: the commands waiting in lane l
    activeTaskIds,      \* activeTaskIds[l]: the commands holding a slot of l
    maxConcurrent,      \* maxConcurrent[l]: how many slots l has
    generation,         \* generation[l]: how often l was reset
    gatewayDraining,    \* new commands are refused
    nextQueueSequence,  \* drawn by every accepted command
    waiter              \* the promises of waitForActiveTasks

vars == <<entry, queue, activeTaskIds, maxConcurrent, generation,
          gatewayDraining, nextQueueSequence, waiter>>

-----------------------------------------------------------------------------
(* Data.                                                                   *)

\* resolveQueuePriority: foreground, normal (the default), background
Foreground == 1
Normal == 0
Background == -1
Priority == Background .. Foreground

\* Where the queue entry is: not enqueued, in its lane's queue, holding a
\* task id whose continuation has not run, or finished with.
Status == {"new", "queued", "running", "left"}

\* The timer of runQueueEntryTask.  "progress" is renewed by progress, and
\* listens to both signals; "grace" follows an abort; "deaf" is the grace
\* period of a command that was aborted before it started, whose executor
\* returned before it subscribed to the release signal.
Timer == {"off", "progress", "grace", "deaf"}

\* The winner of Promise.race([taskPromise, timeoutPromise])
Race == {"open", "value", "error", "timeout"}

\* What the task itself does, whoever still waits for it
Body == {"idle", "executing", "finished"}

\* The promise enqueueCommandInLane gave its caller
Answer == {"none", "pending", "value", "error", "timeout", "cleared", "refused"}

Entry == [status : Status, lane : Lanes, priority : Priority, sequence : Nat,
          taskGeneration : Nat, timer : Timer, race : Race, body : Body,
          answer : Answer, aborted : BOOLEAN, released : BOOLEAN]

Waiter == [state : {"idle", "waiting", "drained", "timedOut"},
           ids : SUBSET Entries, timed : BOOLEAN]

TypeOK ==
    /\ entry \in [Entries -> Entry]
    /\ queue \in [Lanes -> Seq(Entries)]
    /\ activeTaskIds \in [Lanes -> SUBSET Entries]
    /\ maxConcurrent \in [Lanes -> Nat]
    /\ generation \in [Lanes -> Nat]
    /\ gatewayDraining \in BOOLEAN
    /\ nextQueueSequence \in Nat \ {0}
    /\ waiter \in [Waiters -> Waiter]

\* No command was enqueued; the lanes are as getLaneState creates them.
Fresh == [status |-> "new", lane |-> Main, priority |-> Normal, sequence |-> 0,
          taskGeneration |-> 0, timer |-> "off", race |-> "open",
          body |-> "idle", answer |-> "none", aborted |-> FALSE,
          released |-> FALSE]

Init ==
    /\ entry = [e \in Entries |-> Fresh]
    /\ queue = [l \in Lanes |-> <<>>]
    /\ activeTaskIds = [l \in Lanes |-> {}]
    /\ maxConcurrent = [l \in Lanes |-> 1]
    /\ generation = [l \in Lanes |-> 0]
    /\ gatewayDraining = FALSE
    /\ nextQueueSequence = 1
    /\ waiter = [w \in Waiters |->
                   [state |-> "idle", ids |-> {}, timed |-> FALSE]]

-----------------------------------------------------------------------------
(* Operators of the handlers.  Their arguments are the tables as the       *)
(* calling handler has changed them so far.                                *)

\* Operators named Bad... are faults that a property must notice; the
\* specification does not use them.

\* The QueueEntry that enqueueCommandInLane makes
Enqueued(d, l, p, sequence) ==
    [d EXCEPT !.status = "queued", !.lane = l, !.priority = p,
              !.sequence = sequence, !.answer = "pending"]

\* enqueueLaneEntry looks for the first queued command that must yield to
\* the new one.  Sequence numbers only grow, but the code compares them.
BadYieldsTo(d, new) == d.priority <= new.priority

YieldsTo(d, new) ==
    \/ d.priority < new.priority
    \/ d.priority = new.priority /\ d.sequence > new.sequence

BadAppendsAlways(ents, q, e) == Append(q, e)

BadSpliceCount(ents, q, e) ==
    LET at == SelectInSeq(q, LAMBDA d : YieldsTo(ents[d], ents[e]))
    IN  IF at = 0 THEN Append(q, e) ELSE ReplaceAt(q, at, e)

\* The queue q with the command e, described by ents[e], in its place
EnqueueLaneEntry(ents, q, e) ==
    LET at == SelectInSeq(q, LAMBDA d : YieldsTo(ents[d], ents[e]))
    IN  IF at = 0 THEN Append(q, e) ELSE InsertAt(q, at, e)

BadStartsOneOnly(q, active, limit) ==
    IF q # <<>> /\ Cardinality(active) < limit THEN 1 ELSE 0

\* How many commands the loop of pump() shifts off q when the commands of
\* active hold slots and the lane has limit of them
Startable(q, active, limit) ==
    LET room == limit - Cardinality(active)
    IN  IF room <= 0 THEN 0 ELSE IF room < Len(q) THEN room ELSE Len(q)

BadForgetsGeneration(d, e, gen) ==
    [d EXCEPT !.status = "running", !.body = "executing",
              !.timer = IF e \in TimedEntries THEN "progress" ELSE "off"]

BadTimesEveryTask(d, e, gen) ==
    [d EXCEPT !.status = "running", !.body = "executing",
              !.taskGeneration = gen, !.timer = "progress"]

\* A command that pump() shifts off its queue: its promise race begins.
Started(d, e, gen) ==
    LET armed == IF e \notin TimedEntries THEN "off"
                 ELSE IF d.aborted THEN "deaf" ELSE "progress"
    IN  [d EXCEPT !.status = "running", !.body = "executing",
                  !.taskGeneration = gen, !.timer = armed,
                  !.race = IF e \in TimedEntries /\ d.released
                           THEN "timeout" ELSE "open"]

\* drainLane for each of the lanes ls
Drain(ls, ents, q, active, limit, gen) ==
    LET n == [l \in Lanes |->
                IF l \in ls THEN Startable(q[l], active[l], limit[l]) ELSE 0]
        heads == [l \in Lanes |-> ToSet(SubSeq(q[l], 1, n[l]))]
    IN  /\ queue' = [l \in Lanes |-> SubSeq(q[l], n[l] + 1, Len(q[l]))]
        /\ activeTaskIds' = [l \in Lanes |-> active[l] \cup heads[l]]
        /\ entry' = [e \in Entries |->
                       IF \E l \in Lanes : e \in heads[l]
                       THEN Started(ents[e], e, gen[ents[e].lane])
                       ELSE ents[e]]

BadWaitsForAllTasks(active) ==
    [w \in Waiters |->
       IF waiter[w].state = "waiting" /\ \A l \in Lanes : active[l] = {}
       THEN [waiter[w] EXCEPT !.state = "drained"]
       ELSE waiter[w]]

BadWaitsForOneLane(active) ==
    [w \in Waiters |->
       IF waiter[w].state = "waiting"
          /\ \E l \in Lanes : waiter[w].ids \cap active[l] = {}
       THEN [waiter[w] EXCEPT !.state = "drained"]
       ELSE waiter[w]]

\* notifyActiveTaskWaiters: the waiters none of whose tasks is in active
Notified(active) ==
    [w \in Waiters |->
       IF waiter[w].state = "waiting"
          /\ \A l \in Lanes : waiter[w].ids \cap active[l] = {}
       THEN [waiter[w] EXCEPT !.state = "drained"]
       ELSE waiter[w]]

-----------------------------------------------------------------------------
(* The functions of the module that callers use.                           *)

\* A caller that gets GatewayDrainingError
Refused(d) == [d EXCEPT !.answer = "refused"]

\* enqueueCommandInLane
EnqueueCommandInLane(e, l, p) ==
    /\ entry[e].status = "new"
    /\ entry[e].answer = "none"
    /\ IF gatewayDraining
       THEN /\ entry' = [entry EXCEPT ![e] = Refused(@)]
            /\ UNCHANGED <<queue, activeTaskIds, nextQueueSequence>>
       ELSE LET ents == [entry EXCEPT ![e] = Enqueued(@, l, p, nextQueueSequence)]
                q == [queue EXCEPT ![l] = EnqueueLaneEntry(ents, queue[l], e)]
            IN  /\ nextQueueSequence' = nextQueueSequence + 1
                /\ Drain({l}, ents, q, activeTaskIds, maxConcurrent, generation)
    /\ UNCHANGED <<maxConcurrent, generation, gatewayDraining, waiter>>

BadLimit(l, n) == n

\* The limit that setCommandLaneConcurrency stores for n: a probe lane keeps
\* one slot, any other lane may be suspended.
EffectiveLimit(l, n) ==
    LET floor == IF l \in ProbeLanes THEN 1 ELSE 0
    IN  IF n < floor THEN floor ELSE n

\* setCommandLaneConcurrency
SetCommandLaneConcurrency(l, n) ==
    LET limit == EffectiveLimit(l, n)
    IN  /\ maxConcurrent' = [maxConcurrent EXCEPT ![l] = limit]
        /\ Drain(IF limit > 0 THEN {l} ELSE {},
                 entry, queue, activeTaskIds, maxConcurrent', generation)
        /\ UNCHANGED <<generation, gatewayDraining, nextQueueSequence, waiter>>

\* A caller that gets CommandLaneClearedError
Cleared(d) == [d EXCEPT !.status = "left", !.answer = "cleared"]

\* clearCommandLane rejects what is queued and leaves what runs alone.
ClearCommandLane(l) ==
    /\ queue[l] # <<>>
    /\ queue' = [queue EXCEPT ![l] = <<>>]
    /\ entry' = [e \in Entries |->
                   IF e \in ToSet(queue[l])
                   THEN Cleared(entry[e]) ELSE entry[e]]
    /\ UNCHANGED <<activeTaskIds, maxConcurrent, generation, gatewayDraining,
                   nextQueueSequence, waiter>>

\* resetCommandLane: the recovery of a stuck lane
ResetCommandLane(l) ==
    LET active == [activeTaskIds EXCEPT ![l] = {}]
        gen == [generation EXCEPT ![l] = @ + 1]
    IN  /\ generation[l] < MaxGeneration
        /\ generation' = gen
        /\ Drain({l}, entry, queue, active, maxConcurrent, gen)
        /\ waiter' = Notified(activeTaskIds')
        /\ UNCHANGED <<maxConcurrent, gatewayDraining, nextQueueSequence>>

\* resetAllLanes: the start of the next in-process gateway iteration
ResetAllLanes ==
    LET active == [l \in Lanes |-> {}]
        gen == [l \in Lanes |-> generation[l] + 1]
    IN  /\ \A l \in Lanes : generation[l] < MaxGeneration
        /\ generation' = gen
        /\ gatewayDraining' = FALSE
        /\ Drain(Lanes, entry, queue, active, maxConcurrent, gen)
        /\ waiter' = Notified(activeTaskIds')
        /\ UNCHANGED <<maxConcurrent, nextQueueSequence>>

\* markGatewayDraining
MarkGatewayDraining ==
    /\ ~gatewayDraining
    /\ gatewayDraining' = TRUE
    /\ UNCHANGED <<entry, queue, activeTaskIds, maxConcurrent, generation,
                   nextQueueSequence, waiter>>

\* waitForActiveTasks(timeoutMs), where timeoutMs is undefined ("never"),
\* not positive ("now") or positive ("later")
WaitForActiveTasks(w, timeout) ==
    LET ids == UNION {activeTaskIds[l] : l \in Lanes}
    IN  /\ waiter[w].state = "idle"
        /\ waiter' = [waiter EXCEPT ![w] =
             [ids |-> ids, timed |-> timeout = "later",
              state |-> IF ids = {} THEN "drained"
                        ELSE IF timeout = "now" THEN "timedOut"
                        ELSE "waiting"]]
        /\ UNCHANGED <<entry, queue, activeTaskIds, maxConcurrent, generation,
                       gatewayDraining, nextQueueSequence>>

-----------------------------------------------------------------------------
(* What happens to a command by itself.                                    *)

Settled(d, outcome) ==
    [d EXCEPT !.body = "finished",
              !.race = IF @ = "open" THEN outcome ELSE @]

TimedOut(d) == [d EXCEPT !.race = "timeout"]

Aborted(d) ==
    [d EXCEPT !.aborted = TRUE,
              !.timer = IF @ = "progress" THEN "grace" ELSE @]

\* Only "progress" and "grace" listen to the release signal.
Released(d) ==
    [d EXCEPT !.released = TRUE,
              !.race = IF d.timer \in {"progress", "grace"} /\ @ = "open"
                       THEN "timeout" ELSE @]

\* The task's promise settles.  It decides the race when it is still open.
TaskSettles(e, outcome) ==
    /\ entry[e].body = "executing"
    /\ entry' = [entry EXCEPT ![e] = Settled(@, outcome)]
    /\ UNCHANGED <<queue, activeTaskIds, maxConcurrent, generation,
                   gatewayDraining, nextQueueSequence, waiter>>

\* The armed timer finds no progress since it was armed, or the grace
\* period after an abort is over.
TaskTimesOut(e) ==
    /\ entry[e].status = "running"
    /\ entry[e].race = "open"
    /\ entry[e].timer # "off"
    /\ entry' = [entry EXCEPT ![e] = TimedOut(@)]
    /\ UNCHANGED <<queue, activeTaskIds, maxConcurrent, generation,
                   gatewayDraining, nextQueueSequence, waiter>>

\* The caller aborts taskTimeoutAbortSignal, before or during the run.
AbortTask(e) ==
    /\ e \in TimedEntries
    /\ ~entry[e].aborted
    /\ entry[e].status \in {"queued", "running"}
    /\ entry' = [entry EXCEPT ![e] = Aborted(@)]
    /\ UNCHANGED <<queue, activeTaskIds, maxConcurrent, generation,
                   gatewayDraining, nextQueueSequence, waiter>>

\* The caller aborts taskTimeoutReleaseSignal: whoever listens times out.
ReleaseTask(e) ==
    /\ e \in TimedEntries
    /\ ~entry[e].released
    /\ entry[e].status \in {"queued", "running"}
    /\ entry' = [entry EXCEPT ![e] = Released(@)]
    /\ UNCHANGED <<queue, activeTaskIds, maxConcurrent, generation,
                   gatewayDraining, nextQueueSequence, waiter>>

\* A command whose caller is told who won the race
Continued(d) == [d EXCEPT !.status = "left", !.answer = d.race]

\* The continuation in pump(), after the race: completeTask gives the slot
\* back if the lane was not reset since, and the caller gets its answer.
TaskContinues(e) ==
    LET l == entry[e].lane
        ents == [entry EXCEPT ![e] = Continued(@)]
        current == entry[e].taskGeneration = generation[l]
        active == [activeTaskIds EXCEPT ![l] = @ \ {e}]
    IN  /\ entry[e].status = "running"
        /\ entry[e].race # "open"
        /\ IF current
           THEN /\ waiter' = Notified(active)
                /\ Drain({l}, ents, queue, active, maxConcurrent, generation)
           ELSE /\ entry' = ents
                /\ UNCHANGED <<queue, activeTaskIds, waiter>>
        /\ UNCHANGED <<maxConcurrent, generation, gatewayDraining,
                       nextQueueSequence>>

\* The timer of waitForActiveTasks
WaitTimesOut(w) ==
    /\ waiter[w].state = "waiting"
    /\ waiter[w].timed
    /\ waiter' = [waiter EXCEPT ![w].state = "timedOut"]
    /\ UNCHANGED <<entry, queue, activeTaskIds, maxConcurrent, generation,
                   gatewayDraining, nextQueueSequence>>

Next ==
    \/ \E e \in Entries, l \in Lanes, p \in Priorities :
         EnqueueCommandInLane(e, l, p)
    \/ \E l \in Lanes, n \in Limits : SetCommandLaneConcurrency(l, n)
    \/ \E l \in Lanes : ClearCommandLane(l)
    \/ \E l \in Lanes : ResetCommandLane(l)
    \/ ResetAllLanes
    \/ MarkGatewayDraining
    \/ \E w \in Waiters, timeout \in {"never", "now", "later"} :
         WaitForActiveTasks(w, timeout)
    \/ \E e \in Entries, outcome \in {"value", "error"} :
         TaskSettles(e, outcome)
    \/ \E e \in Entries : TaskTimesOut(e)
    \/ \E e \in Entries : AbortTask(e)
    \/ \E e \in Entries : ReleaseTask(e)
    \/ \E e \in Entries : TaskContinues(e)
    \/ \E w \in Waiters : WaitTimesOut(w)

Spec == Init /\ [][Next]_vars

-----------------------------------------------------------------------------
(* Safety.                                                                 *)

\* The slots of a lane are held by exactly the runs of its current
\* generation whose continuation has not run: no completion frees a slot it
\* does not hold, no reset leaves one behind (completeTask, drainLane,
\* resetCommandLane, resetAllLanes).
SlotsMatchRuns ==
    \A l \in Lanes :
      activeTaskIds[l] = {e \in Entries :
                            /\ entry[e].status = "running"
                            /\ entry[e].lane = l
                            /\ entry[e].taskGeneration = generation[l]}

\* A command that was accepted waits in the queue of its own lane, at one
\* place, or has started; its promise stays pending for exactly that long.
\* So none is dropped by a reset, started twice, or left unanswered.
NoCommandLost ==
    /\ \A l \in Lanes : \A i, j \in DOMAIN queue[l] :
         queue[l][i] = queue[l][j] => i = j
    /\ \A l \in Lanes, e \in Entries :
         e \in ToSet(queue[l]) <=> entry[e].status = "queued" /\ entry[e].lane = l
    /\ \A e \in Entries :
         entry[e].answer = "pending" <=> entry[e].status \in {"queued", "running"}

\* The order the enqueue options promise for the entries d and e
GoesBefore(d, e) ==
    \/ d.priority > e.priority
    \/ d.priority = e.priority /\ d.sequence < e.sequence

\* Every queue is ordered by priority, and by arrival within a priority,
\* whatever was enqueued, cleared and started before (enqueueLaneEntry).
QueueOrdered ==
    \A l \in Lanes : \A i, j \in DOMAIN queue[l] :
      i < j => GoesBefore(entry[queue[l][i]], entry[queue[l][j]])

\* No command waits while its lane has a free slot: every handler that frees
\* a slot, adds one or adds a command has pumped the lane.
WorkConserving ==
    \A l \in Lanes :
      queue[l] # <<>> => Cardinality(activeTaskIds[l]) >= maxConcurrent[l]

\* A pending waitForActiveTasks still waits for a task that holds a slot, so
\* the completion or reset that will resolve it is still to come.
WaiterWatchesActive ==
    \A w \in Waiters : waiter[w].state = "waiting" =>
      \E l \in Lanes : waiter[w].ids \cap activeTaskIds[l] # {}

\* After waitForActiveTasks answered drained, no task it waited for holds a
\* slot again: task ids are never reused (nextTaskId).
DrainedForGood ==
    \A w \in Waiters : waiter[w].state = "drained" =>
      \A l \in Lanes : waiter[w].ids \cap activeTaskIds[l] = {}

\* What a caller is told is what happened: a command that was cleared or
\* refused never executed, one that was answered with a value or an error is
\* over, and one that executes outside a slot timed out or lost its lane to a
\* reset (runQueueEntryTask, clearCommandLane).
AnswerMatchesExecution ==
    \A e \in Entries :
      /\ entry[e].answer \in {"none", "cleared", "refused"} => entry[e].body = "idle"
      /\ entry[e].answer \in {"value", "error"} => entry[e].body = "finished"
      /\ entry[e].answer = "timeout" => e \in TimedEntries
      /\ (entry[e].body = "executing" /\ e \notin activeTaskIds[entry[e].lane])
           => \/ entry[e].answer = "timeout"
              \/ entry[e].taskGeneration < generation[entry[e].lane]

-----------------------------------------------------------------------------
(* Action properties.                                                      *)

\* A command starts only when none that goes before it still waits in its
\* lane: background work never overtakes foreground work.
StartsInOrder ==
    [][\A l \in Lanes : \A e \in activeTaskIds'[l] \ activeTaskIds[l] :
         \A d \in Entries :
           entry[d].status = "queued" /\ entry[d].lane = l
             /\ entry'[d].status = "queued"
           => GoesBefore(entry'[e], entry'[d])]_vars

=============================================================================
