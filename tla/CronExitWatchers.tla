--------------------------- MODULE CronExitWatchers ---------------------------
(***************************************************************************)
(* The watchers of on-exit cron jobs: src/src/gateway/cron-exit-watchers.ts *)
(* as src/src/gateway/server-cron.ts wires it (l. 386-400, 716-718,        *)
(* 768-779), over the job store of the cron service and the children of    *)
(* the process supervisor.                                                 *)
(*                                                                         *)
(* A job names a command.  While it is enabled a watcher runs the command, *)
(* and its exit disables the job in the store and then runs the job, once. *)
(* Every change of the store starts a reconcile, which lists the jobs and  *)
(* arms or cancels watchers; an arm is asynchronous, and knows that it was *)
(* replaced when the slot of its job is no longer its own.                 *)
(*                                                                         *)
(* Store operations are serialized by a lock (cron/service/locked.ts), so  *)
(* each is one action.  Reconciles that wait for the same list are one:    *)
(* after the first the others find nothing to do.                          *)
(***************************************************************************)
EXTENDS Naturals, Sequences

CONSTANTS
    Jobs,           \* the on-exit jobs
    Commands,       \* the commands they can watch
    NoList,         \* no list of jobs has been read
    MaxEdits,       \* bound: updates of a job by its owner
    MaxFaults,      \* bound: spawns, waits and store writes that fail
    MaxRestarts     \* bound: restarts of the gateway process

ASSUME ConstantsAssumption ==
    /\ MaxEdits \in Nat
    /\ MaxFaults \in Nat
    /\ MaxRestarts \in Nat

VARIABLES
    store,          \* the persisted jobs
    due,            \* a reconcile waits for its turn to list the jobs
    listed,         \* the list a reconcile goes on with
    active,         \* the slot of each job: the number of an arm, or 0
    arms,           \* for each job, the arms made so far
    wanted,         \* how often the owner asked for a watch of the job
    runs,           \* how often the job ran
    edits, faults, restarts

vars == <<store, due, listed, active, arms, wanted, runs, edits, faults, restarts>>

Job == [enabled : BOOLEAN, command : Commands]

Store == [Jobs -> Job]

\* child is the state of the spawned command; killed remembers that its end
\* was asked for; fired is the flag of the slot.
Arm == [command : Commands,
        phase : {"spawning", "waiting", "persisting", "firing", "ended"},
        child : {"none", "running", "exited"}, killed : BOOLEAN, fired : BOOLEAN]

TypeOK ==
    /\ store \in Store
    /\ due \in BOOLEAN
    /\ listed \in Store \cup {NoList}
    /\ active \in [Jobs -> Nat]
    /\ arms \in [Jobs -> Seq(Arm)]
    /\ \A j \in Jobs : active[j] \in 0 .. Len(arms[j])
    /\ wanted \in [Jobs -> Nat]
    /\ runs \in [Jobs -> Nat]
    /\ edits \in 0 .. MaxEdits
    /\ faults \in 0 .. MaxFaults
    /\ restarts \in 0 .. MaxRestarts

\* After the cron service started it reconciles the persisted jobs.
Init ==
    /\ store \in Store
    /\ due = TRUE
    /\ listed = NoList
    /\ active = [j \in Jobs |-> 0]
    /\ arms = [j \in Jobs |-> << >>]
    /\ wanted = [j \in Jobs |-> IF store[j].enabled THEN 1 ELSE 0]
    /\ runs = [j \in Jobs |-> 0]
    /\ edits = 0
    /\ faults = 0
    /\ restarts = 0

-----------------------------------------------------------------------------
(* Slots and children.  Operators named Bad... are faults that a property  *)
(* must notice; the specification does not use them.                       *)

BadOwns(j, n) == active[j] # 0

\* owns(): the slot of the job is still the one this arm reserved.
Owns(j, n) == active[j] = n

BadKilled(as) == as

\* cancelScope: every running child of the job is asked to end.
Killed(as) ==
    [n \in DOMAIN as |->
       IF as[n].child = "running" THEN [as[n] EXCEPT !.killed = TRUE] ELSE as[n]]

\* The slot is reserved before the child is spawned, which replaces whatever
\* runs under the scope of the job.
Armed(as, command) ==
    Append(Killed(as), [command |-> command, phase |-> "spawning", child |-> "none",
                        killed |-> FALSE, fired |-> FALSE])

\* The job gives up its slot if arm n still has it.
Released(j, n) == [active EXCEPT ![j] = IF Owns(j, n) THEN 0 ELSE @]

SetArm(j, n, a) == arms' = [arms EXCEPT ![j][n] = a]

-----------------------------------------------------------------------------
(* The owner of the jobs, through the cron service.                        *)

\* cron.update by the owner: an "updated" event starts a reconcile.
UpdateJob(j, new) ==
    /\ edits < MaxEdits
    /\ new # store[j]
    /\ edits' = edits + 1
    /\ store' = [store EXCEPT ![j] = new]
    /\ wanted' = [wanted EXCEPT ![j] = IF new.enabled THEN @ + 1 ELSE @]
    /\ due' = TRUE
    /\ UNCHANGED <<listed, active, arms, runs, faults, restarts>>

\* reconcileExitWatchers gets its turn of the store lock.
ListJobs ==
    /\ due
    /\ listed = NoList
    /\ due' = FALSE
    /\ listed' = store
    /\ UNCHANGED <<store, active, arms, wanted, runs, edits, faults, restarts>>

BadRearm(j, job) == job.enabled /\ active[j] = 0

\* The job needs a new arm: nothing watches it, or another command is watched
\* and did not exit yet.
Rearm(j, job) ==
    /\ job.enabled
    /\ active[j] = 0 \/ (/\ ~arms[j][active[j]].fired
                         /\ arms[j][active[j]].command # job.command)

\* reconcile: watchers of jobs that are gone or disabled are cancelled,
\* watchers of another command are cancelled and armed again.
Reconcile ==
    /\ listed # NoList
    /\ listed' = NoList
    /\ arms' = [j \in Jobs |->
                  IF Rearm(j, listed[j]) THEN Armed(arms[j], listed[j].command)
                  ELSE IF ~listed[j].enabled /\ active[j] # 0 THEN Killed(arms[j])
                  ELSE arms[j]]
    /\ active' = [j \in Jobs |->
                    IF Rearm(j, listed[j]) THEN Len(arms[j]) + 1
                    ELSE IF listed[j].enabled THEN active[j]
                    ELSE 0]
    /\ UNCHANGED <<store, due, wanted, runs, edits, faults, restarts>>

-----------------------------------------------------------------------------
(* An arm: the async function of arm().                                    *)

Fails == /\ faults < MaxFaults
         /\ faults' = faults + 1

\* The child runs; one that was disowned in the meantime is killed at once.
SpawnReturns(j, n) ==
    LET a == arms[j][n]
    IN  /\ a.phase = "spawning"
        /\ SetArm(j, n, IF Owns(j, n)
                        THEN [a EXCEPT !.phase = "waiting", !.child = "running"]
                        ELSE [a EXCEPT !.phase = "ended", !.child = "running",
                                       !.killed = TRUE])
        /\ UNCHANGED <<store, due, listed, active, wanted, runs, edits, faults, restarts>>

SpawnFails(j, n) ==
    /\ arms[j][n].phase = "spawning"
    /\ Fails
    /\ active' = Released(j, n)
    /\ SetArm(j, n, [arms[j][n] EXCEPT !.phase = "ended"])
    /\ UNCHANGED <<store, due, listed, wanted, runs, edits, restarts>>

\* The command exits, was killed, or ran into its timeout.
ChildExits(j, n) ==
    /\ arms[j][n].child = "running"
    /\ SetArm(j, n, [arms[j][n] EXCEPT
                       !.child = "exited",
                       !.phase = IF @ = "waiting" /\ Owns(j, n) THEN "persisting"
                                 ELSE "ended"])
    /\ UNCHANGED <<store, due, listed, active, wanted, runs, edits, faults, restarts>>

\* run.wait() rejects: the outcome is unknown, and the job does not run.
WaitFails(j, n) ==
    /\ arms[j][n].phase = "waiting"
    /\ Fails
    /\ active' = Released(j, n)
    /\ SetArm(j, n, [arms[j][n] EXCEPT !.phase = "ended", !.child = "exited"])
    /\ UNCHANGED <<store, due, listed, wanted, runs, edits, restarts>>

\* persistCompletion: cron.update disables the job, in another turn of the
\* store lock, and like any update starts a reconcile.
PersistCompletion(j, n) ==
    /\ arms[j][n].phase = "persisting"
    /\ store' = [store EXCEPT ![j].enabled = FALSE]
    /\ due' = TRUE
    /\ SetArm(j, n, [arms[j][n] EXCEPT !.phase = "firing", !.fired = TRUE])
    /\ UNCHANGED <<listed, active, wanted, runs, edits, faults, restarts>>

BadPersistFails(j, n) ==
    /\ arms[j][n].phase = "persisting"
    /\ Fails
    /\ SetArm(j, n, [arms[j][n] EXCEPT !.phase = "firing"])
    /\ active' = Released(j, n)
    /\ UNCHANGED <<store, due, listed, wanted, runs, edits, restarts>>

\* The store write fails: the job does not run, and its slot is free.
PersistFails(j, n) ==
    /\ arms[j][n].phase = "persisting"
    /\ Fails
    /\ active' = Released(j, n)
    /\ SetArm(j, n, [arms[j][n] EXCEPT !.phase = "ended"])
    /\ UNCHANGED <<store, due, listed, wanted, runs, edits, restarts>>

\* fireOnExit forces a run of the job.
FireOnExit(j, n) ==
    /\ arms[j][n].phase = "firing"
    /\ runs' = [runs EXCEPT ![j] = @ + 1]
    /\ SetArm(j, n, [arms[j][n] EXCEPT !.phase = "ended"])
    /\ UNCHANGED <<store, due, listed, active, wanted, edits, faults, restarts>>

\* The gateway stops at any moment, with its children, and starts again.
Restart ==
    /\ restarts < MaxRestarts
    /\ restarts' = restarts + 1
    /\ due' = TRUE
    /\ listed' = NoList
    /\ active' = [j \in Jobs |-> 0]
    /\ arms' = [j \in Jobs |-> << >>]
    /\ UNCHANGED <<store, wanted, runs, edits, faults>>

\* The steps of an arm, apart from the end of its child
ArmStep(j, n) ==
    \/ SpawnReturns(j, n)
    \/ SpawnFails(j, n)
    \/ WaitFails(j, n)
    \/ PersistCompletion(j, n)
    \/ PersistFails(j, n)
    \/ FireOnExit(j, n)

Next ==
    \/ \E j \in Jobs, new \in Job : UpdateJob(j, new)
    \/ ListJobs
    \/ Reconcile
    \/ \E j \in Jobs : \E n \in DOMAIN arms[j] :
         ArmStep(j, n) \/ ChildExits(j, n)
    \/ Restart

Spec == Init /\ [][Next]_vars

\* What an arm does when nothing fails
ArmGoesOn(j, n) ==
    n \in DOMAIN arms[j] /\ (SpawnReturns(j, n) \/ PersistCompletion(j, n) \/ FireOnExit(j, n))

\* Spawns and writes end, one way or the other; a watched command need not
\* end (its timeout is a day), and no fault need happen.
Fairness ==
    /\ WF_vars(ListJobs)
    /\ WF_vars(Reconcile)
    /\ \A j \in Jobs, n \in 1 .. MaxEdits + MaxFaults + 1 : WF_vars(ArmGoesOn(j, n))

FairSpec == Spec /\ Fairness

-----------------------------------------------------------------------------
(* Safety.                                                                 *)

\* A watched exit runs its job once: not a second time after a restart, a
\* failed write or a stale list ("a gateway restart cannot re-arm and
\* double-fire the same exit").  A job runs at most once per request.
RunsOncePerRequest == \A j \in Jobs : runs[j] <= wanted[j]

\* A child that is not asked to end is watched by the slot of its job: no
\* cancel that races a spawn leaks a process.
NoOrphanChild ==
    \A j \in Jobs : \A n \in DOMAIN arms[j] :
      arms[j][n].child = "running" /\ ~arms[j][n].killed
        => active[j] = n /\ arms[j][n].phase = "waiting"

\* The job runs because its command ended, never because the gateway itself
\* ended it ("does not fire a job whose watcher was cancelled before exit").
RunsOnlyAfterExit ==
    \A j \in Jobs : \A n \in DOMAIN arms[j] :
      arms[j][n].phase \in {"persisting", "firing"} => ~arms[j][n].killed

\* "An async spawn/wait that loses ownership (job cancelled or re-armed for a
\* changed command/cwd) is a no-op": the exit of one command does not end the
\* watch of the other one the job was armed for.  The code checks the
\* ownership before the store write, not at it.
CompletesOwnWatch ==
    [][\A j \in Jobs : \A n \in DOMAIN arms[j] :
         arms[j][n].phase = "persisting" /\ arms'[j] # << >> /\ arms'[j][n].phase = "firing"
           => active[j] \in {0, n}]_vars

-----------------------------------------------------------------------------
(* Liveness.                                                               *)

\* The slot of the job is armed for this command, and no exit was completed.
Watched(j, c) ==
    active[j] # 0 /\ arms[j][active[j]].command = c /\ ~arms[j][active[j]].fired

\* The owner enabled the job again after the store recorded its exit and
\* before a reconcile listed it as disabled: the slot of the completed watch
\* stays, and no list to come removes it ("A fired one-shot stays put
\* (re-watch = re-add)").
KeepsFiredSlot(j) ==
    /\ active[j] # 0
    /\ arms[j][active[j]].fired
    /\ store[j].enabled
    /\ listed = NoList \/ listed[j].enabled

\* Unless something fails, an enabled job gets its watcher, or its owner
\* changes it.  The one enabled job that nothing watches is the one that was
\* enabled while it kept its fired slot: it waits for its owner to disable it
\* or for a restart.
EnabledJobsWatched ==
    \A j \in Jobs, c \in Commands :
      store[j] = [enabled |-> TRUE, command |-> c] /\ faults = 0
        ~> \/ Watched(j, c)
           \/ KeepsFiredSlot(j)
           \/ store[j] # [enabled |-> TRUE, command |-> c]
           \/ faults > 0
=============================================================================
