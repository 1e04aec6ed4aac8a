------------------------- MODULE AgentRunLanesProofs -------------------------
(***************************************************************************)
(* Theorems about AgentRunLanes and their proofs.                          *)
(*                                                                         *)
(* The commands of runs are commands of the queue, so what a step does to  *)
(* the queue is taken from the queue's own proofs and summed up as Effect: *)
(* which commands it accepts, which tasks it ends, and that no command     *)
(* goes back.  Beside it, Moves and Matches say what the handler makes of  *)
(* a run and how that fits what it does to the run's commands; then the    *)
(* tasks that the pump starts follow (RunGoes).  Every action is such a    *)
(* LaneStep, and every LaneStep keeps the invariant.                       *)
(***************************************************************************)
EXTENDS AgentRunLanes, CommandQueueAnswerProofs

-----------------------------------------------------------------------------
(* The inductive invariant.                                                *)

\* A command that timed out was told so.
TimeoutsTold == \A e \in Entries : entry[e].answer = "timeout" => entry[e].race = "timeout"

\* At most one
Single(active) == \A d, e \in active : d = e

\* A lane that no configuration widens has one slot at most, and will have
\* no more when its timer opens it again.
SingleSlots ==
    \A l \in Lanes \ {Main, Cron, CronNested} :
      /\ maxConcurrent[l] <= 1
      /\ resumeTimer[l] <= 1
      /\ Single(activeTaskIds[l])

\* The first command of a run is in the lane of its session ...
SessionLanes ==
    \A r \in Runs : entry[SessionEntry(r)].status # "new" =>
      entry[SessionEntry(r)].lane = SessionLane[SessionOf[r]]

\* ... and executes for as long as it awaits something.
SessionHolds ==
    \A r \in Runs : SessionWaits(r) => entry[SessionEntry(r)].body = "executing"

\* A run knows which of its commands is queued.
QueuedPhases ==
    \A r \in Runs :
      /\ entry[SessionEntry(r)].status = "queued" => run[r].phase = "session"
      /\ entry[GlobalEntry(r)].status = "queued" => run[r].phase = "global"

\* The worker that the maintenance of a session names is the only one whose
\* promise is pending.
OneWorker ==
    \A w \in Workers : entry[w].answer = "pending" =>
      maintenance[w[1]].active /\ maintenance[w[1]].worker = w

\* The maintenance that a run does not await was asked for after it came to
\* its checkpoint.
AwaitedFirst ==
    /\ \A s \in Sessions : maintenance[s].active => maintenance[s].chain # 0
    /\ \A r \in Runs :
         LET m == maintenance[SessionOf[r]]
         IN  /\ run[r].before <= m.requests
             /\ m.active /\ run[r].phase = "checkpoint" /\ run[r].chain # m.chain
                  => m.requests > run[r].before
             /\ m.active /\ run[r].phase \in {"global", "executing"}
                  => m.requests > run[r].before

ResumeLimits == \A l \in Lanes : resumeTimer[l] \in Limits

LanesInv ==
    /\ IInv
    /\ EntriesSound(entry)
    /\ LanesTypeOK
    /\ ResumeLimits
    /\ ClosedLaneHasTimer
    /\ TimeoutsTold
    /\ SingleSlots
    /\ SessionLanes
    /\ SessionHolds
    /\ QueuedPhases
    /\ OneWorker
    /\ AwaitedFirst

-----------------------------------------------------------------------------
(* The commands of the runs.                                               *)

\* Every run has commands of its own, of which the turn has a timeout.
LEMMA RunCommands ==
    ASSUME NEW r \in Runs
    PROVE  /\ SessionEntry(r) \in Entries \ TimedEntries
           /\ GlobalEntry(r) \in Entries
           /\ r \in CronRuns => CronEntry(r) \in Entries
           /\ \A q \in Runs :
                /\ SessionEntry(r) = SessionEntry(q) => r = q
                /\ GlobalEntry(r) = GlobalEntry(q) => r = q
                /\ SessionEntry(r) \notin {GlobalEntry(q), CronEntry(q)}
                /\ GlobalEntry(r) # CronEntry(q)
           /\ \A w \in Workers : w \notin {SessionEntry(r), GlobalEntry(r), CronEntry(r)}
<1>1. \A q \in Runs : SessionEntry(r) # GlobalEntry(q)
  BY DEF SessionEntry, GlobalEntry
<1>2. \A q \in Runs : SessionEntry(r) # CronEntry(q) /\ GlobalEntry(r) # CronEntry(q)
  BY DEF SessionEntry, GlobalEntry, CronEntry
<1>3. \A q \in Runs : /\ SessionEntry(r) = SessionEntry(q) => r = q
                      /\ GlobalEntry(r) = GlobalEntry(q) => r = q
  BY DEF SessionEntry, GlobalEntry
<1>4. SessionEntry(r) \notin TimedEntries
  BY <1>1, LanesAssumption
<1>5. SessionEntry(r) \in Entries /\ GlobalEntry(r) \in Entries
      /\ (r \in CronRuns => CronEntry(r) \in Entries)
  BY LanesAssumption
<1>6. \A w \in Workers : w \notin {SessionEntry(r), GlobalEntry(r), CronEntry(r)}
  BY LanesAssumption
<1> QED BY <1>1, <1>2, <1>3, <1>4, <1>5, <1>6

\* Neither workers nor cron jobs have one.
LEMMA UntimedCommands ==
    /\ \A w \in Workers : w \in Entries \ TimedEntries /\ w[1] \in Sessions
    /\ \A r \in CronRuns : CronEntry(r) \in Entries \ TimedEntries
<1>1. ASSUME NEW w \in Workers
      PROVE  w \in Entries \ TimedEntries /\ w[1] \in Sessions
  BY LanesAssumption
<1>2. ASSUME NEW r \in CronRuns
      PROVE  CronEntry(r) \in Entries \ TimedEntries
  <2>1. r \in Runs /\ CronEntry(r) \in Entries
    BY LanesAssumption
  <2>2. \A q \in Runs : CronEntry(r) # GlobalEntry(q)
    BY DEF CronEntry, GlobalEntry
  <2> QED BY <2>1, <2>2, LanesAssumption
<1> QED BY <1>1, <1>2

\* A command without a timeout that executes has its slot, or lost it to a
\* reset, and its caller waits.
LEMMA UntimedExecutes ==
    ASSUME IInv, EntriesSound(entry), NEW e \in Entries \ TimedEntries,
           entry[e].body = "executing"
    PROVE  /\ entry[e].status = "running"
           /\ entry[e].race = "open"
           /\ entry[e].answer = "pending"
<1>1. entry[e] \in Entry /\ EntrySound(e, entry[e])
  BY DEF IInv, TypeOK, EntriesSound
<1>2. entry[e].answer = "pending" <=> entry[e].status \in {"queued", "running"}
  BY DEF IInv, Core, EntriesMatch
<1>3. entry[e].status = "running"
  BY <1>1, <1>2 DEF EntrySound, Entry, Status
<1>4. entry[e].race = "open"
  BY <1>1 DEF EntrySound, Entry, Race
<1> QED BY <1>2, <1>3, <1>4

-----------------------------------------------------------------------------
(* What a step of the queue does, whoever takes it.                        *)

\* The life of a command goes one way.
Goes ==
    \A e \in Entries :
      /\ entry[e].status # "new" =>
           entry'[e].status # "new" /\ entry'[e].lane = entry[e].lane
      /\ entry'[e].status = "queued" => entry[e].status \in {"new", "queued"}
      /\ entry'[e].answer = "pending" /\ entry[e].answer # "pending" =>
           entry[e].status = "new" /\ entry'[e].status # "new"
      /\ Starts(e) => entry'[e].body = "executing"
                      /\ entry[e].status \in {"new", "queued"}
      /\ (entry[e].answer = "timeout" => entry[e].race = "timeout") =>
           (entry'[e].answer = "timeout" => entry'[e].race = "timeout")

\* Only commands of E are accepted, and for the lane l.
Accepts(E, l) ==
    \A e \in Entries : entry[e].status = "new" /\ entry'[e].status # "new" =>
      e \in E /\ entry'[e].lane = l

\* Only tasks of F come to an end.
Finishes(F) ==
    \A e \in Entries : entry[e].body = "executing" /\ entry'[e].body # "executing" =>
      e \in F

\* A lane with one slot stays a lane with one slot.
SlotsStaySingle ==
    \A l \in Lanes :
      maxConcurrent'[l] <= 1 /\ Single(activeTaskIds[l]) => Single(activeTaskIds'[l])

Effect(E, l, F) ==
    /\ IInv'
    /\ EntriesSound(entry')
    /\ Goes
    /\ Accepts(E, l)
    /\ Finishes(F)
    /\ SlotsStaySingle

\* What the step made of the commands before the pump started some
Acted(ents) ==
    \A e \in Entries :
      \/ entry'[e] = ents[e]
      \/ /\ ents[e].status = "queued"
         /\ entry'[e] = Started(ents[e], e, generation'[ents[e].lane])

LEMMA ChangeGoes ==
    ASSUME NEW e \in Entries, NEW d \in Entry, NEW new,
           EntrySound(e, d), d.answer = "pending" <=> d.status \in {"queued", "running"},
           Change(e, d, new)
    PROVE  /\ new \in Entry
           /\ d.status # "new" => new.status # "new" /\ new.lane = d.lane
           /\ new.status = "queued" => d.status \in {"new", "queued"}
           /\ new.answer = "pending" /\ d.answer # "pending" =>
                d.status = "new" /\ new.status # "new"
           /\ new.status = "running" => d.status = "running"
           /\ (d.answer = "timeout" => d.race = "timeout") =>
                (new.answer = "timeout" => new.race = "timeout")
<1> USE DEF Entry, EntrySound, Status, Timer, Race, Body, Answer
<1>0. new \in Entry
  BY ChangeSound
<1>1. CASE new = d
  BY <1>1
<1>2. CASE d.status = "new" /\ new = Refused(d)
  BY <1>2 DEF Refused
<1>3. CASE d.status = "new"
           /\ \E l \in Lanes, p \in Priority, n \in Nat : new = Enqueued(d, l, p, n)
  <2>1. PICK l \in Lanes, p \in Priority, n \in Nat : new = Enqueued(d, l, p, n)
    BY <1>3
  <2> QED BY <1>0, <1>3, <2>1 DEF Enqueued
<1>4. CASE d.status = "queued" /\ new = Cleared(d)
  BY <1>4 DEF Cleared
<1>5. CASE d.body = "executing" /\ new \in {Settled(d, "value"), Settled(d, "error")}
  <2>1. CASE new = Settled(d, "value")
    BY <1>5, <2>1 DEF Settled
  <2>2. CASE new = Settled(d, "error")
    BY <1>5, <2>2 DEF Settled
  <2> QED BY <1>5, <2>1, <2>2
<1>6. CASE /\ d.status = "running" /\ d.race = "open" /\ d.timer # "off"
           /\ new = TimedOut(d)
  BY <1>6 DEF TimedOut
<1>7. CASE /\ e \in TimedEntries
           /\ d.status \in {"queued", "running"}
           /\ new \in {Aborted(d), Released(d)}
  BY <1>7 DEF Aborted, Released
<1>8. CASE d.status = "running" /\ d.race # "open" /\ new = Continued(d)
  BY <1>8 DEF Continued
<1> QED BY <1>1, <1>2, <1>3, <1>4, <1>5, <1>6, <1>7, <1>8 DEF Change

\* What follows of a step from what it made of the commands
LEMMA EffectFrom ==
    ASSUME IInv, EntriesSound(entry), IInv', NEW ents, NEW E, NEW l, NEW F,
           \A e \in Entries : Change(e, entry[e], ents[e]),
           Acted(ents), SlotsStaySingle,
           \A e \in Entries :
             /\ entry[e].status = "new" /\ ents[e].status # "new" =>
                  e \in E /\ ents[e].lane = l
             /\ entry[e].body = "executing" /\ ents[e].body # "executing" => e \in F
    PROVE  Effect(E, l, F)
<1>1. ASSUME NEW e \in Entries
      PROVE  /\ EntrySound(e, entry'[e])
             /\ entry[e].status # "new" =>
                  entry'[e].status # "new" /\ entry'[e].lane = entry[e].lane
             /\ entry'[e].status = "queued" => entry[e].status \in {"new", "queued"}
             /\ entry'[e].answer = "pending" /\ entry[e].answer # "pending" =>
                  entry[e].status = "new" /\ entry'[e].status # "new"
             /\ Starts(e) => entry'[e].body = "executing"
                             /\ entry[e].status \in {"new", "queued"}
             /\ (entry[e].answer = "timeout" => entry[e].race = "timeout") =>
                  (entry'[e].answer = "timeout" => entry'[e].race = "timeout")
             /\ entry[e].status = "new" /\ entry'[e].status # "new" =>
                  e \in E /\ entry'[e].lane = l
             /\ entry[e].body = "executing" /\ entry'[e].body # "executing" => e \in F
  <2> DEFINE d == entry[e]
             new == ents[e]
             x == entry'[e]
             gen == generation'[new.lane]
  <2>1. /\ d \in Entry /\ EntrySound(e, d) /\ Change(e, d, new)
        /\ d.answer = "pending" <=> d.status \in {"queued", "running"}
    BY DEF IInv, TypeOK, Core, EntriesMatch, EntriesSound
  <2>2. /\ x \in Entry
        /\ x.answer = "pending" <=> x.status \in {"queued", "running"}
    BY DEF IInv, TypeOK, Core, EntriesMatch
  <2>3. /\ d.status = "new" /\ new.status # "new" => e \in E /\ new.lane = l
        /\ d.body = "executing" /\ new.body # "executing" => e \in F
    OBVIOUS
  <2>4. x = new \/ (new.status = "queued" /\ x = Started(new, e, gen))
    BY DEF Acted
  <2>5. /\ \A k \in Lanes : generation'[k] \in Nat
        /\ (Starts(e) <=> d.status # "running" /\ x.status = "running")
    BY DEF IInv, TypeOK, Starts
  <2> HIDE DEF d, new, x
  <2>6. /\ new \in Entry
        /\ d.status # "new" => new.status # "new" /\ new.lane = d.lane
        /\ new.status = "queued" => d.status \in {"new", "queued"}
        /\ new.answer = "pending" /\ d.answer # "pending" =>
             d.status = "new" /\ new.status # "new"
        /\ new.status = "running" => d.status = "running"
        /\ (d.answer = "timeout" => d.race = "timeout") =>
             (new.answer = "timeout" => new.race = "timeout")
    BY <2>1, ChangeGoes
  <2>7. EntrySound(e, new)
    BY <2>1, ChangeSound
  <2>8. gen \in Nat
    BY <2>5, <2>6 DEF Entry
  <2> HIDE DEF gen
  <2>9. CASE x = new
    BY <2>2, <2>3, <2>5, <2>6, <2>7, <2>9 DEF d, x
  <2>10. CASE new.status = "queued" /\ x = Started(new, e, gen)
    <3>1. /\ x.status = "running" /\ x.body = "executing" /\ x.lane = new.lane
          /\ x.answer = new.answer
      BY <2>6, <2>10 DEF Started, Entry
    <3>2. x.answer = "pending" /\ new.answer = "pending"
      BY <2>2, <3>1
    <3>3. EntrySound(e, x)
      BY <2>6, <2>7, <2>8, <2>10, <3>2, StartSound
    <3> QED BY <2>2, <2>3, <2>5, <2>6, <2>10, <3>1, <3>2, <3>3 DEF d, x
  <2> QED BY <2>4, <2>9, <2>10
<1>2. EntriesSound(entry')
  BY <1>1 DEF EntriesSound
<1>3. Goes
  BY <1>1 DEF Goes
<1>4. Accepts(E, l) /\ Finishes(F)
  BY <1>1 DEF Accepts, Finishes
<1> QED BY <1>2, <1>3, <1>4 DEF Effect

-----------------------------------------------------------------------------
(* The effect of the functions of the queue.                               *)

\* pump() fills a lane with one slot by one command at most.
LEMMA DrainStaysSingle ==
    ASSUME NEW ls, NEW ents, NEW q, NEW active, NEW limit, NEW gen,
           q \in [Lanes -> Seq(Entries)], active \in [Lanes -> SUBSET Entries],
           limit \in [Lanes -> Nat],
           Drain(ls, ents, q, active, limit, gen),
           NEW l \in Lanes, limit[l] <= 1, Single(active[l])
    PROVE  Single(activeTaskIds'[l])
<1> DEFINE s == q[l]
           a == active[l]
           n == IF l \in ls THEN Startable(s, a, limit[l]) ELSE 0
           head == SubSeq(s, 1, n)
<1>1. activeTaskIds'[l] = a \cup ToSet(head)
  BY DEF Drain
<1>2. s \in Seq(Entries) /\ a \in SUBSET Entries /\ limit[l] \in Nat
  OBVIOUS
<1>3. IsFiniteSet(a) /\ Cardinality(a) \in Nat
  BY <1>2, ConstantsAssumption, FS_Subset, FS_CardinalityType
<1> HIDE DEF s, a
<1>4. n \in 0 .. Len(s)
  BY <1>2, StartableInQueue
<1>5. n # 0 => n = 1 /\ Cardinality(a) = 0
  <2>1. CASE l \in ls /\ limit[l] - Cardinality(a) > 0
    <3>1. limit[l] = 1 /\ Cardinality(a) = 0
      BY <1>2, <1>3, <2>1
    <3>2. Startable(s, a, limit[l]) = IF 1 < Len(s) THEN 1 ELSE Len(s)
      BY <3>1 DEF Startable
    <3>3. Len(s) \in Nat
      BY <1>2
    <3> QED BY <2>1, <3>1, <3>2, <3>3
  <2>2. CASE ~(l \in ls /\ limit[l] - Cardinality(a) > 0)
    BY <1>2, <1>3, <2>2 DEF Startable
  <2> QED BY <2>1, <2>2
<1> HIDE DEF n
<1>6. ToSet(head) = {s[i] : i \in 1 .. n}
  BY <1>2, <1>4, CutQueue
<1> HIDE DEF head
<1>7. CASE n = 0
  <2>1. ToSet(head) = {}
    BY <1>6, <1>7
  <2> QED BY <1>1, <2>1 DEF a
<1>8. CASE n # 0
  <2>1. a = {}
    BY <1>3, <1>5, <1>8, FS_EmptySet
  <2>2. ToSet(head) = {s[1]}
    BY <1>5, <1>6, <1>8
  <2> QED BY <1>1, <2>1, <2>2 DEF Single
<1> QED BY <1>7, <1>8

\* Steps that pump after they have freed slots at most
LEMMA PumpStaysSingle ==
    ASSUME IInv', NEW ls, NEW ents, NEW q, NEW active, NEW gen,
           q \in [Lanes -> Seq(Entries)], active \in [Lanes -> SUBSET Entries],
           Drain(ls, ents, q, active, maxConcurrent', gen),
           \A l \in Lanes : active[l] \subseteq activeTaskIds[l]
    PROVE  SlotsStaySingle
<1> SUFFICES ASSUME NEW l \in Lanes, maxConcurrent'[l] <= 1,
                    Single(activeTaskIds[l])
             PROVE  Single(activeTaskIds'[l])
  BY DEF SlotsStaySingle
<1>1. maxConcurrent' \in [Lanes -> Nat]
  BY DEF IInv, TypeOK
<1>2. Single(active[l])
  BY DEF Single
<1> QED BY <1>1, <1>2, DrainStaysSingle

\* A step of the queue that frees and fills no slot
LEMMA NoSlots == activeTaskIds' = activeTaskIds => SlotsStaySingle
BY DEF SlotsStaySingle

\* A step that does not concern the queue
LEMMA IdleEffect ==
    ASSUME IInv, EntriesSound(entry), UNCHANGED vars
    PROVE  Effect({}, Main, {})
<1>1. IInv'
  BY NextIInv
<1>2. \A e \in Entries : Change(e, entry[e], entry[e])
  BY DEF Change
<1>3. Acted(entry) /\ SlotsStaySingle
  BY NoSlots DEF Acted, vars
<1> QED BY <1>1, <1>2, <1>3, EffectFrom

\* A step that changes the command e only
LEMMA ChangeEffect ==
    ASSUME IInv, EntriesSound(entry), IInv', NEW e \in Entries, NEW new,
           Change(e, entry[e], new), entry' = [entry EXCEPT ![e] = new],
           activeTaskIds' = activeTaskIds, NEW F,
           entry[e].status = "new" => new.status = "new",
           entry[e].body = "executing" /\ new.body # "executing" => e \in F
    PROVE  Effect({}, Main, F)
<1> DEFINE ents == [entry EXCEPT ![e] = new]
<1>1. entry \in [Entries -> Entry]
  BY DEF IInv, TypeOK
<1>2. ents[e] = new /\ \A d \in Entries : d # e => ents[d] = entry[d]
  BY <1>1
<1>3. entry' = ents
  OBVIOUS
<1> HIDE DEF ents
<1>4. \A d \in Entries : Change(d, entry[d], ents[d])
  BY <1>2 DEF Change
<1>5. Acted(ents) /\ SlotsStaySingle
  BY <1>3, NoSlots DEF Acted
<1>6. \A d \in Entries :
        /\ entry[d].status = "new" /\ ents[d].status # "new" => d \in {} /\ ents[d].lane = Main
        /\ entry[d].body = "executing" /\ ents[d].body # "executing" => d \in F
  BY <1>2
<1> QED BY <1>4, <1>5, <1>6, EffectFrom

\* enqueueCommandInLane
LEMMA EnqueueEffect ==
    ASSUME IInv, EntriesSound(entry), NEW e \in Entries, NEW l \in Lanes,
           NEW p \in Priorities, EnqueueCommandInLane(e, l, p)
    PROVE  Effect({e}, l, {})
<1>1. Next
  BY DEF Next
<1>2. IInv'
  BY <1>1, NextIInv
<1>3. /\ entry[e].status = "new"
      /\ entry \in [Entries -> Entry]
      /\ queue \in [Lanes -> Seq(Entries)]
      /\ activeTaskIds \in [Lanes -> SUBSET Entries]
      /\ nextQueueSequence \in Nat
      /\ p \in Priority
      /\ maxConcurrent' = maxConcurrent
  BY ConstantsAssumption DEF EnqueueCommandInLane, IInv, TypeOK, Priority, Background, Foreground
<1>4. CASE gatewayDraining
  <2> DEFINE new == Refused(entry[e])
  <2>1. entry' = [entry EXCEPT ![e] = new] /\ activeTaskIds' = activeTaskIds
    BY <1>4 DEF EnqueueCommandInLane
  <2>2. Change(e, entry[e], new)
    BY <1>3 DEF Change
  <2>3. new.status = "new" /\ new.body = entry[e].body
    BY <1>3 DEF Refused, Entry
  <2> HIDE DEF new
  <2>4. Effect({}, Main, {})
    BY <1>2, <2>1, <2>2, <2>3, ChangeEffect
  <2> QED BY <2>4 DEF Effect, Accepts
<1>5. CASE ~gatewayDraining
  <2> DEFINE new == Enqueued(entry[e], l, p, nextQueueSequence)
             ents == [entry EXCEPT ![e] = Enqueued(@, l, p, nextQueueSequence)]
             q == [queue EXCEPT ![l] = EnqueueLaneEntry(ents, queue[l], e)]
  <2>1. Drain({l}, ents, q, activeTaskIds, maxConcurrent, generation)
    BY <1>5 DEF EnqueueCommandInLane
  <2>2. ents[e] = new /\ \A d \in Entries : d # e => ents[d] = entry[d]
    BY <1>3
  <2>3. new.lane = l /\ new.body = entry[e].body
    BY <1>3 DEF Enqueued, Entry
  <2>4. Change(e, entry[e], new)
    BY <1>3 DEF Change
  <2>5. Pumps({l}, ents, q, activeTaskIds)
    BY <1>5, EnqueuePumps
  <2> HIDE DEF ents
  <2>6. Core(ents, q, activeTaskIds, generation, nextQueueSequence + 1)
    <3> HIDE DEF q
    <3> QED BY <1>3, EnqueueKeepsCore DEF ents, q
  <2> HIDE DEF new, q
  <2>7. Acted(ents)
    BY <2>5 DEF Pumps, Pumped, Acted
  <2>8. SlotsStaySingle
    BY <1>2, <1>3, <2>1, <2>6, PumpStaysSingle DEF Core, Typed
  <2>9. \A d \in Entries : Change(d, entry[d], ents[d])
    BY <2>2, <2>4 DEF Change
  <2>10. \A d \in Entries :
           /\ entry[d].status = "new" /\ ents[d].status # "new" => d \in {e} /\ ents[d].lane = l
           /\ entry[d].body = "executing" /\ ents[d].body # "executing" => d \in {}
    BY <2>2, <2>3
  <2> QED BY <1>2, <2>7, <2>8, <2>9, <2>10, EffectFrom
<1> QED BY <1>4, <1>5

\* What happens to one command: only its own task ends.
LEMMA SettleEffect ==
    ASSUME IInv, EntriesSound(entry), NEW e \in Entries,
           NEW outcome \in {"value", "error"}, TaskSettles(e, outcome)
    PROVE  Effect({}, Main, {e})
<1>1. IInv'
  BY NextIInv DEF Next
<1>2. entry[e] \in Entry
  BY DEF IInv, TypeOK
<1> DEFINE new == Settled(entry[e], outcome)
<1>3. /\ entry[e].body = "executing"
      /\ entry' = [entry EXCEPT ![e] = new] /\ activeTaskIds' = activeTaskIds
  BY DEF TaskSettles
<1>4. Change(e, entry[e], new)
  BY <1>3 DEF Change
<1>5. new.status = entry[e].status
  BY <1>2 DEF Settled, Entry
<1> HIDE DEF new
<1> QED BY <1>1, <1>3, <1>4, <1>5, ChangeEffect

LEMMA TimerEffect ==
    ASSUME IInv, EntriesSound(entry), NEW e \in Entries,
           TaskTimesOut(e) \/ AbortTask(e) \/ ReleaseTask(e)
    PROVE  Effect({}, Main, {})
<1>1. IInv'
  BY NextIInv DEF Next
<1>2. entry[e] \in Entry
  BY DEF IInv, TypeOK
<1>3. CASE TaskTimesOut(e)
  <2> DEFINE new == TimedOut(entry[e])
  <2>1. entry' = [entry EXCEPT ![e] = new] /\ activeTaskIds' = activeTaskIds
    BY <1>3 DEF TaskTimesOut
  <2>2. Change(e, entry[e], new)
    BY <1>3 DEF Change, TaskTimesOut
  <2>3. new.status = entry[e].status /\ new.body = entry[e].body
    BY <1>2 DEF TimedOut, Entry
  <2> HIDE DEF new
  <2> QED BY <1>1, <2>1, <2>2, <2>3, ChangeEffect
<1>4. CASE AbortTask(e)
  <2> DEFINE new == Aborted(entry[e])
  <2>1. entry' = [entry EXCEPT ![e] = new] /\ activeTaskIds' = activeTaskIds
    BY <1>4 DEF AbortTask
  <2>2. Change(e, entry[e], new)
    BY <1>4 DEF Change, AbortTask
  <2>3. new.status = entry[e].status /\ new.body = entry[e].body
    BY <1>2 DEF Aborted, Entry
  <2> HIDE DEF new
  <2> QED BY <1>1, <2>1, <2>2, <2>3, ChangeEffect
<1>5. CASE ReleaseTask(e)
  <2> DEFINE new == Released(entry[e])
  <2>1. entry' = [entry EXCEPT ![e] = new] /\ activeTaskIds' = activeTaskIds
    BY <1>5 DEF ReleaseTask
  <2>2. Change(e, entry[e], new)
    BY <1>5 DEF Change, ReleaseTask
  <2>3. new.status = entry[e].status /\ new.body = entry[e].body
    BY <1>2 DEF Released, Entry
  <2> HIDE DEF new
  <2> QED BY <1>1, <2>1, <2>2, <2>3, ChangeEffect
<1> QED BY <1>3, <1>4, <1>5

\* A step that only pumps
LEMMA PumpEffect ==
    ASSUME IInv, EntriesSound(entry), IInv', NEW ls, NEW active,
           Pumps(ls, entry, queue, active), SlotsStaySingle
    PROVE  Effect({}, Main, {})
<1>1. \A e \in Entries : Change(e, entry[e], entry[e])
  BY DEF Change
<1>2. Acted(entry)
  BY DEF Pumps, Pumped, Acted
<1> QED BY <1>1, <1>2, EffectFrom

\* The continuation of a command
LEMMA ContinueEffect ==
    ASSUME IInv, EntriesSound(entry), NEW e \in Entries, TaskContinues(e)
    PROVE  Effect({}, Main, {})
<1>1. IInv'
  BY NextIInv DEF Next
<1> DEFINE new == Continued(entry[e])
           ents == [entry EXCEPT ![e] = Continued(@)]
           active == [activeTaskIds EXCEPT ![entry[e].lane] = @ \ {e}]
<1>2. /\ entry[e] \in Entry
      /\ entry \in [Entries -> Entry]
      /\ queue \in [Lanes -> Seq(Entries)]
      /\ activeTaskIds \in [Lanes -> SUBSET Entries]
  BY DEF IInv, TypeOK
<1>3. entry[e].status = "running" /\ entry[e].race # "open" /\ maxConcurrent' = maxConcurrent
  BY DEF TaskContinues
<1>4. ents[e] = new /\ \A d \in Entries : d # e => ents[d] = entry[d]
  BY <1>2
<1>5. Change(e, entry[e], new)
  BY <1>3 DEF Change
<1>6. new.status = "left" /\ new.body = entry[e].body
  BY <1>2 DEF Continued, Entry
<1>7. CASE entry[e].taskGeneration = generation[entry[e].lane]
  <2>1. Drain({entry[e].lane}, ents, queue, active, maxConcurrent, generation)
    BY <1>7 DEF TaskContinues
  <2>2. \E a : Pumps({entry[e].lane}, ents, queue, a)
    BY <1>7, ContinuePumps
  <2>3. /\ active \in [Lanes -> SUBSET Entries]
        /\ \A l \in Lanes : active[l] \subseteq activeTaskIds[l]
    BY <1>2
  <2> HIDE DEF ents, active, new
  <2>4. Acted(ents)
    BY <2>2 DEF Pumps, Pumped, Acted
  <2>5. SlotsStaySingle
    BY <1>1, <1>2, <1>3, <2>1, <2>3, PumpStaysSingle
  <2>6. \A d \in Entries : Change(d, entry[d], ents[d])
    BY <1>4, <1>5 DEF Change
  <2>7. \A d \in Entries :
          /\ entry[d].status = "new" /\ ents[d].status # "new" => d \in {} /\ ents[d].lane = Main
          /\ entry[d].body = "executing" /\ ents[d].body # "executing" => d \in {}
    BY <1>3, <1>4, <1>6
  <2> QED BY <1>1, <2>4, <2>5, <2>6, <2>7, EffectFrom
<1>8. CASE entry[e].taskGeneration # generation[entry[e].lane]
  <2>1. entry' = [entry EXCEPT ![e] = new] /\ activeTaskIds' = activeTaskIds
    BY <1>8 DEF TaskContinues
  <2> HIDE DEF new
  <2> QED BY <1>1, <1>3, <1>5, <1>6, <2>1, ChangeEffect
<1> QED BY <1>7, <1>8

\* setCommandLaneConcurrency
LEMMA SetEffect ==
    ASSUME IInv, EntriesSound(entry), NEW l \in Lanes, NEW n \in Limits,
           SetCommandLaneConcurrency(l, n)
    PROVE  Effect({}, Main, {})
<1>1. IInv'
  BY NextIInv DEF Next
<1>2. /\ queue \in [Lanes -> Seq(Entries)]
      /\ activeTaskIds \in [Lanes -> SUBSET Entries]
  BY DEF IInv, TypeOK
<1>3. PICK ls : Drain(ls, entry, queue, activeTaskIds, maxConcurrent', generation)
  BY DEF SetCommandLaneConcurrency
<1>4. SlotsStaySingle
  BY <1>1, <1>2, <1>3, PumpStaysSingle
<1>5. PICK k : Pumps(k, entry, queue, activeTaskIds)
  BY SetPumps
<1> QED BY <1>1, <1>4, <1>5, PumpEffect

\* resetCommandLane and resetAllLanes
LEMMA ResetEffect ==
    ASSUME IInv, EntriesSound(entry), ResetAllLanes \/ \E l \in Lanes : ResetCommandLane(l)
    PROVE  Effect({}, Main, {})
<1>1. IInv'
  BY NextIInv DEF Next
<1>2. /\ queue \in [Lanes -> Seq(Entries)]
      /\ activeTaskIds \in [Lanes -> SUBSET Entries]
  BY DEF IInv, TypeOK
<1>3. PICK rs, active : Pumps(rs, entry, queue, active)
  BY ResetsPump
<1>4. CASE ResetAllLanes
  <2> DEFINE none == [l \in Lanes |-> {}]
             gen == [l \in Lanes |-> generation[l] + 1]
  <2>1. Drain(Lanes, entry, queue, none, maxConcurrent', gen)
    BY <1>4 DEF ResetAllLanes
  <2>2. none \in [Lanes -> SUBSET Entries] /\ \A l \in Lanes : none[l] \subseteq activeTaskIds[l]
    OBVIOUS
  <2> HIDE DEF none, gen
  <2>3. SlotsStaySingle
    BY <1>1, <1>2, <2>1, <2>2, PumpStaysSingle
  <2> QED BY <1>1, <1>3, <2>3, PumpEffect
<1>5. ASSUME NEW l \in Lanes, ResetCommandLane(l)
      PROVE  Effect({}, Main, {})
  <2> DEFINE rest == [activeTaskIds EXCEPT ![l] = {}]
             gen == [generation EXCEPT ![l] = @ + 1]
  <2>1. Drain({l}, entry, queue, rest, maxConcurrent', gen)
    BY <1>5 DEF ResetCommandLane
  <2>2. rest \in [Lanes -> SUBSET Entries] /\ \A k \in Lanes : rest[k] \subseteq activeTaskIds[k]
    BY <1>2
  <2> HIDE DEF rest, gen
  <2>3. SlotsStaySingle
    BY <1>1, <1>2, <2>1, <2>2, PumpStaysSingle
  <2> QED BY <1>1, <1>3, <2>3, PumpEffect
<1> QED BY <1>4, <1>5

\* clearCommandLane
LEMMA ClearEffect ==
    ASSUME IInv, EntriesSound(entry), NEW l \in Lanes, ClearCommandLane(l)
    PROVE  Effect({}, Main, {})
<1>1. IInv'
  BY NextIInv DEF Next
<1>2. /\ activeTaskIds' = activeTaskIds
      /\ entry' = [e \in Entries |-> IF e \in ToSet(queue[l]) THEN Cleared(entry[e]) ELSE entry[e]]
      /\ entry' \in [Entries -> Entry]
  BY <1>1 DEF ClearCommandLane, IInv, TypeOK
<1>3. ASSUME NEW e \in Entries
      PROVE  /\ Change(e, entry[e], entry'[e])
             /\ entry[e].status = "new" => entry'[e].status = "new"
             /\ entry[e].body = "executing" => entry'[e].body = "executing"
  <2>1. CASE e \in ToSet(queue[l])
    <3>1. entry'[e] = Cleared(entry[e]) /\ entry[e] \in Entry
      BY <1>2, <2>1 DEF IInv, TypeOK
    <3>2. entry[e].status = "queued"
      BY <2>1 DEF IInv, Core, QueuesMatch
    <3>3. entry'[e].body = entry[e].body
      BY <3>1 DEF Cleared, Entry
    <3> QED BY <3>1, <3>2, <3>3 DEF Change
  <2>2. CASE e \notin ToSet(queue[l])
    <3>1. entry'[e] = entry[e]
      BY <1>2, <2>2
    <3> QED BY <3>1 DEF Change
  <2> QED BY <2>1, <2>2
<1> DEFINE ents == [e \in Entries |-> IF e \in ToSet(queue[l]) THEN Cleared(entry[e]) ELSE entry[e]]
<1>4. entry' = ents
  BY <1>2
<1> HIDE DEF ents
<1>5. Acted(ents) /\ SlotsStaySingle
  BY <1>2, <1>4, NoSlots DEF Acted
<1>6. /\ \A e \in Entries : Change(e, entry[e], ents[e])
      /\ \A e \in Entries :
          /\ entry[e].status = "new" /\ ents[e].status # "new" => e \in {} /\ ents[e].lane = Main
          /\ entry[e].body = "executing" /\ ents[e].body # "executing" => e \in {}
  BY <1>3, <1>4
<1> QED BY <1>1, <1>5, <1>6, EffectFrom

\* markGatewayDraining
LEMMA DrainingEffect ==
    ASSUME IInv, EntriesSound(entry), MarkGatewayDraining
    PROVE  Effect({}, Main, {})
<1>1. IInv'
  BY NextIInv DEF Next
<1>2. entry' = entry /\ activeTaskIds' = activeTaskIds
  BY DEF MarkGatewayDraining
<1>3. \A e \in Entries : Change(e, entry[e], entry[e])
  BY DEF Change
<1>4. Acted(entry) /\ SlotsStaySingle
  BY <1>2, NoSlots DEF Acted
<1> QED BY <1>1, <1>3, <1>4, EffectFrom

\* applyGatewayLaneConcurrency pumps three lanes in one step.
LEMMA ReloadEffect ==
    ASSUME IInv, EntriesSound(entry), NEW cfg \in Configs,
           ApplyGatewayLaneConcurrency(cfg)
    PROVE  Effect({}, Main, {})
<1>1. /\ Core(entry, queue, activeTaskIds, generation, nextQueueSequence)
      /\ queue \in [Lanes -> Seq(Entries)]
      /\ activeTaskIds \in [Lanes -> SUBSET Entries]
      /\ maxConcurrent \in [Lanes -> Nat]
      /\ generation \in [Lanes -> Nat]
      /\ gatewayDraining \in BOOLEAN
      /\ nextQueueSequence \in Nat \ {0}
      /\ waiter \in [Waiters -> Waiter]
  BY DEF IInv, TypeOK
<1> DEFINE ls == {Main, Cron, CronNested}
<1>2. ls \in SUBSET Lanes
  BY ConstantsAssumption, LanesAssumption
<1>3. /\ maxConcurrent' = AppliedLimits(cfg)
      /\ Drain(ls, entry, queue, activeTaskIds, maxConcurrent', generation)
      /\ UNCHANGED <<generation, gatewayDraining, nextQueueSequence, waiter>>
  BY DEF ApplyGatewayLaneConcurrency
<1>4. cfg.agent \in Nat /\ cfg.cron \in Nat
  BY LanesAssumption
<1>5. /\ maxConcurrent' \in [Lanes -> Nat]
      /\ \A l \in Lanes \ ls : maxConcurrent'[l] = maxConcurrent[l]
  BY <1>1, <1>3, <1>4 DEF AppliedLimits
<1> HIDE DEF ls
<1>6. Core(entry, queue, activeTaskIds, generation, nextQueueSequence)'
  <2>1. nextQueueSequence \in Nat
    BY <1>1
  <2>2. Core(entry', queue', activeTaskIds', generation, nextQueueSequence)
    BY <1>1, <1>2, <1>3, <1>5, <2>1, DrainKeepsCore
  <2> QED BY <1>3, <2>2
<1>7. IInv'
  BY <1>1, <1>3, <1>5, <1>6, IInvFrom
<1>8. Pumps(ls, entry, queue, activeTaskIds)
  <2>1. nextQueueSequence \in Nat
    BY <1>1
  <2>2. Pumped(ls, entry, queue, activeTaskIds, maxConcurrent', generation)
    BY <1>1, <1>2, <1>3, <1>5, <2>1, DrainStarts
  <2> QED BY <1>2, <1>3, <1>5, <2>2 DEF Pumps
<1>9. SlotsStaySingle
  BY <1>1, <1>3, <1>7, PumpStaysSingle
<1> QED BY <1>7, <1>8, <1>9, PumpEffect

-----------------------------------------------------------------------------
(* What a step does to a run.                                              *)

\* What the tasks that start make of a run that the handler left as d
RunGoes(r, d) ==
    \/ Starts(SessionEntry(r)) /\ run'[r] = Admitted(d, SessionOf[r])
    \/ /\ Starts(GlobalEntry(r))
       /\ run'[r] \in {Claims(d), [d EXCEPT !.phase = "rejecting"]}
    \/ /\ ~Starts(SessionEntry(r)) /\ ~Starts(GlobalEntry(r))
       /\ run'[r] = d

\* What the handler itself makes of a run
Moves(r, d) ==
    /\ d \in Run
    /\ d.before = run[r].before
    /\ d.chain = run[r].chain
    /\ \/ d.phase = run[r].phase
       \/ /\ run[r].phase \in {"idle", "admitted", "called"}
          /\ d.phase \in {"admitted", "called", "session", "rejecting"}
       \/ run[r].phase = "checkpoint" /\ d.phase = "rejecting"
       \/ run[r].phase = "checkpoint" /\ d.phase = "global" /\ MaintenanceIsOver(r)

\* How its commands go with that
Matches(r, d, E, l, F) ==
    /\ SessionEntry(r) \in E =>
         /\ run[r].phase = "called"
         /\ d.phase = "session"
         /\ l = SessionLane[SessionOf[r]]
    /\ GlobalEntry(r) \in E => run[r].phase = "checkpoint" /\ d.phase = "global"
    /\ SessionEntry(r) \in F => ~SessionWaits(r) /\ d = run[r] /\ E = {}

RunsGo(E, l, F) ==
    /\ run' \in [Runs -> Run]
    /\ \A r \in Runs : \E d : RunGoes(r, d) /\ Moves(r, d) /\ Matches(r, d, E, l, F)

\* What a step does to the maintenance of a session: requests are counted,
\* and none is forgotten while it is carried out.
MaintenanceGoes ==
    \A s \in Sessions :
      LET m == maintenance[s]
          n == maintenance'[s]
      IN  /\ m.requests <= n.requests
          /\ n.active => n.chain # 0
          /\ m.requests < n.requests \/ (n.active => m.active /\ n.chain = m.chain)

\* Which worker's promise may be pending
WorkersGo ==
    \A w \in Workers : entry'[w].answer = "pending" =>
      maintenance'[w[1]].active /\ maintenance'[w[1]].worker = w

\* What limits the lanes get
LimitsGo ==
    \A l \in Lanes :
      /\ resumeTimer'[l] \in Limits
      /\ maxConcurrent'[l] = 0 => resumeTimer'[l] # 0
      /\ l \notin {Main, Cron, CronNested} =>
           maxConcurrent'[l] <= 1 /\ resumeTimer'[l] <= 1

RestTyped ==
    /\ lifecycle \in Nat
    /\ runContext \in Contexts
    /\ maintenance \in [Sessions -> Maintenance]
    /\ config \in Configs
    /\ resumeTimer \in [Lanes -> Nat]
    /\ reloads \in Nat
    /\ environment \in Environments

LaneStep ==
    /\ \E E, l, F : Effect(E, l, F) /\ RunsGo(E, l, F)
    /\ MaintenanceGoes
    /\ WorkersGo
    /\ LimitsGo
    /\ RestTyped'

\* A record with its fields
LEMMA RunFields ==
    ASSUME NEW d \in Run
    PROVE  /\ d.phase \in Phase
           /\ d.before \in Nat
           /\ d.chain \in Nat
           /\ d.aborted \in BOOLEAN
           /\ d.attempts \in Nat
           /\ d.cfg \in Configs
           /\ d.contextLost \in BOOLEAN
           /\ d.admittedIn \in Nat
           /\ d.lifecycleGeneration \in Nat
           /\ d.queuedLifecycleGeneration \in Nat
BY DEF Run

\* What becomes of a run whose session task starts, or whose turn does
LEMMA StartedRun ==
    ASSUME NEW d \in Run, lifecycle \in Nat, NEW s \in Sessions,
           maintenance \in [Sessions -> Maintenance]
    PROVE  /\ Admitted(d, s) \in Run
           /\ Admitted(d, s).phase \in {"rejecting", "checkpoint"}
           /\ Admitted(d, s).phase = "checkpoint" =>
                /\ Admitted(d, s).before = maintenance[s].requests
                /\ maintenance[s].active => Admitted(d, s).chain = maintenance[s].chain
           /\ Admitted(d, s).phase = "rejecting" => Admitted(d, s).before = d.before
           /\ Claims(d) \in Run
           /\ Claims(d).phase = "executing"
           /\ Claims(d).before = d.before
           /\ [d EXCEPT !.phase = "rejecting"] \in Run
           /\ [d EXCEPT !.phase = "rejecting"].phase = "rejecting"
           /\ [d EXCEPT !.phase = "rejecting"].before = d.before
<1> DEFINE m == maintenance[s]
           c == IF m.active THEN m.chain ELSE 0
           x == [d EXCEPT !.phase = "rejecting"]
           y == [d EXCEPT !.phase = "checkpoint", !.before = m.requests, !.chain = c]
           z == Claims(d)
<1>1. m.requests \in Nat /\ m.chain \in Nat /\ c \in Nat
  BY DEF Maintenance
<1>2. {"rejecting", "checkpoint", "executing"} \subseteq Phase
  BY DEF Phase
<1>3. x \in Run /\ x.phase = "rejecting" /\ x.before = d.before
  BY <1>2 DEF Run
<1>4. z \in Run /\ z.phase = "executing" /\ z.before = d.before
  BY <1>2 DEF Run, Claims
<1>5. Admitted(d, s) = IF d.aborted THEN x ELSE y
  BY DEF Admitted
<1>6. y.phase = "checkpoint" /\ y.before = m.requests /\ y.chain = c
  BY DEF Run
<1>7. y \in Run
  <2> HIDE DEF m, c
  <2> QED BY <1>1, <1>2 DEF Run
<1> HIDE DEF x, y, z
<1>8. CASE d.aborted
  BY <1>3, <1>4, <1>5, <1>8 DEF x, z
<1>9. CASE ~d.aborted
  <2>1. Admitted(d, s) = y
    BY <1>5, <1>9
  <2> QED BY <1>3, <1>4, <1>6, <1>7, <2>1 DEF x, z
<1> QED BY <1>8, <1>9

\* A claim leaves a context.
LEMMA ClaimedTyped ==
    ASSUME NEW c \in Context, NEW g \in Nat, NEW tokens \in SUBSET CronRuns
    PROVE  /\ Claimed(c, g, tokens) \in Context
           /\ Claimed(c, g, tokens).generation = g
BY DEF Claimed, Context

\* RunsFollow does this to every run.
LEMMA FollowGoes ==
    ASSUME NEW runs \in [Runs -> Run], RunsFollow(runs),
           run \in [Runs -> Run], RestTyped
    PROVE  /\ run' \in [Runs -> Run]
           /\ runContext' \in Contexts
           /\ \A r \in Runs : RunGoes(r, runs[r])
<1> DEFINE new(r) ==
             IF Starts(SessionEntry(r)) THEN Admitted(runs[r], SessionOf[r])
             ELSE IF Begins(r) THEN Claims(runs[r])
             ELSE IF Starts(GlobalEntry(r))
                  THEN [runs[r] EXCEPT !.phase = "rejecting"]
             ELSE runs[r]
           claimed(i) == \E r \in Runs : RunId[r] = i /\ Begins(r)
<1>1. /\ run' = [r \in Runs |-> new(r)]
      /\ runContext' = [i \in DOMAIN runContext |->
           IF claimed(i) THEN Claimed(runContext[i], lifecycle, {}) ELSE runContext[i]]
  BY DEF RunsFollow
<1>2. ASSUME NEW r \in Runs
      PROVE  new(r) \in Run /\ run'[r] = new(r)
  <2>1. /\ SessionOf[r] \in Sessions /\ runs[r] \in Run
        /\ lifecycle \in Nat /\ maintenance \in [Sessions -> Maintenance]
    BY DEF Sessions, RestTyped
  <2>2. /\ Admitted(runs[r], SessionOf[r]) \in Run
        /\ Claims(runs[r]) \in Run
        /\ [runs[r] EXCEPT !.phase = "rejecting"] \in Run
    BY <2>1, StartedRun
  <2>3. run'[r] = new(r)
    BY <1>1
  <2> QED BY <2>1, <2>2, <2>3
<1>3. ASSUME NEW r \in Runs
      PROVE  RunGoes(r, runs[r])
  <2>1. Begins(r) => Starts(GlobalEntry(r))
    BY DEF Begins
  <2> QED BY <1>2, <2>1 DEF RunGoes
<1>4. run' \in [Runs -> Run]
  <2>1. \A r \in Runs : new(r) \in Run
    BY <1>2
  <2> HIDE DEF new
  <2> QED BY <1>1, <2>1
<1>5. runContext' \in Contexts
  <2> HIDE DEF claimed, new
  <2>1. runContext \in Contexts /\ lifecycle \in Nat
    BY DEF RestTyped
  <2>2. \A i \in DOMAIN runContext : Claimed(runContext[i], lifecycle, {}) \in Context
    BY <2>1, ClaimedTyped DEF Contexts
  <2> QED BY <1>1, <2>1, <2>2 DEF Contexts
<1> QED BY <1>3, <1>4, <1>5

\* What a run may rely on after a step, and what it has seen of maintenance
RunKept(r) ==
    LET m == maintenance[SessionOf[r]]
    IN  /\ entry'[SessionEntry(r)].status # "new" =>
             entry'[SessionEntry(r)].lane = SessionLane[SessionOf[r]]
        /\ run'[r].phase = "checkpoint" \/ entry'[GlobalEntry(r)].answer = "pending" =>
             entry'[SessionEntry(r)].body = "executing"
        /\ entry'[SessionEntry(r)].status = "queued" => run'[r].phase = "session"
        /\ entry'[GlobalEntry(r)].status = "queued" => run'[r].phase = "global"
        /\ run'[r].before \in {run[r].before, m.requests}
        /\ run'[r].phase = "checkpoint" =>
             \/ /\ run[r].phase = "checkpoint"
                /\ run'[r].before = run[r].before
                /\ run'[r].chain = run[r].chain
             \/ m.active => run'[r].chain = m.chain
        /\ run'[r].phase \in {"global", "executing"} =>
             /\ run'[r].before = run[r].before
             /\ \/ run[r].phase \in {"global", "executing"}
                \/ run[r].phase = "checkpoint" /\ MaintenanceIsOver(r)

LEMMA RunKeeps ==
    ASSUME LanesInv, NEW E, NEW l, NEW F, Effect(E, l, F), NEW r \in Runs, NEW d,
           RunGoes(r, d), Moves(r, d), Matches(r, d, E, l, F)
    PROVE  RunKept(r)
<1> DEFINE S == SessionEntry(r)
           G == GlobalEntry(r)
           s == SessionOf[r]
           m == maintenance[s]
<1>1. S \in Entries \ TimedEntries /\ G \in Entries /\ s \in Sessions
  BY RunCommands DEF Sessions
<1> HIDE DEF S, G
<1>2. /\ entry[S].status # "new" => entry[S].lane = SessionLane[s]
      /\ SessionWaits(r) => entry[S].body = "executing"
      /\ entry[S].status = "queued" => run[r].phase = "session"
      /\ entry[G].status = "queued" => run[r].phase = "global"
  BY DEF LanesInv, SessionLanes, SessionHolds, QueuedPhases, S, G
<1>3. /\ lifecycle \in Nat
      /\ maintenance \in [Sessions -> Maintenance]
      /\ run[r] \in Run
  BY DEF LanesInv, LanesTypeOK
<1>4. entry[G].status = "queued" => entry[G].answer = "pending"
  BY <1>1 DEF LanesInv, IInv, Core, EntriesMatch
<1>5. \A e \in {S, G} :
        /\ entry[e].status # "new" =>
             entry'[e].status # "new" /\ entry'[e].lane = entry[e].lane
        /\ entry'[e].status = "queued" => entry[e].status \in {"new", "queued"}
        /\ entry'[e].answer = "pending" /\ entry[e].answer # "pending" =>
             entry[e].status = "new" /\ entry'[e].status # "new"
        /\ Starts(e) => entry'[e].body = "executing" /\ entry[e].status \in {"new", "queued"}
        /\ Starts(e) => entry'[e].status = "running"
        /\ entry[e].status = "new" /\ entry'[e].status # "new" =>
             e \in E /\ entry'[e].lane = l
  BY <1>1 DEF Effect, Goes, Accepts, Starts
<1>6. entry[S].body = "executing" /\ entry'[S].body # "executing" => S \in F
  BY <1>1 DEF Effect, Finishes
<1>7. /\ d \in Run /\ d.before = run[r].before /\ d.chain = run[r].chain
      /\ \/ d.phase = run[r].phase
         \/ /\ run[r].phase \in {"idle", "admitted", "called"}
            /\ d.phase \in {"admitted", "called", "session", "rejecting"}
         \/ run[r].phase = "checkpoint" /\ d.phase = "rejecting"
         \/ run[r].phase = "checkpoint" /\ d.phase = "global" /\ MaintenanceIsOver(r)
  BY DEF Moves
<1>8. /\ S \in E => /\ run[r].phase = "called"
                    /\ d.phase = "session" /\ l = SessionLane[s]
      /\ G \in E => run[r].phase = "checkpoint" /\ d.phase = "global"
      /\ S \in F => ~SessionWaits(r)
  BY DEF Matches, S, G
<1>9. SessionWaits(r) <=> run[r].phase = "checkpoint" \/ entry[G].answer = "pending"
  BY DEF SessionWaits, G
<1>10. entry'[S].status # "new" => entry'[S].lane = SessionLane[s]
  BY <1>2, <1>5, <1>8
<1>11. SessionWaits(r) => /\ entry'[S].body = "executing"
                          /\ entry[S].status = "running"
  <2>1. SessionWaits(r) => entry[S].body = "executing" /\ entry'[S].body = "executing"
    BY <1>2, <1>6, <1>8
  <2> QED BY <2>1, <1>1, UntimedExecutes DEF LanesInv
<1>12. SUFFICES
        /\ run'[r].phase = "checkpoint" \/ entry'[G].answer = "pending" =>
             entry'[S].body = "executing"
        /\ entry'[S].status = "queued" => run'[r].phase = "session"
        /\ entry'[G].status = "queued" => run'[r].phase = "global"
        /\ run'[r].before \in {run[r].before, m.requests}
        /\ run'[r].phase = "checkpoint" =>
             \/ /\ run[r].phase = "checkpoint"
                /\ run'[r].before = run[r].before
                /\ run'[r].chain = run[r].chain
             \/ m.active => run'[r].chain = m.chain
        /\ run'[r].phase \in {"global", "executing"} =>
             /\ run'[r].before = run[r].before
             /\ \/ run[r].phase \in {"global", "executing"}
                \/ run[r].phase = "checkpoint" /\ MaintenanceIsOver(r)
  BY <1>10 DEF RunKept, S, G
<1>13. CASE Starts(S) /\ run'[r] = Admitted(d, s)
  <2> DEFINE x == Admitted(d, s)
  <2>1. /\ x.phase \in {"rejecting", "checkpoint"}
        /\ x.phase = "checkpoint" =>
             x.before = m.requests /\ (m.active => x.chain = m.chain)
        /\ x.phase = "rejecting" => x.before = d.before
    BY <1>1, <1>3, <1>7, StartedRun
  <2> HIDE DEF x
  <2>2. run[r].phase \in {"session", "called"}
    BY <1>2, <1>5, <1>8, <1>13
  <2>3. entry'[S].body = "executing" /\ entry'[S].status = "running"
    BY <1>5, <1>13
  <2>4. entry'[G].status # "queued"
    BY <1>2, <1>5, <1>8, <2>2
  <2>5. run'[r] = x
    BY <1>13 DEF x
  <2> QED BY <2>1, <2>3, <2>4, <2>5, <1>7
<1>14. CASE Starts(G) /\ run'[r] \in {Claims(d), [d EXCEPT !.phase = "rejecting"]}
  <2>1. /\ run'[r].phase \in {"executing", "rejecting"}
        /\ run'[r].before = d.before
    <3>1. /\ Claims(d).phase = "executing"
          /\ Claims(d).before = d.before
          /\ [d EXCEPT !.phase = "rejecting"].phase = "rejecting"
          /\ [d EXCEPT !.phase = "rejecting"].before = d.before
      BY <1>1, <1>3, <1>7, StartedRun
    <3>2. CASE run'[r] = Claims(d)
      BY <3>1, <3>2
    <3>3. CASE run'[r] = [d EXCEPT !.phase = "rejecting"]
      BY <3>1, <3>3
    <3> QED BY <3>2, <3>3, <1>14
  <2>2. \/ run[r].phase = "global" /\ entry[G].answer = "pending"
        \/ run[r].phase = "checkpoint" /\ MaintenanceIsOver(r)
    BY <1>2, <1>4, <1>5, <1>7, <1>8, <1>14
  <2>3. entry'[S].body = "executing" /\ entry'[S].status # "queued"
    BY <2>2, <1>5, <1>9, <1>11
  <2>4. entry'[G].status = "running"
    BY <1>5, <1>14
  <2> QED BY <2>1, <2>2, <2>3, <2>4, <1>7
<1>15. CASE ~Starts(S) /\ ~Starts(G) /\ run'[r] = d
  <2>1. ASSUME run'[r].phase = "checkpoint" \/ entry'[G].answer = "pending"
        PROVE  entry'[S].body = "executing"
    <3>1. SessionWaits(r)
      BY <2>1, <1>5, <1>7, <1>8, <1>9, <1>15
    <3> QED BY <3>1, <1>11
  <2>2. entry'[S].status = "queued" => run'[r].phase = "session"
    BY <1>2, <1>5, <1>7, <1>8, <1>15
  <2>3. entry'[G].status = "queued" => run'[r].phase = "global"
    BY <1>2, <1>5, <1>7, <1>8, <1>15
  <2> QED BY <2>1, <2>2, <2>3, <1>7, <1>15
<1> QED BY <1>13, <1>14, <1>15 DEF RunGoes, S, G

\* Every such step keeps the invariant.
LEMMA LaneStepKeeps == LanesInv /\ LaneStep => LanesInv'
<1> SUFFICES ASSUME LanesInv, LaneStep
             PROVE  LanesInv'
  OBVIOUS
<1>1. PICK E, l, F : Effect(E, l, F) /\ RunsGo(E, l, F)
  BY DEF LaneStep
<1>2. IInv' /\ EntriesSound(entry') /\ Goes /\ SlotsStaySingle
  BY <1>1 DEF Effect
<1>3. run' \in [Runs -> Run] /\ \A r \in Runs : RunKept(r)
  <2>1. ASSUME NEW r \in Runs
        PROVE  RunKept(r)
    <3>1. PICK d : RunGoes(r, d) /\ Moves(r, d) /\ Matches(r, d, E, l, F)
      BY <1>1 DEF RunsGo
    <3> QED BY <1>1, <3>1, RunKeeps
  <2> QED BY <1>1, <2>1 DEF RunsGo
<1>4. MaintenanceGoes /\ WorkersGo /\ LimitsGo /\ RestTyped'
  BY DEF LaneStep
<1>5. LanesTypeOK'
  BY <1>2, <1>3, <1>4 DEF LanesTypeOK, RestTyped, IInv
<1>6. ResumeLimits' /\ ClosedLaneHasTimer'
  BY <1>4 DEF LimitsGo, ResumeLimits, ClosedLaneHasTimer
<1>7. TimeoutsTold'
  BY <1>2 DEF LanesInv, TimeoutsTold, Goes
<1>8. SingleSlots'
  BY <1>2, <1>4 DEF LanesInv, SingleSlots, SlotsStaySingle, LimitsGo
<1>9. SessionLanes' /\ SessionHolds' /\ QueuedPhases'
  BY <1>3 DEF RunKept, SessionLanes, SessionHolds, SessionWaits, QueuedPhases
<1>10. OneWorker'
  BY <1>4 DEF OneWorker, WorkersGo
<1>11. AwaitedFirst'
  <2>1. ASSUME NEW s \in Sessions
        PROVE  maintenance'[s].active => maintenance'[s].chain # 0
    BY <1>4 DEF MaintenanceGoes
  <2>2. ASSUME NEW r \in Runs
        PROVE  LET n == maintenance'[SessionOf[r]]
               IN  /\ run'[r].before <= n.requests
                   /\ n.active /\ run'[r].phase = "checkpoint" /\ run'[r].chain # n.chain
                        => n.requests > run'[r].before
                   /\ n.active /\ run'[r].phase \in {"global", "executing"}
                        => n.requests > run'[r].before
    <3> DEFINE s == SessionOf[r]
               m == maintenance[s]
               n == maintenance'[s]
    <3>1. s \in Sessions
      BY DEF Sessions
    <3>2. /\ m.requests \in Nat /\ n.requests \in Nat /\ m.chain \in Nat /\ n.chain \in Nat
          /\ run[r].before \in Nat /\ run[r].chain \in Nat
      <4>1. m \in Maintenance /\ n \in Maintenance
        BY <1>5, <3>1 DEF LanesInv, LanesTypeOK
      <4>2. run[r] \in Run
        BY DEF LanesInv, LanesTypeOK
      <4> QED BY <4>1, <4>2, RunFields DEF Maintenance
    <3>3. /\ m.requests <= n.requests
          /\ m.requests < n.requests \/ (n.active => m.active /\ n.chain = m.chain)
      BY <1>4, <3>1 DEF MaintenanceGoes
    <3>4. /\ m.active => m.chain # 0
          /\ run[r].before <= m.requests
          /\ m.active /\ run[r].phase = "checkpoint" /\ run[r].chain # m.chain
               => m.requests > run[r].before
          /\ m.active /\ run[r].phase \in {"global", "executing"}
               => m.requests > run[r].before
      BY <3>1 DEF LanesInv, AwaitedFirst
    <3>5. /\ run'[r].before \in {run[r].before, m.requests}
          /\ run'[r].phase = "checkpoint" =>
               \/ /\ run[r].phase = "checkpoint"
                  /\ run'[r].before = run[r].before
                  /\ run'[r].chain = run[r].chain
               \/ m.active => run'[r].chain = m.chain
          /\ run'[r].phase \in {"global", "executing"} =>
               /\ run'[r].before = run[r].before
               /\ \/ run[r].phase \in {"global", "executing"}
                  \/ run[r].phase = "checkpoint" /\ MaintenanceIsOver(r)
      BY <1>3 DEF RunKept
    <3>6. MaintenanceIsOver(r) => run[r].chain = 0 \/ ~m.active \/ m.chain # run[r].chain
      BY DEF MaintenanceIsOver
    <3> HIDE DEF m, n
    <3>7. CASE m.requests < n.requests
      BY <3>2, <3>4, <3>5, <3>7 DEF n
    <3>8. CASE ~(m.requests < n.requests)
      <4>1. m.requests = n.requests /\ (n.active => m.active /\ n.chain = m.chain)
        BY <3>2, <3>3, <3>8
      <4>2. run'[r].before <= n.requests
        BY <3>2, <3>4, <3>5, <4>1
      <4>3. n.active /\ run'[r].phase = "checkpoint" /\ run'[r].chain # n.chain
              => n.requests > run'[r].before
        BY <3>4, <3>5, <4>1
      <4>4. n.active /\ run'[r].phase \in {"global", "executing"}
              => n.requests > run'[r].before
        BY <3>4, <3>5, <3>6, <4>1
      <4> QED BY <4>2, <4>3, <4>4 DEF n
    <3> QED BY <3>7, <3>8
  <2> QED BY <2>1, <2>2 DEF AwaitedFirst
<1>12. EntriesSound(entry)'
  BY <1>2 DEF EntriesSound
<1> QED BY <1>2, <1>5, <1>6, <1>7, <1>8, <1>9, <1>10, <1>11, <1>12 DEF LanesInv

-----------------------------------------------------------------------------
(* The steps of the lanes.                                                 *)

\* No handler but the ones that pump starts a task.
LEMMA NothingStarts ==
    ASSUME IInv, NEW e \in Entries,
           \/ UNCHANGED vars
           \/ \E outcome : TaskSettles(e, outcome)
           \/ TaskTimesOut(e) \/ AbortTask(e) \/ ReleaseTask(e)
           \/ \E l \in Lanes : ClearCommandLane(l)
           \/ MarkGatewayDraining
    PROVE  \A d \in Entries : ~Starts(d)
<1>1. entry \in [Entries -> Entry]
  BY DEF IInv, TypeOK
<1>2. ASSUME NEW d \in Entries,
             \/ \E outcome : TaskSettles(e, outcome)
             \/ TaskTimesOut(e) \/ AbortTask(e) \/ ReleaseTask(e)
      PROVE  entry'[d].status = entry[d].status
  <2>1. entry[e] \in Entry /\ entry[d] \in Entry
    BY <1>1
  <2>2. CASE \E outcome : TaskSettles(e, outcome)
    <3>1. PICK outcome : TaskSettles(e, outcome)
      BY <2>2
    <3> DEFINE new == Settled(entry[e], outcome)
    <3>2. new.status = entry[e].status
      BY <2>1 DEF Settled, Entry
    <3>3. entry' = [entry EXCEPT ![e] = new]
      BY <3>1 DEF TaskSettles
    <3> HIDE DEF new
    <3> QED BY <1>1, <3>2, <3>3
  <2>3. CASE TaskTimesOut(e)
    BY <1>1, <2>1, <2>3 DEF TaskTimesOut, TimedOut, Entry
  <2>4. CASE AbortTask(e)
    BY <1>1, <2>1, <2>4 DEF AbortTask, Aborted, Entry
  <2>5. CASE ReleaseTask(e)
    BY <1>1, <2>1, <2>5 DEF ReleaseTask, Released, Entry
  <2> QED BY <1>2, <2>2, <2>3, <2>4, <2>5
<1>3. ASSUME NEW d \in Entries, NEW l \in Lanes, ClearCommandLane(l)
      PROVE  entry'[d].status \in {entry[d].status, "left"}
  <2>1. /\ entry[d] \in Entry
        /\ entry'[d] \in {Cleared(entry[d]), entry[d]}
    BY <1>1, <1>3 DEF ClearCommandLane
  <2> QED BY <2>1 DEF Cleared, Entry
<1>4. ASSUME UNCHANGED vars \/ MarkGatewayDraining
      PROVE  entry' = entry
  BY <1>4 DEF vars, MarkGatewayDraining
<1> QED BY <1>2, <1>3, <1>4 DEF Starts

\* Steps that leave maintenance and limits alone
LEMMA PlainStep ==
    ASSUME LanesInv, NEW E, NEW l, NEW F, Effect(E, l, F), RunsGo(E, l, F),
           \A w \in Workers : w \notin E,
           UNCHANGED <<maintenance, resumeTimer, maxConcurrent, config, reloads,
                       environment>>,
           lifecycle' \in Nat,
           runContext' \in Contexts
    PROVE  LaneStep
<1>1. MaintenanceGoes
  BY DEF LanesInv, LanesTypeOK, Maintenance, AwaitedFirst, MaintenanceGoes
<1>2. WorkersGo
  <2> SUFFICES ASSUME NEW w \in Workers, entry'[w].answer = "pending"
               PROVE  maintenance[w[1]].active /\ maintenance[w[1]].worker = w
    BY DEF WorkersGo
  <2>1. w \in Entries /\ w \notin E
    BY UntimedCommands
  <2>2. entry[w].answer = "pending"
    BY <2>1 DEF Effect, Goes, Accepts
  <2> QED BY <2>2 DEF LanesInv, OneWorker
<1>3. LimitsGo
  BY DEF LanesInv, ResumeLimits, ClosedLaneHasTimer, SingleSlots, LimitsGo
<1>4. RestTyped'
  BY DEF LanesInv, LanesTypeOK, RestTyped
<1> QED BY <1>1, <1>2, <1>3, <1>4 DEF LaneStep

\* A run that the handler leaves alone
LEMMA RunStays ==
    ASSUME LanesInv, NEW r \in Runs, NEW E, NEW l, NEW F,
           SessionEntry(r) \notin E, GlobalEntry(r) \notin E,
           SessionEntry(r) \in F => ~SessionWaits(r) /\ E = {}
    PROVE  Moves(r, run[r]) /\ Matches(r, run[r], E, l, F)
BY DEF LanesInv, LanesTypeOK, Moves, Matches

\* Steps that leave the runs alone, but for the tasks that they start
LEMMA RunsStay ==
    ASSUME LanesInv, NEW E, NEW l, NEW F,
           \A r \in Runs : /\ SessionEntry(r) \notin E
                           /\ GlobalEntry(r) \notin E
                           /\ SessionEntry(r) \in F => ~SessionWaits(r) /\ E = {},
           \/ RunsFollow(run)
           \/ /\ UNCHANGED run
              /\ runContext' \in Contexts
              /\ \A e \in Entries : ~Starts(e)
    PROVE  /\ RunsGo(E, l, F)
           /\ runContext' \in Contexts
<1>1. run \in [Runs -> Run] /\ RestTyped
  BY DEF LanesInv, LanesTypeOK, RestTyped
<1>2. \A r \in Runs : Moves(r, run[r]) /\ Matches(r, run[r], E, l, F)
  BY RunStays
<1>3. CASE RunsFollow(run)
  BY <1>1, <1>2, <1>3, FollowGoes DEF RunsGo
<1>4. CASE /\ UNCHANGED run
           /\ runContext' \in Contexts
           /\ \A e \in Entries : ~Starts(e)
  <2>1. \A r \in Runs : RunGoes(r, run[r])
    BY <1>4, RunCommands DEF RunGoes
  <2> QED BY <1>1, <1>2, <1>4, <2>1 DEF RunsGo
<1> QED BY <1>3, <1>4

\* Steps that change the run r to d, and start tasks
LEMMA OneRunGoes ==
    ASSUME LanesInv, NEW r \in Runs, NEW d, NEW E, NEW l,
           Moves(r, d), Matches(r, d, E, l, {}),
           \A q \in Runs \ {r} : SessionEntry(q) \notin E /\ GlobalEntry(q) \notin E,
           \/ RunsFollow([run EXCEPT ![r] = d])
           \/ /\ run' = [run EXCEPT ![r] = d]
              /\ runContext' \in Contexts
              /\ \A e \in Entries : ~Starts(e)
    PROVE  /\ RunsGo(E, l, {})
           /\ runContext' \in Contexts
<1> DEFINE runs == [run EXCEPT ![r] = d]
<1>1. run \in [Runs -> Run] /\ RestTyped /\ d \in Run
  BY DEF LanesInv, LanesTypeOK, RestTyped, Moves
<1>2. /\ runs \in [Runs -> Run]
      /\ runs[r] = d
      /\ \A q \in Runs \ {r} : runs[q] = run[q]
  BY <1>1
<1>3. RunsFollow(runs) \/ /\ run' = runs
                          /\ runContext' \in Contexts
                          /\ \A e \in Entries : ~Starts(e)
  OBVIOUS
<1> HIDE DEF runs
<1>4. ASSUME NEW q \in Runs
      PROVE  Moves(q, runs[q]) /\ Matches(q, runs[q], E, l, {})
  <2>1. CASE q = r
    BY <1>2, <2>1
  <2>2. CASE q # r
    <3>1. Moves(q, run[q]) /\ Matches(q, run[q], E, l, {})
      BY <2>2, RunStays
    <3> QED BY <1>2, <2>2, <3>1
  <2> QED BY <2>1, <2>2
<1>5. CASE RunsFollow(runs)
  BY <1>1, <1>2, <1>4, <1>5, FollowGoes DEF RunsGo
<1>6. CASE /\ run' = runs
           /\ runContext' \in Contexts
           /\ \A e \in Entries : ~Starts(e)
  <2>1. \A q \in Runs : RunGoes(q, runs[q])
    BY <1>2, <1>6, RunCommands DEF RunGoes
  <2> QED BY <1>2, <1>4, <1>6, <2>1 DEF RunsGo
<1> QED BY <1>3, <1>5, <1>6

\* The entries that handlers enqueue
LEMMA EnqueuePriorities ==
    /\ Normal \in Priorities
    /\ \A r \in Runs : RunPriority[r] \in Priorities
    /\ \A r \in Runs : ResolveGlobalLane(r) \in Lanes
    /\ \A r \in Runs : /\ SessionOf[r] \in Sessions
                       /\ SessionLane[SessionOf[r]] \in Lanes
    /\ \A s \in Sessions : SessionLane[s] \in Lanes /\ MaintenanceLane[s] \in Lanes
BY LanesAssumption DEF ResolveGlobalLane, Sessions

\* Steps of one command: EnqueueCronRun, CommandContinues and the like
LEMMA EnqueueCronRunStep ==
    ASSUME LanesInv, NEW r \in Runs, EnqueueCronRun(r)
    PROVE  LaneStep
<1> DEFINE e == CronEntry(r)
<1>1. e \in Entries /\ Cron \in Lanes
  BY RunCommands, LanesAssumption DEF EnqueueCronRun
<1>2. /\ EnqueueCommandInLane(e, Cron, Normal)
      /\ RunsFollow(run)
      /\ UNCHANGED <<lifecycle, maintenance, config, resumeTimer, reloads, environment>>
  BY DEF EnqueueCronRun
<1>3. maxConcurrent' = maxConcurrent
  BY <1>2 DEF EnqueueCommandInLane
<1>4. \A q \in Runs : SessionEntry(q) \notin {e} /\ GlobalEntry(q) \notin {e}
  BY RunCommands
<1>5. \A w \in Workers : w \notin {e}
  BY RunCommands
<1> HIDE DEF e
<1>6. Effect({e}, Cron, {})
  BY <1>1, <1>2, EnqueueEffect, EnqueuePriorities DEF LanesInv
<1>7. /\ RunsGo({e}, Cron, {})
      /\ runContext' \in Contexts
  BY <1>2, <1>4, RunsStay
<1> QED BY <1>2, <1>3, <1>5, <1>6, <1>7, PlainStep DEF LanesInv, LanesTypeOK

\* Steps that leave the runs and everything but the queue alone, and end at
\* most a task that is not a session's
LEMMA QueueStep ==
    ASSUME LanesInv, NEW F, Effect({}, Main, F),
           \A r \in Runs : SessionEntry(r) \in F => ~SessionWaits(r),
           \/ RunsFollow(run)
           \/ /\ UNCHANGED run
              /\ runContext' \in Contexts
              /\ \A e \in Entries : ~Starts(e),
           UNCHANGED <<maintenance, resumeTimer, maxConcurrent, config, reloads,
                       environment>>,
           lifecycle' \in Nat
    PROVE  LaneStep
<1>1. /\ RunsGo({}, Main, F)
      /\ runContext' \in Contexts
  BY RunsStay
<1> QED BY <1>1, PlainStep

\* A task ends.
LEMMA SettleStep ==
    ASSUME LanesInv, NEW e \in Entries, NEW outcome \in {"value", "error"},
           TaskSettles(e, outcome), Unchanged,
           \A r \in Runs : e = SessionEntry(r) => ~SessionWaits(r)
    PROVE  LaneStep
<1>1. Effect({}, Main, {e})
  BY SettleEffect DEF LanesInv
<1>2. \A d \in Entries : ~Starts(d)
  BY NothingStarts DEF LanesInv
<1>3. UNCHANGED maxConcurrent
  BY DEF TaskSettles
<1>4. /\ UNCHANGED <<run, maintenance, resumeTimer, config, reloads, environment>>
      /\ lifecycle' \in Nat
      /\ runContext' \in Contexts
  BY DEF LanesInv, LanesTypeOK, Unchanged, laneVars
<1> QED BY <1>1, <1>2, <1>3, <1>4, QueueStep

\* A turn times out, or is released.
LEMMA TimerStep ==
    ASSUME LanesInv, NEW e \in Entries, TaskTimesOut(e) \/ ReleaseTask(e), Unchanged
    PROVE  LaneStep
<1>1. Effect({}, Main, {})
  BY TimerEffect DEF LanesInv
<1>2. \A d \in Entries : ~Starts(d)
  BY NothingStarts DEF LanesInv
<1>3. UNCHANGED maxConcurrent
  BY DEF TaskTimesOut, ReleaseTask
<1>4. /\ UNCHANGED <<run, maintenance, resumeTimer, config, reloads, environment>>
      /\ lifecycle' \in Nat
      /\ runContext' \in Contexts
  BY DEF LanesInv, LanesTypeOK, Unchanged, laneVars
<1> QED BY <1>1, <1>2, <1>3, <1>4, QueueStep

\* The continuation of a command, the reset of lanes
LEMMA PumpStep ==
    ASSUME LanesInv,
           \/ \E e \in Entries : TaskContinues(e)
           \/ ResetAllLanes
           \/ \E l \in Lanes : ResetCommandLane(l),
           RunsFollow(run),
           UNCHANGED <<lifecycle, maintenance, config, resumeTimer, reloads, environment>>
    PROVE  LaneStep
<1>1. Effect({}, Main, {})
  BY ContinueEffect, ResetEffect DEF LanesInv
<1>2. UNCHANGED maxConcurrent
  BY DEF TaskContinues, ResetAllLanes, ResetCommandLane
<1>3. lifecycle' \in Nat
  BY DEF LanesInv, LanesTypeOK
<1> QED BY <1>1, <1>2, <1>3, QueueStep

\* The queue of a session is cleared, a restart begins or the lifecycle turns.
LEMMA StillStep ==
    ASSUME LanesInv,
           \/ \E s \in Sessions : ClearSessionQueue(s)
           \/ BeginRestart
           \/ RotateLifecycle
    PROVE  LaneStep
<1>1. /\ lifecycle \in Nat
      /\ runContext \in Contexts
      /\ IInv /\ EntriesSound(entry)
  BY DEF LanesInv, LanesTypeOK
<1>2. ASSUME NEW s \in Sessions, ClearSessionQueue(s)
      PROVE  LaneStep
  <2>1. ClearCommandLane(SessionLane[s]) /\ Unchanged /\ SessionLane[s] \in Lanes
    BY <1>2, EnqueuePriorities DEF ClearSessionQueue
  <2>2. Effect({}, Main, {})
    BY <1>1, <2>1, ClearEffect
  <2>3. \A d \in Entries : ~Starts(d)
    <3> SUFFICES ASSUME NEW d \in Entries
                 PROVE  ~Starts(d)
      OBVIOUS
    <3> QED BY <1>1, <2>1, NothingStarts
  <2>4. /\ UNCHANGED <<run, maintenance, resumeTimer, maxConcurrent, config, reloads, environment>>
        /\ lifecycle' \in Nat
        /\ runContext' \in Contexts
    BY <1>1, <2>1 DEF ClearCommandLane, Unchanged, laneVars
  <2> QED BY <2>2, <2>3, <2>4, QueueStep
<1>3. CASE BeginRestart
  <2>1. MarkGatewayDraining /\ Unchanged
    BY <1>3 DEF BeginRestart
  <2>2. Effect({}, Main, {})
    BY <1>1, <2>1, DrainingEffect
  <2>3. \A d \in Entries : ~Starts(d)
    <3> SUFFICES ASSUME NEW d \in Entries
                 PROVE  ~Starts(d)
      OBVIOUS
    <3> QED BY <1>1, <2>1, NothingStarts
  <2>4. /\ UNCHANGED <<run, maintenance, resumeTimer, maxConcurrent, config, reloads, environment>>
        /\ lifecycle' \in Nat
        /\ runContext' \in Contexts
    BY <1>1, <2>1 DEF MarkGatewayDraining, Unchanged, laneVars
  <2> QED BY <2>2, <2>3, <2>4, QueueStep
<1>4. ASSUME UNCHANGED <<vars, run, maintenance, resumeTimer, config, reloads, environment>>,
             lifecycle' \in Nat,
             runContext' \in Contexts
      PROVE  LaneStep
  <2>1. Effect({}, Main, {})
    BY <1>1, <1>4, IdleEffect
  <2>2. \A d \in Entries : ~Starts(d)
    <3> SUFFICES ASSUME NEW d \in Entries
                 PROVE  ~Starts(d)
      OBVIOUS
    <3> QED BY <1>1, <1>4, NothingStarts
  <2>3. UNCHANGED maxConcurrent
    BY <1>4 DEF vars
  <2> QED BY <1>4, <2>1, <2>2, <2>3, QueueStep
<1>5. CASE RotateLifecycle
  BY <1>1, <1>4, <1>5 DEF RotateLifecycle
<1> QED BY <1>2, <1>3, <1>5

\* Contexts are cleared, released or swept.
LEMMA ForgottenStep ==
    ASSUME LanesInv, NEW ids, Forgotten(ids),
           UNCHANGED <<vars, lifecycle, maintenance, config, resumeTimer, reloads, environment>>
    PROVE  LaneStep
<1>1. /\ run \in [Runs -> Run] /\ runContext \in Contexts
      /\ IInv /\ EntriesSound(entry) /\ lifecycle \in Nat
  BY DEF LanesInv, LanesTypeOK
<1>2. \A d \in Entries : ~Starts(d)
  <2> SUFFICES ASSUME NEW d \in Entries
               PROVE  ~Starts(d)
    OBVIOUS
  <2> QED BY <1>1, NothingStarts
<1>3. ASSUME NEW r \in Runs
      PROVE  RunGoes(r, run'[r]) /\ Moves(r, run'[r]) /\ Matches(r, run'[r], {}, Main, {})
  <2> DEFINE lost == [run[r] EXCEPT !.contextLost = TRUE]
  <2>1. /\ lost \in Run /\ lost.before = run[r].before /\ lost.chain = run[r].chain
        /\ lost.phase = run[r].phase /\ run[r] \in Run
    BY <1>1 DEF Run
  <2>2. run'[r] \in {lost, run[r]}
    BY DEF Forgotten
  <2> HIDE DEF lost
  <2>3. Moves(r, run'[r])
    BY <2>1, <2>2 DEF Moves
  <2>4. RunGoes(r, run'[r])
    BY <1>2, RunCommands DEF RunGoes
  <2> QED BY <2>3, <2>4 DEF Matches
<1>4. run' \in [Runs -> Run]
  <2>1. \A r \in Runs : run'[r] \in Run
    BY <1>3 DEF Moves
  <2>2. DOMAIN run' = Runs /\ run' = [r \in Runs |-> run'[r]]
    BY DEF Forgotten
  <2> QED BY <2>1, <2>2
<1>5. RunsGo({}, Main, {})
  BY <1>3, <1>4 DEF RunsGo
<1>6. runContext' \in Contexts
  BY <1>1 DEF Forgotten, Contexts, Context, NoContext
<1>7. Effect({}, Main, {})
  BY <1>1, IdleEffect
<1>8. UNCHANGED maxConcurrent
  BY DEF vars
<1> QED BY <1>1, <1>5, <1>6, <1>7, <1>8, PlainStep

\* Steps that change one run and leave maintenance and limits alone
LEMMA OneRunStep ==
    ASSUME LanesInv, NEW r \in Runs, NEW d, NEW E, NEW l, Effect(E, l, {}),
           Moves(r, d), Matches(r, d, E, l, {}),
           E \subseteq {SessionEntry(r), GlobalEntry(r)},
           \/ RunsFollow([run EXCEPT ![r] = d])
           \/ /\ run' = [run EXCEPT ![r] = d]
              /\ runContext' \in Contexts
              /\ \A e \in Entries : ~Starts(e),
           UNCHANGED <<lifecycle, maintenance, resumeTimer, maxConcurrent, config,
                       reloads, environment>>
    PROVE  LaneStep
<1>1. \A q \in Runs \ {r} : SessionEntry(q) \notin E /\ GlobalEntry(q) \notin E
  BY RunCommands
<1>2. \A w \in Workers : w \notin E
  BY RunCommands
<1>3. /\ RunsGo(E, l, {})
      /\ runContext' \in Contexts
  BY <1>1, OneRunGoes
<1>4. lifecycle' \in Nat
  BY DEF LanesInv, LanesTypeOK
<1> QED BY <1>2, <1>3, <1>4, PlainStep

\* Nothing happens in the queue.
LEMMA OneRunStill ==
    ASSUME LanesInv, NEW r \in Runs, NEW d, Moves(r, d),
           run' = [run EXCEPT ![r] = d],
           runContext' \in Contexts,
           UNCHANGED <<vars, lifecycle, maintenance, resumeTimer, config, reloads,
                       environment>>
    PROVE  LaneStep
<1>1. Effect({}, Main, {})
  BY IdleEffect DEF LanesInv
<1>2. \A e \in Entries : ~Starts(e)
  <2> SUFFICES ASSUME NEW e \in Entries
               PROVE  ~Starts(e)
    OBVIOUS
  <2> QED BY NothingStarts DEF LanesInv
<1>3. Matches(r, d, {}, Main, {})
  BY DEF Matches
<1>4. UNCHANGED maxConcurrent
  BY DEF vars
<1> QED BY <1>1, <1>2, <1>3, <1>4, OneRunStep

LEMMA AdmitChatRunStep ==
    ASSUME LanesInv, NEW r \in Runs, AdmitChatRun(r)
    PROVE  LaneStep
<1> DEFINE d == [run[r] EXCEPT !.phase = "admitted", !.admittedIn = lifecycle,
                               !.lifecycleGeneration = lifecycle,
                               !.contextLost = FALSE]
<1>1. /\ run \in [Runs -> Run] /\ run[r] \in Run /\ lifecycle \in Nat
      /\ runContext \in Contexts
  BY DEF LanesInv, LanesTypeOK
<1>2. /\ run[r].phase = "idle"
      /\ run' = [run EXCEPT ![r] = d]
      /\ UNCHANGED <<vars, lifecycle, maintenance, resumeTimer, config, reloads, environment>>
  BY <1>1 DEF AdmitChatRun
<1>5. runContext' \in Contexts
  <2>1. RunId[r] \in DOMAIN runContext /\ runContext[RunId[r]] \in Context
    BY <1>1 DEF Contexts
  <2>2. Claimed(runContext[RunId[r]], lifecycle, {}) \in Context
    BY <1>1, <2>1, ClaimedTyped
  <2>3. runContext' = [runContext EXCEPT
                         ![RunId[r]] = Claimed(runContext[RunId[r]], lifecycle, {})]
    BY DEF AdmitChatRun
  <2> QED BY <1>1, <2>2, <2>3 DEF Contexts
<1>3. /\ d \in Run /\ d.before = run[r].before /\ d.chain = run[r].chain
      /\ d.phase = "admitted"
  BY <1>1 DEF Run, Phase
<1> HIDE DEF d
<1>4. Moves(r, d)
  BY <1>2, <1>3 DEF Moves
<1> QED BY <1>2, <1>4, <1>5, OneRunStill

LEMMA AdmitCronRunStep ==
    ASSUME LanesInv, NEW r \in Runs, AdmitCronRun(r)
    PROVE  LaneStep
<1> DEFINE d == [run[r] EXCEPT !.phase = "admitted", !.contextLost = FALSE]
           c == Claimed(runContext[RunId[r]], lifecycle, {r})
<1>1. /\ run \in [Runs -> Run] /\ run[r] \in Run /\ lifecycle \in Nat
      /\ runContext \in Contexts
  BY DEF LanesInv, LanesTypeOK
<1>2. /\ run[r].phase = "idle" /\ r \in CronRuns
      /\ run' = [run EXCEPT ![r] = d]
      /\ runContext' = [runContext EXCEPT ![RunId[r]] = c]
      /\ UNCHANGED <<vars, lifecycle, maintenance, resumeTimer, config, reloads, environment>>
  BY <1>1 DEF AdmitCronRun
<1>3. /\ d \in Run /\ d.before = run[r].before /\ d.chain = run[r].chain
      /\ d.phase = "admitted"
  BY <1>1 DEF Run, Phase
<1>4. c \in Context
  <2>1. runContext[RunId[r]] \in Context /\ {r} \in SUBSET CronRuns
    BY <1>1, <1>2 DEF Contexts
  <2> QED BY <1>1, <2>1, ClaimedTyped
<1> HIDE DEF d, c
<1>5. runContext' \in Contexts
  BY <1>1, <1>2, <1>4 DEF Contexts
<1>6. Moves(r, d)
  BY <1>2, <1>3 DEF Moves
<1> QED BY <1>2, <1>5, <1>6, OneRunStill

LEMMA RunEmbeddedAgentStep ==
    ASSUME LanesInv, NEW r \in Runs, RunEmbeddedAgent(r)
    PROVE  LaneStep
<1> DEFINE g == IF r \in CronRuns THEN CapturedGeneration(r)
                ELSE run[r].lifecycleGeneration
           d == [run[r] EXCEPT
                   !.phase = "called", !.cfg = config,
                   !.lifecycleGeneration = g, !.queuedLifecycleGeneration = lifecycle]
<1>1. /\ run \in [Runs -> Run] /\ run[r] \in Run /\ lifecycle \in Nat /\ config \in Configs
      /\ runContext \in Contexts /\ runContext[RunId[r]].generation \in Nat
  BY DEF LanesInv, LanesTypeOK, Contexts, Context
<1>2. g \in Nat
  BY <1>1, RunFields DEF CapturedGeneration
<1>3. /\ run[r].phase = "admitted"
      /\ run' = [run EXCEPT ![r] = d]
      /\ UNCHANGED <<vars, runContext, lifecycle, maintenance, resumeTimer, config, reloads,
                     environment>>
  BY <1>1 DEF RunEmbeddedAgent
<1> HIDE DEF g
<1>4. /\ d \in Run /\ d.before = run[r].before /\ d.chain = run[r].chain
      /\ d.phase = "called"
  BY <1>1, <1>2 DEF Run, Phase
<1> HIDE DEF d
<1>5. Moves(r, d)
  BY <1>3, <1>4 DEF Moves
<1> QED BY <1>1, <1>3, <1>5, OneRunStill

LEMMA EnqueueSessionStep ==
    ASSUME LanesInv, NEW r \in Runs, EnqueueSession(r)
    PROVE  LaneStep
<1>1. /\ run \in [Runs -> Run] /\ run[r] \in Run
      /\ runContext \in Contexts
  BY DEF LanesInv, LanesTypeOK
<1>2. /\ run[r].phase = "called"
      /\ UNCHANGED <<lifecycle, maintenance, config, resumeTimer, reloads, environment>>
  BY DEF EnqueueSession
<1>3. CASE run[r].aborted
  <2> DEFINE d == [run[r] EXCEPT !.phase = "rejecting"]
  <2>1. /\ run' = [run EXCEPT ![r] = d]
        /\ UNCHANGED <<vars, runContext>>
    BY <1>1, <1>3 DEF EnqueueSession
  <2>2. /\ d \in Run /\ d.before = run[r].before /\ d.chain = run[r].chain
        /\ d.phase = "rejecting"
    BY <1>1 DEF Run, Phase
  <2> HIDE DEF d
  <2>3. Moves(r, d)
    BY <1>2, <2>2 DEF Moves
  <2> QED BY <1>1, <1>2, <2>1, <2>3, OneRunStill
<1>4. CASE ~run[r].aborted
  <2> DEFINE d == [run[r] EXCEPT !.phase = "session"]
             e == SessionEntry(r)
             l == SessionLane[SessionOf[r]]
  <2>1. /\ EnqueueCommandInLane(e, l, RunPriority[r])
        /\ RunsFollow([run EXCEPT ![r] = d])
    BY <1>1, <1>4 DEF EnqueueSession
  <2>2. UNCHANGED maxConcurrent
    BY <2>1 DEF EnqueueCommandInLane
  <2>3. e \in Entries /\ l \in Lanes /\ RunPriority[r] \in Priorities
    BY RunCommands, EnqueuePriorities
  <2>4. /\ d \in Run /\ d.before = run[r].before /\ d.chain = run[r].chain
        /\ d.phase = "session"
    BY <1>1 DEF Run, Phase
  <2>5. GlobalEntry(r) \notin {e}
    BY RunCommands
  <2> HIDE DEF d
  <2>6. Moves(r, d) /\ Matches(r, d, {e}, l, {})
    BY <1>2, <2>4, <2>5 DEF Moves, Matches
  <2>7. Effect({e}, l, {})
    BY <2>1, <2>3, EnqueueEffect DEF LanesInv
  <2>8. {e} \subseteq {SessionEntry(r), GlobalEntry(r)}
    OBVIOUS
  <2> HIDE DEF e, l
  <2> QED BY <1>2, <2>1, <2>2, <2>6, <2>7, <2>8, OneRunStep
<1> QED BY <1>3, <1>4

\* The context of a run id is cleared, released or swept.
LEMMA ContextStep ==
    ASSUME LanesInv,
           \/ \E r \in Runs : ClearAgentRunContext(r) \/ ReleaseAgentRunContext(r)
           \/ \E ids \in SUBSET DOMAIN runContext : SweepStaleRunContexts(ids)
    PROVE  LaneStep
<1>1. ASSUME NEW r \in Runs, ClearAgentRunContext(r)
      PROVE  LaneStep
  BY <1>1, ForgottenStep DEF ClearAgentRunContext
<1>2. ASSUME NEW ids, SweepStaleRunContexts(ids)
      PROVE  LaneStep
  BY <1>2, ForgottenStep DEF SweepStaleRunContexts
<1>3. ASSUME NEW r \in Runs, ReleaseAgentRunContext(r)
      PROVE  LaneStep
  <2>1. UNCHANGED <<vars, lifecycle, maintenance, config, resumeTimer, reloads, environment>>
    BY <1>3 DEF ReleaseAgentRunContext
  <2>2. CASE Forgotten({RunId[r]})
    BY <2>1, <2>2, ForgottenStep
  <2>3. CASE /\ runContext' = [runContext EXCEPT ![RunId[r]].owners = @ \ {r}]
             /\ UNCHANGED run
    <3>1. run \in [Runs -> Run] /\ runContext \in Contexts /\ run[r] \in Run
      BY DEF LanesInv, LanesTypeOK
    <3>2. runContext' \in Contexts
      BY <2>3, <3>1 DEF Contexts, Context
    <3>3. run' = [run EXCEPT ![r] = run[r]]
      BY <2>3, <3>1
    <3>4. Moves(r, run[r])
      BY <3>1 DEF Moves
    <3> QED BY <2>1, <3>2, <3>3, <3>4, OneRunStill
  <2> QED BY <1>3, <2>2, <2>3 DEF ReleaseAgentRunContext
<1> QED BY <1>1, <1>2, <1>3

LEMMA PassCheckpointStep ==
    ASSUME LanesInv, NEW r \in Runs, PassCheckpoint(r)
    PROVE  LaneStep
<1>1. /\ run \in [Runs -> Run] /\ run[r] \in Run
      /\ runContext \in Contexts
  BY DEF LanesInv, LanesTypeOK
<1>2. /\ run[r].phase = "checkpoint" /\ MaintenanceIsOver(r)
      /\ UNCHANGED <<lifecycle, maintenance, config, resumeTimer, reloads, environment>>
  BY DEF PassCheckpoint
<1>3. CASE run[r].aborted
  <2> DEFINE d == [run[r] EXCEPT !.phase = "rejecting"]
  <2>1. /\ run' = [run EXCEPT ![r] = d]
        /\ UNCHANGED <<vars, runContext>>
    BY <1>1, <1>3 DEF PassCheckpoint
  <2>2. /\ d \in Run /\ d.before = run[r].before /\ d.chain = run[r].chain
        /\ d.phase = "rejecting"
    BY <1>1 DEF Run, Phase
  <2> HIDE DEF d
  <2>3. Moves(r, d)
    BY <1>2, <2>2 DEF Moves
  <2> QED BY <1>1, <1>2, <2>1, <2>3, OneRunStill
<1>4. CASE ~run[r].aborted
  <2> DEFINE d == [run[r] EXCEPT !.phase = "global"]
             e == GlobalEntry(r)
             l == ResolveGlobalLane(r)
  <2>1. /\ EnqueueCommandInLane(e, l, RunPriority[r])
        /\ RunsFollow([run EXCEPT ![r] = d])
    BY <1>1, <1>4 DEF PassCheckpoint
  <2>2. UNCHANGED maxConcurrent
    BY <2>1 DEF EnqueueCommandInLane
  <2>3. e \in Entries /\ l \in Lanes /\ RunPriority[r] \in Priorities
    BY RunCommands, EnqueuePriorities
  <2>4. /\ d \in Run /\ d.before = run[r].before /\ d.chain = run[r].chain
        /\ d.phase = "global"
    BY <1>1 DEF Run, Phase
  <2>5. SessionEntry(r) \notin {e}
    BY RunCommands
  <2> HIDE DEF d
  <2>6. Moves(r, d) /\ Matches(r, d, {e}, l, {})
    BY <1>2, <2>4, <2>5 DEF Moves, Matches
  <2>7. Effect({e}, l, {})
    BY <2>1, <2>3, EnqueueEffect DEF LanesInv
  <2>8. {e} \subseteq {SessionEntry(r), GlobalEntry(r)}
    OBVIOUS
  <2> HIDE DEF e, l
  <2> QED BY <1>2, <2>1, <2>2, <2>6, <2>7, <2>8, OneRunStep
<1> QED BY <1>3, <1>4

LEMMA AbortRunStep ==
    ASSUME LanesInv, NEW r \in Runs, AbortRun(r)
    PROVE  LaneStep
<1> DEFINE d == [run[r] EXCEPT !.aborted = TRUE]
           e == GlobalEntry(r)
<1>1. /\ run \in [Runs -> Run] /\ run[r] \in Run
      /\ runContext \in Contexts
      /\ e \in Entries
  BY RunCommands DEF LanesInv, LanesTypeOK
<1>2. /\ run' = [run EXCEPT ![r] = d]
      /\ AbortTask(e) \/ UNCHANGED vars
      /\ UNCHANGED <<lifecycle, runContext, maintenance, config, resumeTimer, reloads, environment>>
  BY <1>1 DEF AbortRun
<1>3. /\ d \in Run /\ d.before = run[r].before /\ d.chain = run[r].chain
      /\ d.phase = run[r].phase
  BY <1>1 DEF Run
<1> HIDE DEF d, e
<1>4. Moves(r, d) /\ Matches(r, d, {}, Main, {})
  BY <1>3 DEF Moves, Matches
<1>5. CASE AbortTask(e)
  <2>1. Effect({}, Main, {})
    BY <1>1, <1>5, TimerEffect DEF LanesInv
  <2>2. \A c \in Entries : ~Starts(c)
    BY <1>1, <1>5, NothingStarts DEF LanesInv
  <2>3. UNCHANGED maxConcurrent
    BY <1>5 DEF AbortTask
  <2> QED BY <1>1, <1>2, <1>4, <2>1, <2>2, <2>3, OneRunStep
<1>6. CASE UNCHANGED vars
  BY <1>1, <1>2, <1>4, <1>6, OneRunStill
<1> QED BY <1>2, <1>5, <1>6

LEMMA SuspendForFailureStep ==
    ASSUME LanesInv, NEW r \in Runs, SuspendForFailure(r)
    PROVE  LaneStep
<1> DEFINE d == [run[r] EXCEPT !.suspending = "patching"]
<1>1. /\ run \in [Runs -> Run] /\ run[r] \in Run
      /\ runContext \in Contexts
  BY DEF LanesInv, LanesTypeOK
<1>2. /\ run' = [run EXCEPT ![r] = d]
      /\ UNCHANGED <<vars, lifecycle, runContext, maintenance, config, resumeTimer,
                     reloads, environment>>
  BY <1>1 DEF SuspendForFailure
<1>3. /\ d \in Run /\ d.before = run[r].before /\ d.chain = run[r].chain
      /\ d.phase = run[r].phase
  BY <1>1 DEF Run
<1> HIDE DEF d
<1>4. Moves(r, d)
  BY <1>3 DEF Moves
<1> QED BY <1>1, <1>2, <1>4, OneRunStill

-----------------------------------------------------------------------------
(* Steps that change the limits of lanes.                                  *)

\* A configuration gives every lane a slot.
LEMMA ConfiguredLimits ==
    ASSUME NEW cfg \in Configs
    PROVE  /\ cfg.agent \in Limits /\ cfg.cron \in Limits
           /\ cfg.agent \in Nat \ {0} /\ cfg.cron \in Nat \ {0}
           /\ 0 \in Limits /\ 1 \in Limits
           /\ \A l \in Lanes :
                /\ ResolveLaneResumeConcurrency(cfg, l) \in Limits
                /\ ResolveLaneResumeConcurrency(cfg, l) \in Nat \ {0}
                /\ l \notin {Main, Cron, CronNested} =>
                     ResolveLaneResumeConcurrency(cfg, l) = 1
<1>1. cfg.agent \in Limits /\ cfg.cron \in Limits /\ 0 \in Limits /\ 1 \in Limits
  BY LanesAssumption
<1>2. cfg.agent \in Nat \ {0} /\ cfg.cron \in Nat \ {0}
  BY LanesAssumption
<1> QED BY <1>1, <1>2 DEF ResolveLaneResumeConcurrency

LEMMA LimitStep ==
    ASSUME LanesInv, Effect({}, Main, {}), RunsGo({}, Main, {}), LimitsGo,
           UNCHANGED <<maintenance, lifecycle, environment>>,
           runContext' \in Contexts,
           config' \in Configs,
           reloads' \in Nat,
           resumeTimer' \in [Lanes -> Nat]
    PROVE  LaneStep
<1>1. MaintenanceGoes
  BY DEF LanesInv, LanesTypeOK, Maintenance, AwaitedFirst, MaintenanceGoes
<1>2. WorkersGo
  <2> SUFFICES ASSUME NEW w \in Workers, entry'[w].answer = "pending"
               PROVE  maintenance[w[1]].active /\ maintenance[w[1]].worker = w
    BY DEF WorkersGo
  <2>1. w \in Entries
    BY UntimedCommands
  <2>2. entry[w].answer = "pending"
    BY <2>1 DEF Effect, Goes, Accepts
  <2> QED BY <2>2 DEF LanesInv, OneWorker
<1>3. RestTyped'
  BY DEF LanesInv, LanesTypeOK, RestTyped
<1> QED BY <1>1, <1>2, <1>3 DEF LaneStep

LEMMA SuspendSessionStep ==
    ASSUME LanesInv, NEW r \in Runs, NEW written \in BOOLEAN, SuspendSession(r, written)
    PROVE  LaneStep
<1> DEFINE d == [run[r] EXCEPT !.suspending = "done"]
           l == ResolveGlobalLane(r)
<1>1. /\ run \in [Runs -> Run] /\ run[r] \in Run
      /\ maxConcurrent \in [Lanes -> Nat] /\ resumeTimer \in [Lanes -> Nat]
      /\ config \in Configs /\ reloads \in Nat
  BY DEF LanesInv, LanesTypeOK, TypeOK
<1>2. l \in Lanes
  BY EnqueuePriorities
<1>3. /\ d \in Run /\ d.before = run[r].before /\ d.chain = run[r].chain
      /\ d.phase = run[r].phase
  BY <1>1 DEF Run
<1>4. RunsFollow([run EXCEPT ![r] = d])
  BY <1>1 DEF SuspendSession
<1>5. UNCHANGED <<lifecycle, maintenance, config, reloads, environment>>
  BY DEF SuspendSession
<1>6. \/ /\ SetCommandLaneConcurrency(l, 0)
         /\ resumeTimer' = ScheduledResume(l, ResolveLaneResumeConcurrency(run[r].cfg, l))
      \/ UNCHANGED <<vars, resumeTimer>>
  BY DEF SuspendSession
<1> HIDE DEF d, l
<1>7. Moves(r, d) /\ Matches(r, d, {}, Main, {})
  BY <1>3 DEF Moves, Matches
<1>8. RunsGo({}, Main, {}) /\ runContext' \in Contexts
  <2>1. \A q \in Runs \ {r} : SessionEntry(q) \notin {} /\ GlobalEntry(q) \notin {}
    OBVIOUS
  <2>2. \/ RunsFollow([run EXCEPT ![r] = d])
        \/ /\ run' = [run EXCEPT ![r] = d]
           /\ runContext' \in Contexts
           /\ \A e \in Entries : ~Starts(e)
    BY <1>4
  <2> QED BY <1>7, <2>1, <2>2, OneRunGoes
<1>9. CASE UNCHANGED <<vars, resumeTimer>>
  <2>1. Effect({}, Main, {})
    BY <1>9, IdleEffect DEF LanesInv
  <2>2. LimitsGo
    BY <1>9 DEF LanesInv, ResumeLimits, ClosedLaneHasTimer, SingleSlots, LimitsGo, vars
  <2> QED BY <1>1, <1>5, <1>8, <1>9, <2>1, <2>2, LimitStep
<1>10. CASE /\ SetCommandLaneConcurrency(l, 0)
            /\ resumeTimer' = ScheduledResume(l, ResolveLaneResumeConcurrency(run[r].cfg, l))
  <2> DEFINE n == ResolveLaneResumeConcurrency(run[r].cfg, l)
  <2>1. run[r].cfg \in Configs
    BY <1>1, RunFields
  <2>2. /\ n \in Limits /\ n \in Nat \ {0} /\ 0 \in Limits
        /\ l \notin {Main, Cron, CronNested} => n = 1
    BY <1>2, <2>1, ConfiguredLimits
  <2> HIDE DEF n
  <2>3. Effect({}, Main, {})
    BY <1>2, <1>10, <2>2, SetEffect DEF LanesInv
  <2>4. resumeTimer' = [resumeTimer EXCEPT ![l] = n]
    BY <1>10 DEF n, ScheduledResume
  <2>5. /\ maxConcurrent' = [maxConcurrent EXCEPT ![l] = EffectiveLimit(l, 0)]
        /\ EffectiveLimit(l, 0) \in {0, 1}
    BY <1>10 DEF SetCommandLaneConcurrency, EffectiveLimit
  <2>6. LimitsGo
    <3> SUFFICES ASSUME NEW k \in Lanes
                 PROVE  /\ resumeTimer'[k] \in Limits
                        /\ maxConcurrent'[k] = 0 => resumeTimer'[k] # 0
                        /\ k \notin {Main, Cron, CronNested} =>
                             maxConcurrent'[k] <= 1 /\ resumeTimer'[k] <= 1
      BY DEF LimitsGo
    <3>1. CASE k = l
      BY <1>1, <1>2, <2>2, <2>4, <2>5, <3>1
    <3>2. CASE k # l
      <4>1. maxConcurrent'[k] = maxConcurrent[k] /\ resumeTimer'[k] = resumeTimer[k]
        BY <1>1, <2>4, <2>5, <3>2
      <4> QED BY <4>1 DEF LanesInv, ResumeLimits, ClosedLaneHasTimer, SingleSlots
    <3> QED BY <3>1, <3>2
  <2>7. resumeTimer' \in [Lanes -> Nat]
    BY <1>1, <2>2, <2>4
  <2> QED BY <1>1, <1>5, <1>8, <2>3, <2>6, <2>7, LimitStep
<1> QED BY <1>6, <1>9, <1>10

LEMMA ResumeLaneStep ==
    ASSUME LanesInv, NEW l \in Lanes, ResumeLane(l)
    PROVE  LaneStep
<1> DEFINE n == resumeTimer[l]
<1>1. /\ maxConcurrent \in [Lanes -> Nat] /\ resumeTimer \in [Lanes -> Nat]
      /\ config \in Configs /\ reloads \in Nat
  BY DEF LanesInv, LanesTypeOK, TypeOK
<1>2. /\ n # 0
      /\ SetCommandLaneConcurrency(l, n)
      /\ resumeTimer' = [resumeTimer EXCEPT ![l] = 0]
      /\ RunsFollow(run)
      /\ UNCHANGED <<lifecycle, maintenance, config, reloads, environment>>
  BY DEF ResumeLane
<1>3. n \in Nat /\ n \in Limits
  BY <1>1 DEF LanesInv, ResumeLimits
<1>4. 0 \in Limits
  BY LanesAssumption
<1> HIDE DEF n
<1>5. Effect({}, Main, {})
  BY <1>2, <1>3, SetEffect DEF LanesInv
<1>6. RunsGo({}, Main, {}) /\ runContext' \in Contexts
  <2>1. \A r \in Runs : /\ SessionEntry(r) \notin {}
                        /\ GlobalEntry(r) \notin {}
                        /\ SessionEntry(r) \in {} => ~SessionWaits(r) /\ {} = {}
    OBVIOUS
  <2>2. \/ RunsFollow(run)
        \/ /\ UNCHANGED run
           /\ runContext' \in Contexts
           /\ \A e \in Entries : ~Starts(e)
    BY <1>2
  <2> QED BY <2>1, <2>2, RunsStay
<1>7. /\ maxConcurrent' = [maxConcurrent EXCEPT ![l] = EffectiveLimit(l, n)]
      /\ EffectiveLimit(l, n) = n
  BY <1>2, <1>3 DEF SetCommandLaneConcurrency, EffectiveLimit
<1>8. LimitsGo
  <2> SUFFICES ASSUME NEW k \in Lanes
               PROVE  /\ resumeTimer'[k] \in Limits
                      /\ maxConcurrent'[k] = 0 => resumeTimer'[k] # 0
                      /\ k \notin {Main, Cron, CronNested} =>
                           maxConcurrent'[k] <= 1 /\ resumeTimer'[k] <= 1
    BY DEF LimitsGo
  <2>1. CASE k = l
    <3>1. maxConcurrent'[k] = n /\ resumeTimer'[k] = 0
      BY <1>1, <1>2, <1>7, <2>1
    <3>2. k \notin {Main, Cron, CronNested} => n <= 1
      BY <2>1 DEF LanesInv, SingleSlots, n
    <3> QED BY <1>2, <1>4, <3>1, <3>2
  <2>2. CASE k # l
    <3>1. maxConcurrent'[k] = maxConcurrent[k] /\ resumeTimer'[k] = resumeTimer[k]
      BY <1>1, <1>2, <1>7, <2>2
    <3> QED BY <3>1 DEF LanesInv, ResumeLimits, ClosedLaneHasTimer, SingleSlots
  <2> QED BY <2>1, <2>2
<1>9. resumeTimer' \in [Lanes -> Nat]
  BY <1>1, <1>2
<1> QED BY <1>1, <1>2, <1>5, <1>6, <1>8, <1>9, LimitStep

LEMMA ReloadStep ==
    ASSUME LanesInv, NEW cfg \in Configs, ApplyGatewayLaneConcurrency(cfg)
    PROVE  LaneStep
<1>1. /\ maxConcurrent \in [Lanes -> Nat] /\ resumeTimer \in [Lanes -> Nat]
      /\ reloads \in Nat
  BY DEF LanesInv, LanesTypeOK, TypeOK
<1>2. /\ reloads' = reloads + 1
      /\ config' = cfg
      /\ maxConcurrent' = AppliedLimits(cfg)
      /\ RunsFollow(run)
      /\ UNCHANGED <<lifecycle, maintenance, resumeTimer, environment>>
  BY DEF ApplyGatewayLaneConcurrency
<1>3. cfg.agent \in Nat \ {0} /\ cfg.cron \in Nat \ {0}
  BY ConfiguredLimits
<1>4. Effect({}, Main, {})
  BY ReloadEffect DEF LanesInv
<1>5. RunsGo({}, Main, {}) /\ runContext' \in Contexts
  <2>1. \A r \in Runs : /\ SessionEntry(r) \notin {}
                        /\ GlobalEntry(r) \notin {}
                        /\ SessionEntry(r) \in {} => ~SessionWaits(r) /\ {} = {}
    OBVIOUS
  <2>2. \/ RunsFollow(run)
        \/ /\ UNCHANGED run
           /\ runContext' \in Contexts
           /\ \A e \in Entries : ~Starts(e)
    BY <1>2
  <2> QED BY <2>1, <2>2, RunsStay
<1>6. LimitsGo
  <2> SUFFICES ASSUME NEW k \in Lanes
               PROVE  /\ resumeTimer'[k] \in Limits
                      /\ maxConcurrent'[k] = 0 => resumeTimer'[k] # 0
                      /\ k \notin {Main, Cron, CronNested} =>
                           maxConcurrent'[k] <= 1 /\ resumeTimer'[k] <= 1
    BY DEF LimitsGo
  <2>1. resumeTimer'[k] = resumeTimer[k]
    BY <1>2
  <2>2. CASE k \in {Main, Cron, CronNested}
    <3>1. maxConcurrent'[k] \in {cfg.agent, cfg.cron}
      BY <1>2, <2>2 DEF AppliedLimits
    <3> QED BY <1>3, <2>1, <2>2, <3>1 DEF LanesInv, ResumeLimits
  <2>3. CASE k \notin {Main, Cron, CronNested}
    <3>1. maxConcurrent'[k] = maxConcurrent[k]
      BY <1>2, <2>3 DEF AppliedLimits
    <3> QED BY <2>1, <2>3, <3>1
            DEF LanesInv, ResumeLimits, ClosedLaneHasTimer, SingleSlots
  <2> QED BY <2>2, <2>3
<1> QED BY <1>1, <1>2, <1>4, <1>5, <1>6, LimitStep

-----------------------------------------------------------------------------
(* Steps of the maintenance.                                               *)

\* No worker of the session is waited for.
NoWorker(s) == \A w \in Workers : w[1] = s => entry[w].answer # "pending"

\* The maintenance m may follow what the session has.
Follows(s, m) ==
    /\ m \in Maintenance
    /\ maintenance[s].requests <= m.requests
    /\ m.active => m.chain # 0
    /\ \/ maintenance[s].requests < m.requests
       \/ m.active => maintenance[s].active /\ m.chain = maintenance[s].chain

LEMMA MaintenanceFollows ==
    ASSUME LanesInv, NEW s \in Sessions, NEW m, Follows(s, m),
           maintenance' = [maintenance EXCEPT ![s] = m]
    PROVE  MaintenanceGoes /\ maintenance' \in [Sessions -> Maintenance]
<1>1. maintenance \in [Sessions -> Maintenance] /\ m \in Maintenance
  BY DEF LanesInv, LanesTypeOK, Follows
<1>2. maintenance' \in [Sessions -> Maintenance]
  BY <1>1
<1>3. ASSUME NEW k \in Sessions
      PROVE  /\ maintenance[k].requests <= maintenance'[k].requests
             /\ maintenance'[k].active => maintenance'[k].chain # 0
             /\ \/ maintenance[k].requests < maintenance'[k].requests
                \/ maintenance'[k].active =>
                     maintenance[k].active /\ maintenance'[k].chain = maintenance[k].chain
  <2>1. CASE k = s
    <3>1. maintenance'[k] = m
      BY <1>1, <2>1
    <3> QED BY <2>1, <3>1 DEF Follows
  <2>2. CASE k # s
    <3>1. maintenance'[k] = maintenance[k]
      BY <1>1, <2>2
    <3>2. maintenance[k].active => maintenance[k].chain # 0
      BY DEF LanesInv, AwaitedFirst
    <3>3. maintenance[k].requests \in Nat
      BY <1>1 DEF Maintenance
    <3> QED BY <3>1, <3>2, <3>3
  <2> QED BY <2>1, <2>2
<1> QED BY <1>2, <1>3 DEF MaintenanceGoes

LEMMA MaintenanceStep ==
    ASSUME LanesInv, NEW E, NEW l, Effect(E, l, {}), RunsGo(E, l, {}),
           runContext' \in Contexts,
           MaintenanceGoes, WorkersGo, maintenance' \in [Sessions -> Maintenance],
           UNCHANGED <<maxConcurrent, resumeTimer, lifecycle, config, reloads,
                       environment>>
    PROVE  LaneStep
<1>1. LimitsGo
  BY DEF LanesInv, ResumeLimits, ClosedLaneHasTimer, SingleSlots, LimitsGo
<1>2. RestTyped'
  BY DEF LanesInv, LanesTypeOK, RestTyped
<1> QED BY <1>1, <1>2 DEF LaneStep

\* Where the queue does nothing, the session keeps its worker or has none.
LEMMA WorkersKeep ==
    ASSUME LanesInv, NEW s \in Sessions, NEW m,
           UNCHANGED vars, maintenance' = [maintenance EXCEPT ![s] = m],
           \/ NoWorker(s)
           \/ m.active = maintenance[s].active /\ m.worker = maintenance[s].worker
    PROVE  WorkersGo
<1> SUFFICES ASSUME NEW w \in Workers, entry'[w].answer = "pending"
             PROVE  maintenance'[w[1]].active /\ maintenance'[w[1]].worker = w
  BY DEF WorkersGo
<1>1. /\ maintenance \in [Sessions -> Maintenance]
      /\ w[1] \in Sessions
      /\ entry[w].answer = "pending"
  BY UntimedCommands DEF LanesInv, LanesTypeOK, vars
<1>2. maintenance[w[1]].active /\ maintenance[w[1]].worker = w
  BY <1>1 DEF LanesInv, OneWorker
<1>3. CASE w[1] = s
  BY <1>1, <1>2, <1>3 DEF NoWorker
<1>4. CASE w[1] # s
  BY <1>1, <1>2, <1>4
<1> QED BY <1>3, <1>4

\* A worker is enqueued when none is waited for.
LEMMA EnqueueWorkerGoes ==
    ASSUME LanesInv, NEW s \in Sessions, NEW m, EnqueueWorker(s, m), NoWorker(s),
           NEW w, w = CHOOSE v \in Idle(s) : TRUE,
           Follows(s, [m EXCEPT !.active = TRUE, !.worker = w, !.rerunRequested = FALSE]),
           m \in Maintenance
    PROVE  /\ w \in Workers
           /\ Effect({w}, MaintenanceLane[s], {})
           /\ MaintenanceGoes
           /\ WorkersGo
           /\ maintenance' \in [Sessions -> Maintenance]
           /\ UNCHANGED maxConcurrent
<1> DEFINE n == [m EXCEPT !.active = TRUE, !.worker = w, !.rerunRequested = FALSE]
           l == MaintenanceLane[s]
<1>1. /\ Idle(s) # {}
      /\ EnqueueCommandInLane(w, l, Normal)
      /\ maintenance' = [maintenance EXCEPT ![s] = n]
  BY DEF EnqueueWorker
<1>2. w \in Workers /\ w[1] = s
  BY <1>1 DEF Idle
<1>3. w \in Entries /\ l \in Lanes /\ Normal \in Priorities
  BY <1>2, UntimedCommands, EnqueuePriorities
<1>4. n.active /\ n.worker = w
  BY DEF Maintenance
<1>5. Follows(s, n)
  OBVIOUS
<1> HIDE DEF n, l
<1>6. Effect({w}, l, {})
  BY <1>1, <1>3, EnqueueEffect DEF LanesInv
<1>7. MaintenanceGoes /\ maintenance' \in [Sessions -> Maintenance]
  BY <1>1, <1>5, MaintenanceFollows
<1>8. WorkersGo
  <2> SUFFICES ASSUME NEW v \in Workers, entry'[v].answer = "pending"
               PROVE  maintenance'[v[1]].active /\ maintenance'[v[1]].worker = v
    BY DEF WorkersGo
  <2>1. maintenance \in [Sessions -> Maintenance] /\ v \in Entries /\ v[1] \in Sessions
    BY UntimedCommands DEF LanesInv, LanesTypeOK
  <2>2. CASE v = w
    BY <1>1, <1>2, <1>4, <2>1, <2>2
  <2>3. CASE v # w
    <3>1. entry[v].answer = "pending"
      BY <1>6, <2>1, <2>3 DEF Effect, Goes, Accepts
    <3>2. v[1] # s
      BY <3>1 DEF NoWorker
    <3>3. maintenance[v[1]].active /\ maintenance[v[1]].worker = v
      BY <3>1 DEF LanesInv, OneWorker
    <3> QED BY <1>1, <2>1, <3>2, <3>3
  <2> QED BY <2>2, <2>3
<1>9. UNCHANGED maxConcurrent
  BY <1>1 DEF EnqueueCommandInLane
<1> QED BY <1>2, <1>6, <1>7, <1>8, <1>9 DEF l

LEMMA ScheduleDeferredTurnMaintenanceStep ==
    ASSUME LanesInv, NEW r \in Runs, ScheduleDeferredTurnMaintenance(r)
    PROVE  LaneStep
<1> DEFINE s == SessionOf[r]
           old == maintenance[s]
           m == [old EXCEPT !.requests = @ + 1]
           d == [run[r] EXCEPT !.attempts = @ + 1]
<1>1. /\ run \in [Runs -> Run] /\ run[r] \in Run
      /\ maintenance \in [Sessions -> Maintenance]
      /\ s \in Sessions /\ old \in Maintenance
  BY EnqueuePriorities DEF LanesInv, LanesTypeOK
<1>2. RunsFollow([run EXCEPT ![r] = d])
  BY <1>1 DEF ScheduleDeferredTurnMaintenance
<1>3. UNCHANGED <<lifecycle, config, resumeTimer, reloads, environment>>
  BY DEF ScheduleDeferredTurnMaintenance
<1>4. \/ UNCHANGED <<vars, maintenance>>
      \/ /\ old.active
         /\ maintenance' = [maintenance EXCEPT ![s] = [m EXCEPT !.rerunRequested = TRUE]]
         /\ UNCHANGED vars
      \/ /\ ~old.active
         /\ EnqueueWorker(s, [m EXCEPT !.chain = @ + 1])
  BY DEF ScheduleDeferredTurnMaintenance
<1>5. /\ d \in Run /\ d.before = run[r].before /\ d.chain = run[r].chain
      /\ d.phase = run[r].phase
  <2>1. run[r].attempts \in Nat
    BY <1>1, RunFields
  <2> QED BY <1>1, <2>1 DEF Run
<1>6. /\ old.requests \in Nat /\ old.chain \in Nat
      /\ old.active => old.chain # 0
  BY <1>1 DEF Maintenance, LanesInv, AwaitedFirst
<1>7. m \in Maintenance /\ m.requests = old.requests + 1 /\ m.chain = old.chain
      /\ m.active = old.active /\ m.worker = old.worker
  BY <1>1, <1>6 DEF Maintenance
<1> HIDE DEF d, s, m
<1>8. Moves(r, d)
  BY <1>5 DEF Moves
<1>9. \/ RunsFollow([run EXCEPT ![r] = d])
      \/ /\ run' = [run EXCEPT ![r] = d]
         /\ runContext' \in Contexts
         /\ \A e \in Entries : ~Starts(e)
  BY <1>2
<1>10. ASSUME UNCHANGED vars
       PROVE  /\ Effect({}, Main, {})
              /\ RunsGo({}, Main, {})
              /\ runContext' \in Contexts
              /\ UNCHANGED maxConcurrent
  <2>1. Effect({}, Main, {})
    BY <1>10, IdleEffect DEF LanesInv
  <2>2. Matches(r, d, {}, Main, {})
    BY DEF Matches
  <2>3. \A q \in Runs \ {r} : SessionEntry(q) \notin {} /\ GlobalEntry(q) \notin {}
    OBVIOUS
  <2>4. RunsGo({}, Main, {}) /\ runContext' \in Contexts
    BY <1>8, <1>9, <2>2, <2>3, OneRunGoes
  <2> QED BY <1>10, <2>1, <2>4 DEF vars
<1>11. CASE UNCHANGED <<vars, maintenance>>
  <2>1. MaintenanceGoes /\ maintenance' \in [Sessions -> Maintenance]
    BY <1>11 DEF LanesInv, LanesTypeOK, Maintenance, AwaitedFirst, MaintenanceGoes
  <2>2. WorkersGo
    BY <1>11 DEF LanesInv, OneWorker, WorkersGo, vars
  <2> QED BY <1>3, <1>10, <1>11, <2>1, <2>2, MaintenanceStep
<1>12. CASE /\ old.active
            /\ maintenance' = [maintenance EXCEPT ![s] = [m EXCEPT !.rerunRequested = TRUE]]
            /\ UNCHANGED vars
  <2> DEFINE n == [m EXCEPT !.rerunRequested = TRUE]
  <2>1. /\ n \in Maintenance /\ n.requests = m.requests /\ n.chain = m.chain
        /\ n.active = m.active /\ n.worker = m.worker
    BY <1>7 DEF Maintenance
  <2>2. maintenance' = [maintenance EXCEPT ![s] = n]
    BY <1>12
  <2> HIDE DEF n
  <2>3. Follows(s, n)
    BY <1>6, <1>7, <2>1 DEF Follows
  <2>4. MaintenanceGoes /\ maintenance' \in [Sessions -> Maintenance]
    BY <1>1, <2>2, <2>3, MaintenanceFollows
  <2>5. WorkersGo
    BY <1>1, <1>7, <1>12, <2>1, <2>2, WorkersKeep
  <2> QED BY <1>3, <1>10, <1>12, <2>4, <2>5, MaintenanceStep
<1>13. CASE /\ ~old.active
            /\ EnqueueWorker(s, [m EXCEPT !.chain = @ + 1])
  <2> DEFINE n == [m EXCEPT !.chain = @ + 1]
             w == CHOOSE v \in Idle(s) : TRUE
             k == [n EXCEPT !.active = TRUE, !.worker = w, !.rerunRequested = FALSE]
             l == MaintenanceLane[s]
  <2>1. n \in Maintenance /\ n.requests = old.requests + 1 /\ n.chain = old.chain + 1
    BY <1>6, <1>7 DEF Maintenance
  <2>2. EnqueueWorker(s, n)
    BY <1>13
  <2>3. NoWorker(s)
    BY <1>13 DEF NoWorker, LanesInv, OneWorker
  <2>4. w \in Workers
    BY <2>2 DEF EnqueueWorker, Idle
  <2> HIDE DEF n, w
  <2>5. k \in Maintenance /\ k.requests = old.requests + 1 /\ k.chain = old.chain + 1
    BY <2>1, <2>4 DEF Maintenance
  <2> HIDE DEF k
  <2>6. Follows(s, k)
    BY <1>6, <2>5 DEF Follows
  <2>7. /\ Effect({w}, l, {})
        /\ MaintenanceGoes
        /\ WorkersGo
        /\ maintenance' \in [Sessions -> Maintenance]
        /\ UNCHANGED maxConcurrent
    BY <1>1, <2>1, <2>2, <2>3, <2>6, EnqueueWorkerGoes DEF w, k
  <2>8. \A q \in Runs : SessionEntry(q) \notin {w} /\ GlobalEntry(q) \notin {w}
    BY <2>4, RunCommands
  <2>9. Matches(r, d, {w}, l, {})
    BY <2>8 DEF Matches
  <2>10. \A q \in Runs \ {r} : SessionEntry(q) \notin {w} /\ GlobalEntry(q) \notin {w}
    BY <2>8
  <2> HIDE DEF l
  <2>11. RunsGo({w}, l, {}) /\ runContext' \in Contexts
    BY <1>8, <1>9, <2>9, <2>10, OneRunGoes
  <2> QED BY <1>3, <2>7, <2>11, MaintenanceStep
<1> QED BY <1>4, <1>11, <1>12, <1>13

LEMMA CleanupDeferredTurnMaintenanceStep ==
    ASSUME LanesInv, NEW s \in Sessions, CleanupDeferredTurnMaintenance(s)
    PROVE  LaneStep
<1> DEFINE m == maintenance[s]
<1>1. /\ maintenance \in [Sessions -> Maintenance] /\ m \in Maintenance
  BY DEF LanesInv, LanesTypeOK
<1>2. /\ m.active
      /\ entry[m.worker].answer # "pending"
      /\ RunsFollow(run)
      /\ UNCHANGED <<lifecycle, config, resumeTimer, reloads, environment>>
  BY DEF CleanupDeferredTurnMaintenance
<1>3. \/ EnqueueWorker(s, m)
      \/ /\ maintenance' = [maintenance EXCEPT ![s] =
                              [m EXCEPT !.active = FALSE, !.rerunRequested = FALSE]]
         /\ UNCHANGED vars
  BY DEF CleanupDeferredTurnMaintenance, RerunPromise
<1>4. NoWorker(s)
  BY <1>2 DEF NoWorker, LanesInv, OneWorker
<1>5. m.requests \in Nat /\ m.chain # 0
  BY <1>1, <1>2 DEF Maintenance, LanesInv, AwaitedFirst
<1>6. \/ RunsFollow(run)
      \/ /\ UNCHANGED run
         /\ runContext' \in Contexts
         /\ \A e \in Entries : ~Starts(e)
  BY <1>2
<1>7. CASE EnqueueWorker(s, m)
  <2> DEFINE w == CHOOSE v \in Idle(s) : TRUE
             k == [m EXCEPT !.active = TRUE, !.worker = w, !.rerunRequested = FALSE]
             l == MaintenanceLane[s]
  <2>1. w \in Workers
    BY <1>7 DEF EnqueueWorker, Idle
  <2> HIDE DEF w
  <2>2. k \in Maintenance /\ k.requests = m.requests /\ k.chain = m.chain
    BY <1>1, <2>1 DEF Maintenance
  <2> HIDE DEF k
  <2>3. Follows(s, k)
    BY <1>2, <1>5, <2>2 DEF Follows
  <2>4. /\ Effect({w}, l, {})
        /\ MaintenanceGoes
        /\ WorkersGo
        /\ maintenance' \in [Sessions -> Maintenance]
        /\ UNCHANGED maxConcurrent
    BY <1>1, <1>4, <1>7, <2>3, EnqueueWorkerGoes DEF w, k
  <2>5. \A r \in Runs : /\ SessionEntry(r) \notin {w}
                        /\ GlobalEntry(r) \notin {w}
                        /\ SessionEntry(r) \in {} => ~SessionWaits(r) /\ {w} = {}
    BY <2>1, RunCommands
  <2> HIDE DEF l
  <2>6. RunsGo({w}, l, {}) /\ runContext' \in Contexts
    BY <1>6, <2>5, RunsStay
  <2> QED BY <1>2, <2>4, <2>6, MaintenanceStep
<1>8. CASE /\ maintenance' = [maintenance EXCEPT ![s] =
                                [m EXCEPT !.active = FALSE, !.rerunRequested = FALSE]]
           /\ UNCHANGED vars
  <2> DEFINE n == [m EXCEPT !.active = FALSE, !.rerunRequested = FALSE]
  <2>1. n \in Maintenance /\ n.requests = m.requests /\ ~n.active
    BY <1>1 DEF Maintenance
  <2>2. maintenance' = [maintenance EXCEPT ![s] = n]
    BY <1>8
  <2> HIDE DEF n
  <2>3. Follows(s, n)
    BY <1>5, <2>1 DEF Follows
  <2>4. MaintenanceGoes /\ maintenance' \in [Sessions -> Maintenance]
    BY <2>2, <2>3, MaintenanceFollows
  <2>5. WorkersGo
    BY <1>4, <1>8, <2>2, WorkersKeep
  <2>6. Effect({}, Main, {})
    BY <1>8, IdleEffect DEF LanesInv
  <2>7. \A r \in Runs : /\ SessionEntry(r) \notin {}
                        /\ GlobalEntry(r) \notin {}
                        /\ SessionEntry(r) \in {} => ~SessionWaits(r) /\ {} = {}
    OBVIOUS
  <2>8. RunsGo({}, Main, {}) /\ runContext' \in Contexts
    BY <1>6, <2>7, RunsStay
  <2>9. UNCHANGED maxConcurrent
    BY <1>8 DEF vars
  <2> QED BY <1>2, <2>4, <2>5, <2>6, <2>8, <2>9, MaintenanceStep
<1> QED BY <1>3, <1>7, <1>8

-----------------------------------------------------------------------------
(* The invariant holds.                                                    *)

LEMMA LanesInitInv == LanesInit => LanesInv
<1> SUFFICES ASSUME LanesInit
             PROVE  LanesInv
  OBVIOUS
<1>1. Fresh \in Entry
  BY ConstantsAssumption
     DEF Fresh, Entry, Status, Priority, Normal, Background, Foreground, Timer,
         Race, Body, Answer
<1>2. config \in Configs /\ environment \in Environments
  BY LanesAssumption DEF LanesInit
<1>3. \A l \in Lanes : maxConcurrent[l] = ResolveLaneResumeConcurrency(config, l)
  BY DEF LanesInit
<1>4. /\ 0 \in Limits
      /\ \A l \in Lanes : /\ maxConcurrent[l] \in Nat \ {0}
                          /\ l \notin {Main, Cron, CronNested} => maxConcurrent[l] = 1
  BY <1>2, <1>3, ConfiguredLimits
<1>5. TypeOK
  <2>1. entry \in [Entries -> Entry]
    BY <1>1 DEF LanesInit
  <2>2. waiter \in [Waiters -> Waiter]
    BY DEF LanesInit, Waiter
  <2>3. queue \in [Lanes -> Seq(Entries)] /\ activeTaskIds \in [Lanes -> SUBSET Entries]
    BY EmptySeq DEF LanesInit
  <2>4. maxConcurrent \in [Lanes -> Nat]
    <3>1. maxConcurrent = [l \in Lanes |-> ResolveLaneResumeConcurrency(config, l)]
      BY DEF LanesInit
    <3> QED BY <1>2, <3>1, ConfiguredLimits
  <2>5. generation \in [Lanes -> Nat]
    BY DEF LanesInit
  <2>6. nextQueueSequence \in Nat \ {0}
    BY DEF LanesInit
  <2>7. gatewayDraining \in BOOLEAN
    BY DEF LanesInit
  <2> QED BY <2>1, <2>2, <2>3, <2>4, <2>5, <2>6, <2>7 DEF TypeOK
<1>6. \A e \in Entries : /\ entry[e].status = "new" /\ entry[e].answer = "none"
                         /\ entry[e].body = "idle" /\ entry[e].race = "open"
                         /\ entry[e].timer = "off"
  BY DEF LanesInit, Fresh
<1>7. \A l \in Lanes : queue[l] = <<>> /\ activeTaskIds[l] = {}
  BY DEF LanesInit
<1>8. IInv
  <2>1. ToSet(<<>>) = {} /\ DOMAIN <<>> = {}
    BY DEF ToSet
  <2>2. QueuesMatch(entry, queue) /\ QueuesOrdered(entry, queue)
    BY <1>6, <1>7, <2>1 DEF QueuesMatch, QueuesOrdered, Distinct
  <2>3. /\ SlotsMatch(entry, activeTaskIds, generation)
        /\ EntriesMatch(entry, generation, nextQueueSequence)
    BY <1>6, <1>7 DEF SlotsMatch, EntriesMatch
  <2> QED BY <1>5, <2>2, <2>3 DEF IInv, Core, Typed, TypeOK
<1>9. EntriesSound(entry)
  BY <1>6 DEF EntriesSound, EntrySound
<1>10. \A r \in Runs : /\ run[r].phase = "idle" /\ run[r].before = 0
                       /\ SessionOf[r] \in Sessions
  BY EnqueuePriorities DEF LanesInit
<1>11. \A s \in Sessions : ~maintenance[s].active /\ maintenance[s].requests = 0
  BY DEF LanesInit
<1>12. \A l \in Lanes : resumeTimer[l] = 0
  BY DEF LanesInit
<1>13. LanesTypeOK
  <2>1. run \in [Runs -> Run]
    BY <1>2 DEF LanesInit, Run, Phase
  <2>2. maintenance \in [Sessions -> Maintenance]
    <3>1. (CHOOSE w \in Workers : TRUE) \in Workers
      BY LanesAssumption
    <3> QED BY <3>1 DEF LanesInit, Maintenance
  <2>3. /\ runContext \in Contexts
        /\ lifecycle \in Nat
        /\ resumeTimer \in [Lanes -> Nat]
        /\ reloads \in Nat
    BY DEF LanesInit, Contexts, Context, NoContext
  <2> QED BY <1>2, <1>5, <2>1, <2>2, <2>3 DEF LanesTypeOK
<1>14. ResumeLimits /\ ClosedLaneHasTimer
  BY <1>4, <1>12 DEF ResumeLimits, ClosedLaneHasTimer
<1>15. SingleSlots
  BY <1>4, <1>7, <1>12 DEF SingleSlots, Single
<1>16. TimeoutsTold
  BY <1>6 DEF TimeoutsTold
<1>17. SessionLanes /\ SessionHolds /\ QueuedPhases
  <2> SUFFICES ASSUME NEW r \in Runs
               PROVE  /\ entry[SessionEntry(r)].status = "new"
                      /\ entry[GlobalEntry(r)].status = "new"
                      /\ ~SessionWaits(r)
    BY DEF SessionLanes, SessionHolds, QueuedPhases
  <2>1. SessionEntry(r) \in Entries /\ GlobalEntry(r) \in Entries
    BY RunCommands
  <2> QED BY <1>6, <1>10, <2>1 DEF SessionWaits
<1>18. OneWorker
  BY <1>6, UntimedCommands DEF OneWorker
<1>19. AwaitedFirst
  BY <1>10, <1>11 DEF AwaitedFirst
<1> QED BY <1>8, <1>9, <1>13, <1>14, <1>15, <1>16, <1>17, <1>18, <1>19 DEF LanesInv

\* The steps of the event loop and the continuations between them
LEMMA NextIsLaneStep ==
    ASSUME LanesInv, LanesNext
    PROVE  LaneStep
<1>1. CASE Continuations
  <2>1. ASSUME NEW e \in Entries, CommandContinues(e)
        PROVE  LaneStep
    BY <2>1, PumpStep DEF CommandContinues
  <2>2. ASSUME NEW r \in Runs, PassCheckpoint(r)
        PROVE  LaneStep
    BY <2>2, PassCheckpointStep
  <2>3. ASSUME NEW r \in Runs, SessionSettles(r)
        PROVE  LaneStep
    <3>1. SessionEntry(r) \in Entries /\ \A q \in Runs : SessionEntry(r) = SessionEntry(q) => r = q
      BY RunCommands
    <3>2. PICK outcome \in {"value", "error"} : TaskSettles(SessionEntry(r), outcome)
      BY <2>3 DEF SessionSettles
    <3>3. ~SessionWaits(r) /\ Unchanged
      BY <2>3 DEF SessionSettles
    <3>4. \A q \in Runs : SessionEntry(r) = SessionEntry(q) => ~SessionWaits(q)
      BY <3>1, <3>3
    <3> QED BY <3>1, <3>2, <3>3, <3>4, SettleStep
  <2>4. ASSUME NEW s \in Sessions, CleanupDeferredTurnMaintenance(s)
        PROVE  LaneStep
    BY <2>4, CleanupDeferredTurnMaintenanceStep
  <2> QED BY <1>1, <2>1, <2>2, <2>3, <2>4 DEF Continuations
<1>2. ASSUME NEW r \in Runs, TurnSettles(r)
      PROVE  LaneStep
  <2>1. GlobalEntry(r) \in Entries /\ \A q \in Runs : GlobalEntry(r) # SessionEntry(q)
    BY RunCommands
  <2>2. PICK outcome \in {"value", "error"} : TaskSettles(GlobalEntry(r), outcome)
    BY <1>2 DEF TurnSettles
  <2>3. Unchanged
    BY <1>2 DEF TurnSettles
  <2>4. \A q \in Runs : GlobalEntry(r) = SessionEntry(q) => ~SessionWaits(q)
    BY <2>1
  <2> QED BY <2>1, <2>2, <2>3, <2>4, SettleStep
<1>3. ASSUME NEW r \in Runs, CronJobEnds(r) \/ CronJobGivesUp(r)
      PROVE  LaneStep
  <2>1. r \in CronRuns /\ Unchanged
    BY <1>3 DEF CronJobEnds, CronJobGivesUp
  <2>2. CronEntry(r) \in Entries
    BY <2>1, UntimedCommands
  <2>3. PICK outcome \in {"value", "error"} : TaskSettles(CronEntry(r), outcome)
    BY <1>3 DEF CronJobEnds, CronJobGivesUp
  <2>4. \A q \in Runs : CronEntry(r) = SessionEntry(q) => ~SessionWaits(q)
    BY RunCommands
  <2> QED BY <2>1, <2>2, <2>3, <2>4, SettleStep
<1>4. ASSUME NEW w \in Workers, WorkerSettles(w)
      PROVE  LaneStep
  <2>1. w \in Entries
    BY UntimedCommands
  <2>2. PICK outcome \in {"value", "error"} : TaskSettles(w, outcome)
    BY <1>4 DEF WorkerSettles
  <2>3. \A q \in Runs : w = SessionEntry(q) => ~SessionWaits(q)
    BY RunCommands
  <2>4. Unchanged
    BY <1>4 DEF WorkerSettles
  <2> QED BY <2>1, <2>2, <2>3, <2>4, SettleStep
<1>5. ASSUME NEW r \in Runs, LaneTimesOut(r) \/ ReleaseRun(r)
      PROVE  LaneStep
  <2>1. GlobalEntry(r) \in Entries
    BY RunCommands
  <2>2. /\ TaskTimesOut(GlobalEntry(r)) \/ ReleaseTask(GlobalEntry(r))
        /\ Unchanged
    BY <1>5 DEF LaneTimesOut, ReleaseRun
  <2> QED BY <2>1, <2>2, TimerStep
<1>6. ASSUME NEW r \in Runs,
             \/ EnqueueCronRun(r)
             \/ AdmitChatRun(r)
             \/ AdmitCronRun(r)
             \/ RunEmbeddedAgent(r)
             \/ EnqueueSession(r)
             \/ AbortRun(r)
             \/ ClearAgentRunContext(r)
             \/ ReleaseAgentRunContext(r)
             \/ ScheduleDeferredTurnMaintenance(r)
             \/ SuspendForFailure(r)
             \/ \E written \in BOOLEAN : SuspendSession(r, written)
      PROVE  LaneStep
  BY <1>6, EnqueueCronRunStep, AdmitChatRunStep, AdmitCronRunStep, RunEmbeddedAgentStep,
     EnqueueSessionStep, AbortRunStep, ContextStep, ScheduleDeferredTurnMaintenanceStep,
     SuspendForFailureStep, SuspendSessionStep
<1>7. ASSUME NEW l \in Lanes, ResumeLane(l)
      PROVE  LaneStep
  BY <1>7, ResumeLaneStep
<1>8. ASSUME NEW cfg \in Configs, ApplyGatewayLaneConcurrency(cfg)
      PROVE  LaneStep
  BY <1>8, ReloadStep
<1>9. CASE FinishRestart
  BY <1>9, PumpStep DEF FinishRestart
<1>10. ASSUME NEW s \in Sessions, RecoverSession(s)
       PROVE  LaneStep
  <2>1. SessionLane[s] \in Lanes
    BY EnqueuePriorities
  <2> QED BY <1>10, <2>1, PumpStep DEF RecoverSession
<1>11. CASE BeginRestart \/ RotateLifecycle \/ \E s \in Sessions : ClearSessionQueue(s)
  BY <1>11, StillStep
<1>12. CASE \E ids \in SUBSET DOMAIN runContext : SweepStaleRunContexts(ids)
  BY <1>12, ContextStep
<1>13. CASE LoopTasks
  BY <1>2, <1>3, <1>4, <1>5, <1>6, <1>7, <1>8, <1>9, <1>10, <1>11, <1>12, <1>13
     DEF LoopTasks
<1> QED BY <1>1, <1>13 DEF LanesNext

LEMMA NextLanesInv == LanesInv /\ [LanesNext]_allVars => LanesInv'
<1> SUFFICES ASSUME LanesInv, [LanesNext]_allVars
             PROVE  LanesInv'
  OBVIOUS
<1>1. CASE LanesNext
  BY <1>1, NextIsLaneStep, LaneStepKeeps
<1>2. CASE UNCHANGED allVars
  <2>1. UNCHANGED vars
    BY <1>2 DEF allVars
  <2>2. UNCHANGED <<run, maintenance, resumeTimer, lifecycle, runContext, config, reloads,
                    environment>>
    BY <1>2 DEF allVars, laneVars
  <2>3. runContext' \in Contexts /\ lifecycle' \in Nat
    BY <2>2 DEF LanesInv, LanesTypeOK
  <2>4. Effect({}, Main, {})
    BY <2>1, IdleEffect DEF LanesInv
  <2>5. \A e \in Entries : ~Starts(e)
    <3> SUFFICES ASSUME NEW e \in Entries
                 PROVE  ~Starts(e)
      OBVIOUS
    <3> QED BY <2>1, NothingStarts DEF LanesInv
  <2>6. UNCHANGED maxConcurrent
    BY <2>1 DEF vars
  <2>7. \A r \in Runs : SessionEntry(r) \in {} => ~SessionWaits(r)
    OBVIOUS
  <2>8. LaneStep
    BY <2>2, <2>3, <2>4, <2>5, <2>6, <2>7, QueueStep
  <2> QED BY <2>8, LaneStepKeeps
<1> QED BY <1>1, <1>2

LEMMA LanesInvAlways == LanesSpec => []LanesInv
BY LanesInitInv, NextLanesInv, PTL DEF LanesSpec

-----------------------------------------------------------------------------
(* Retries of a run id.                                                    *)

\* No run is in flight for a later lifecycle, and a retry in flight that kept
\* its context has claimed it for the lifecycle.
RetriesClaim ==
    \A q \in Runs :
      /\ run[q].admittedIn <= lifecycle
      /\ InFlight(q) /\ ~run[q].contextLost =>
           runContext[RunId[q]].generation = lifecycle

\* What a step makes of a run and of the context of its id
RetryGoes(q) ==
    /\ run'[q].admittedIn \in {run[q].admittedIn, lifecycle'}
    /\ lifecycle <= lifecycle'
    /\ run'[q].phase = "executing" => run[q].phase = "executing" \/ Begins(q)
    /\ \/ run'[q].contextLost
       \/ runContext'[RunId[q]].generation = lifecycle'
       \/ /\ ~run[q].contextLost
          /\ run'[q].admittedIn = run[q].admittedIn
          /\ runContext'[RunId[q]].generation = runContext[RunId[q]].generation
          /\ run'[q].phase \in {"admitted", "called"} =>
               run[q].phase \in {"admitted", "called"}

\* A handler that leaves these fields alone, with the tasks that it starts
LEMMA FollowRetries ==
    ASSUME LanesInv, NEW runs \in [Runs -> Run], RunsFollow(runs), UNCHANGED lifecycle,
           NEW q \in Runs,
           runs[q].admittedIn = run[q].admittedIn,
           runs[q].contextLost = run[q].contextLost,
           runs[q].phase = "executing" => run[q].phase = "executing",
           runs[q].phase \in {"admitted", "called"} => run[q].phase \in {"admitted", "called"}
    PROVE  RetryGoes(q)
<1>1. /\ runs[q] \in Run /\ run[q] \in Run /\ lifecycle \in Nat
      /\ runContext \in Contexts /\ RunId[q] \in DOMAIN runContext
  BY DEF LanesInv, LanesTypeOK, Contexts
<1> DEFINE x == Admitted(runs[q], SessionOf[q])
           y == Claims(runs[q])
           z == [runs[q] EXCEPT !.phase = "rejecting"]
<1>2. run'[q] = IF Starts(SessionEntry(q)) THEN x
                ELSE IF Begins(q) THEN y
                ELSE IF Starts(GlobalEntry(q)) THEN z ELSE runs[q]
  BY DEF RunsFollow
<1>3. /\ x.admittedIn = runs[q].admittedIn /\ x.contextLost = runs[q].contextLost
      /\ x.phase \notin {"executing", "admitted", "called"}
  BY <1>1 DEF Admitted, Run
<1>4. /\ y.admittedIn = runs[q].admittedIn /\ y.contextLost = runs[q].contextLost
      /\ y.phase = "executing"
      /\ z.admittedIn = runs[q].admittedIn /\ z.contextLost = runs[q].contextLost
      /\ z.phase = "rejecting"
  BY <1>1 DEF Claims, Run
<1> HIDE DEF x, y, z
<1>5. /\ run'[q].admittedIn = run[q].admittedIn
      /\ run'[q].contextLost = run[q].contextLost
      /\ run'[q].phase = "executing" => run[q].phase = "executing" \/ Begins(q)
      /\ run'[q].phase \in {"admitted", "called"} => run[q].phase \in {"admitted", "called"}
  BY <1>2, <1>3, <1>4
<1>6. runContext'[RunId[q]].generation \in {runContext[RunId[q]].generation, lifecycle}
  <2>1. runContext'[RunId[q]] \in
          {runContext[RunId[q]], Claimed(runContext[RunId[q]], lifecycle, {})}
    BY <1>1 DEF RunsFollow
  <2> QED BY <2>1 DEF Claimed
<1> QED BY <1>1, <1>5, <1>6, RunFields DEF RetryGoes

\* A step that leaves the fields and the contexts alone
LEMMA StillRetries ==
    ASSUME LanesInv, NEW q \in Runs, lifecycle' \in {lifecycle, lifecycle + 1},
           runContext'[RunId[q]].generation = runContext[RunId[q]].generation,
           run'[q].admittedIn = run[q].admittedIn,
           run'[q].contextLost = run[q].contextLost,
           run'[q].phase = "executing" => run[q].phase = "executing",
           run'[q].phase \in {"admitted", "called"} => run[q].phase \in {"admitted", "called"}
    PROVE  RetryGoes(q)
<1>1. lifecycle \in Nat /\ lifecycle <= lifecycle'
  BY DEF LanesInv, LanesTypeOK
<1>2. run[q].contextLost \in BOOLEAN
  BY RunFields DEF LanesInv, LanesTypeOK
<1> QED BY <1>1, <1>2 DEF RetryGoes

\* One run is changed by its handler.
LEMMA OneRetries ==
    ASSUME LanesInv, NEW r \in Runs, NEW d,
           \/ RunsFollow([run EXCEPT ![r] = d]) /\ d \in Run
           \/ run' = [run EXCEPT ![r] = d] /\ UNCHANGED runContext,
           UNCHANGED lifecycle,
           d.admittedIn = run[r].admittedIn,
           d.contextLost = run[r].contextLost,
           d.phase = "executing" => run[r].phase = "executing",
           d.phase \in {"admitted", "called"} => run[r].phase \in {"admitted", "called"},
           NEW q \in Runs
    PROVE  RetryGoes(q)
<1> DEFINE runs == [run EXCEPT ![r] = d]
<1>1. run \in [Runs -> Run] /\ lifecycle \in Nat
  BY DEF LanesInv, LanesTypeOK
<1>2. /\ runs[q].admittedIn = run[q].admittedIn
      /\ runs[q].contextLost = run[q].contextLost
      /\ runs[q].phase = "executing" => run[q].phase = "executing"
      /\ runs[q].phase \in {"admitted", "called"} => run[q].phase \in {"admitted", "called"}
      /\ d \in Run => runs \in [Runs -> Run]
  BY <1>1
<1>3. \/ RunsFollow(runs) /\ d \in Run
      \/ run' = runs /\ UNCHANGED runContext
  OBVIOUS
<1> HIDE DEF runs
<1>4. CASE RunsFollow(runs) /\ d \in Run
  BY <1>2, <1>4, FollowRetries
<1>5. CASE run' = runs /\ UNCHANGED runContext
  BY <1>1, <1>2, <1>5, StillRetries
<1> QED BY <1>3, <1>4, <1>5

\* Contexts that are gone
LEMMA ForgottenRetries ==
    ASSUME LanesInv, NEW ids, Forgotten(ids), UNCHANGED lifecycle, NEW q \in Runs
    PROVE  RetryGoes(q)
<1>1. run[q] \in Run /\ lifecycle \in Nat /\ runContext \in Contexts
  BY DEF LanesInv, LanesTypeOK
<1>2. CASE RunId[q] \in ids
  <2> DEFINE lost == [run[q] EXCEPT !.contextLost = TRUE]
  <2>1. run'[q] = lost
    BY <1>2 DEF Forgotten
  <2>2. /\ lost.contextLost = TRUE /\ lost.admittedIn = run[q].admittedIn
        /\ lost.phase = run[q].phase
    BY <1>1 DEF Run
  <2> HIDE DEF lost
  <2> QED BY <1>1, <2>1, <2>2 DEF RetryGoes
<1>3. CASE RunId[q] \notin ids
  <2>1. run'[q] = run[q] /\ runContext'[RunId[q]] = runContext[RunId[q]]
    BY <1>1, <1>3 DEF Forgotten, Contexts
  <2> QED BY <1>1, <2>1, StillRetries
<1> QED BY <1>2, <1>3

\* A run id is claimed for the lifecycle.
LEMMA AdmitRetries ==
    ASSUME LanesInv, NEW r \in Runs, AdmitChatRun(r) \/ AdmitCronRun(r), NEW q \in Runs
    PROVE  RetryGoes(q)
<1>1. /\ run \in [Runs -> Run] /\ run[r] \in Run /\ lifecycle \in Nat
      /\ runContext \in Contexts
      /\ RunId[r] \in DOMAIN runContext /\ RunId[q] \in DOMAIN runContext
  BY DEF LanesInv, LanesTypeOK, Contexts
<1>2. UNCHANGED lifecycle
  BY DEF AdmitChatRun, AdmitCronRun
<1>3. /\ q # r => run'[q] = run[q]
      /\ run'[r].admittedIn \in {run[r].admittedIn, lifecycle}
      /\ run'[r].phase = "admitted"
  BY <1>1 DEF AdmitChatRun, AdmitCronRun, Run
<1>4. /\ RunId[q] = RunId[r] => runContext'[RunId[q]].generation = lifecycle
      /\ RunId[q] # RunId[r] => runContext'[RunId[q]] = runContext[RunId[q]]
  <2>1. CASE AdmitChatRun(r)
    BY <1>1, <2>1 DEF AdmitChatRun, Claimed
  <2>2. CASE AdmitCronRun(r)
    BY <1>1, <2>2 DEF AdmitCronRun, Claimed
  <2> QED BY <2>1, <2>2
<1>5. CASE q = r
  BY <1>1, <1>2, <1>3, <1>4, <1>5 DEF RetryGoes
<1>6. CASE q # r /\ RunId[q] = RunId[r]
  BY <1>1, <1>2, <1>3, <1>4, <1>6 DEF RetryGoes
<1>7. CASE q # r /\ RunId[q] # RunId[r]
  BY <1>2, <1>3, <1>4, <1>7, StillRetries
<1> QED BY <1>5, <1>6, <1>7

\* Handlers of one run
LEMMA HandlerRetries ==
    ASSUME LanesInv, NEW r \in Runs,
           \/ RunEmbeddedAgent(r)
           \/ EnqueueSession(r)
           \/ PassCheckpoint(r)
           \/ AbortRun(r)
           \/ SuspendForFailure(r)
           \/ ScheduleDeferredTurnMaintenance(r)
           \/ \E written \in BOOLEAN : SuspendSession(r, written),
           NEW q \in Runs
    PROVE  RetryGoes(q)
<1>1. /\ run \in [Runs -> Run] /\ run[r] \in Run /\ lifecycle \in Nat
      /\ runContext \in Contexts /\ config \in Configs
  BY DEF LanesInv, LanesTypeOK
<1>2. CASE RunEmbeddedAgent(r)
  <2> DEFINE g == IF r \in CronRuns THEN CapturedGeneration(r)
                  ELSE run[r].lifecycleGeneration
             d == [run[r] EXCEPT
                     !.phase = "called", !.cfg = config,
                     !.lifecycleGeneration = g, !.queuedLifecycleGeneration = lifecycle]
  <2>1. /\ run[r].phase = "admitted"
        /\ run' = [run EXCEPT ![r] = d]
        /\ UNCHANGED <<runContext, lifecycle>>
    BY <1>1, <1>2 DEF RunEmbeddedAgent
  <2> HIDE DEF g
  <2>2. /\ d.admittedIn = run[r].admittedIn /\ d.contextLost = run[r].contextLost
        /\ d.phase = "called"
    BY <1>1 DEF Run
  <2> HIDE DEF d
  <2> QED BY <2>1, <2>2, OneRetries
<1>3. ASSUME NEW phase \in {"rejecting", "session", "global"}, UNCHANGED lifecycle,
             \/ RunsFollow([run EXCEPT ![r].phase = phase])
             \/ run' = [run EXCEPT ![r].phase = phase] /\ UNCHANGED runContext
      PROVE  RetryGoes(q)
  <2> DEFINE d == [run[r] EXCEPT !.phase = phase]
  <2>1. [run EXCEPT ![r].phase = phase] = [run EXCEPT ![r] = d]
    BY <1>1
  <2>2. /\ d.admittedIn = run[r].admittedIn /\ d.contextLost = run[r].contextLost
        /\ d.phase = phase /\ d \in Run
    BY <1>1 DEF Run, Phase
  <2>3. \/ RunsFollow([run EXCEPT ![r] = d])
        \/ run' = [run EXCEPT ![r] = d] /\ UNCHANGED runContext
    BY <1>3, <2>1
  <2> HIDE DEF d
  <2> QED BY <1>3, <2>2, <2>3, OneRetries
<1>4. CASE EnqueueSession(r) \/ PassCheckpoint(r)
  BY <1>3, <1>4 DEF EnqueueSession, PassCheckpoint
<1>5. CASE AbortRun(r)
  <2> DEFINE d == [run[r] EXCEPT !.aborted = TRUE]
  <2>1. run' = [run EXCEPT ![r] = d] /\ UNCHANGED <<runContext, lifecycle>>
    BY <1>1, <1>5 DEF AbortRun
  <2>2. /\ d.admittedIn = run[r].admittedIn /\ d.contextLost = run[r].contextLost
        /\ d.phase = run[r].phase
    BY <1>1 DEF Run
  <2> HIDE DEF d
  <2> QED BY <2>1, <2>2, OneRetries
<1>6. CASE SuspendForFailure(r)
  <2> DEFINE d == [run[r] EXCEPT !.suspending = "patching"]
  <2>1. run' = [run EXCEPT ![r] = d] /\ UNCHANGED <<runContext, lifecycle>>
    BY <1>1, <1>6 DEF SuspendForFailure
  <2>2. /\ d.admittedIn = run[r].admittedIn /\ d.contextLost = run[r].contextLost
        /\ d.phase = run[r].phase
    BY <1>1 DEF Run
  <2> HIDE DEF d
  <2> QED BY <2>1, <2>2, OneRetries
<1>7. CASE ScheduleDeferredTurnMaintenance(r)
  <2> DEFINE d == [run[r] EXCEPT !.attempts = @ + 1]
  <2>1. RunsFollow([run EXCEPT ![r] = d]) /\ UNCHANGED lifecycle
    <3>1. [run EXCEPT ![r].attempts = @ + 1] = [run EXCEPT ![r] = d]
      BY <1>1
    <3> HIDE DEF d
    <3> QED BY <1>7, <3>1 DEF ScheduleDeferredTurnMaintenance
  <2>2. /\ d.admittedIn = run[r].admittedIn /\ d.contextLost = run[r].contextLost
        /\ d.phase = run[r].phase /\ d \in Run
    BY <1>1 DEF Run
  <2> HIDE DEF d
  <2> QED BY <2>1, <2>2, OneRetries
<1>8. CASE \E written \in BOOLEAN : SuspendSession(r, written)
  <2> DEFINE d == [run[r] EXCEPT !.suspending = "done"]
  <2>1. RunsFollow([run EXCEPT ![r] = d]) /\ UNCHANGED lifecycle
    <3>1. [run EXCEPT ![r].suspending = "done"] = [run EXCEPT ![r] = d]
      BY <1>1
    <3> HIDE DEF d
    <3> QED BY <1>8, <3>1 DEF SuspendSession
  <2>2. /\ d.admittedIn = run[r].admittedIn /\ d.contextLost = run[r].contextLost
        /\ d.phase = run[r].phase /\ d \in Run
    BY <1>1 DEF Run
  <2> HIDE DEF d
  <2> QED BY <2>1, <2>2, OneRetries
<1> QED BY <1>2, <1>4, <1>5, <1>6, <1>7, <1>8

\* Steps of the lanes, which start the tasks of runs or none
LEMMA QueueRetries ==
    ASSUME LanesInv, RunsFollow(run) \/ UNCHANGED <<run, runContext>>,
           lifecycle' \in {lifecycle, lifecycle + 1},
           RunsFollow(run) => UNCHANGED lifecycle, NEW q \in Runs
    PROVE  RetryGoes(q)
<1>1. run \in [Runs -> Run]
  BY DEF LanesInv, LanesTypeOK
<1>2. CASE RunsFollow(run)
  BY <1>1, <1>2, FollowRetries
<1>3. CASE UNCHANGED <<run, runContext>> /\ ~RunsFollow(run)
  BY <1>3, StillRetries
<1> QED BY <1>2, <1>3

LEMMA NextRetries ==
    ASSUME LanesInv, LanesNext, NEW q \in Runs
    PROVE  RetryGoes(q)
<1>1. CASE Continuations
  <2>1. ASSUME NEW r \in Runs, PassCheckpoint(r)
        PROVE  RetryGoes(q)
    BY <2>1, HandlerRetries
  <2>2. ASSUME \/ \E e \in Entries : CommandContinues(e)
               \/ \E r \in Runs : SessionSettles(r)
               \/ \E s \in Sessions : CleanupDeferredTurnMaintenance(s)
        PROVE  RetryGoes(q)
    <3>1. /\ RunsFollow(run) \/ UNCHANGED <<run, runContext>>
          /\ UNCHANGED lifecycle
      BY <2>2 DEF CommandContinues, SessionSettles, CleanupDeferredTurnMaintenance,
                  Unchanged, laneVars
    <3> QED BY <3>1, QueueRetries
  <2> QED BY <1>1, <2>1, <2>2 DEF Continuations
<1>2. ASSUME NEW r \in Runs,
             \/ EnqueueCronRun(r) \/ TurnSettles(r) \/ LaneTimesOut(r) \/ ReleaseRun(r)
             \/ CronJobEnds(r) \/ CronJobGivesUp(r)
      PROVE  RetryGoes(q)
  <2>1. /\ RunsFollow(run) \/ UNCHANGED <<run, runContext>>
        /\ UNCHANGED lifecycle
    BY <1>2 DEF EnqueueCronRun, TurnSettles, LaneTimesOut, ReleaseRun, CronJobEnds,
                CronJobGivesUp, Unchanged, laneVars
  <2> QED BY <2>1, QueueRetries
<1>3. ASSUME \/ \E w \in Workers : WorkerSettles(w)
             \/ \E l \in Lanes : ResumeLane(l)
             \/ \E cfg \in Configs : ApplyGatewayLaneConcurrency(cfg)
             \/ BeginRestart
             \/ FinishRestart
             \/ \E s \in Sessions : RecoverSession(s)
             \/ \E s \in Sessions : ClearSessionQueue(s)
      PROVE  RetryGoes(q)
  <2>1. /\ RunsFollow(run) \/ UNCHANGED <<run, runContext>>
        /\ UNCHANGED lifecycle
    BY <1>3 DEF WorkerSettles, ResumeLane, ApplyGatewayLaneConcurrency, BeginRestart,
                FinishRestart, RecoverSession, ClearSessionQueue, Unchanged, laneVars
  <2> QED BY <2>1, QueueRetries
<1>4. CASE RotateLifecycle
  BY <1>4, StillRetries DEF RotateLifecycle
<1>5. ASSUME NEW r \in Runs, ClearAgentRunContext(r)
      PROVE  RetryGoes(q)
  BY <1>5, ForgottenRetries DEF ClearAgentRunContext
<1>6. ASSUME NEW ids, SweepStaleRunContexts(ids)
      PROVE  RetryGoes(q)
  BY <1>6, ForgottenRetries DEF SweepStaleRunContexts
<1>7. ASSUME NEW r \in Runs, ReleaseAgentRunContext(r)
      PROVE  RetryGoes(q)
  <2>1. UNCHANGED lifecycle
    BY <1>7 DEF ReleaseAgentRunContext
  <2>2. CASE Forgotten({RunId[r]})
    BY <2>1, <2>2, ForgottenRetries
  <2>3. CASE /\ runContext' = [runContext EXCEPT ![RunId[r]].owners = @ \ {r}]
             /\ UNCHANGED run
    <3>1. runContext \in Contexts
      BY DEF LanesInv, LanesTypeOK
    <3>2. runContext'[RunId[q]].generation = runContext[RunId[q]].generation
      BY <2>3, <3>1 DEF Contexts, Context
    <3> QED BY <2>1, <2>3, <3>2, StillRetries
  <2> QED BY <1>7, <2>2, <2>3 DEF ReleaseAgentRunContext
<1>8. ASSUME NEW r \in Runs,
             \/ AdmitChatRun(r) \/ AdmitCronRun(r) \/ RunEmbeddedAgent(r)
             \/ EnqueueSession(r) \/ AbortRun(r) \/ SuspendForFailure(r)
             \/ ScheduleDeferredTurnMaintenance(r)
             \/ \E written \in BOOLEAN : SuspendSession(r, written)
      PROVE  RetryGoes(q)
  BY <1>8, AdmitRetries, HandlerRetries
<1>9. CASE LoopTasks
  BY <1>2, <1>3, <1>4, <1>5, <1>6, <1>7, <1>8, <1>9 DEF LoopTasks
<1> QED BY <1>1, <1>9 DEF LanesNext

\* A session command that becomes pending was enqueued by its own run.
LEMMA SessionEnqueued ==
    ASSUME LanesInv, LaneStep, NEW q \in Runs, entry'[SessionEntry(q)].answer = "pending"
    PROVE  entry[SessionEntry(q)].answer = "pending" \/ run[q].phase = "called"
<1>1. PICK E, l, F : Effect(E, l, F) /\ RunsGo(E, l, F)
  BY DEF LaneStep
<1>2. SessionEntry(q) \in Entries
  BY RunCommands
<1>3. \/ entry[SessionEntry(q)].answer = "pending"
      \/ SessionEntry(q) \in E
  BY <1>1, <1>2 DEF Effect, Goes, Accepts
<1> QED BY <1>1, <1>3 DEF RunsGo, Matches

LEMMA NextRetriesClaim == LanesInv /\ RetriesClaim /\ [LanesNext]_allVars => RetriesClaim'
<1> SUFFICES ASSUME LanesInv, RetriesClaim, [LanesNext]_allVars
             PROVE  RetriesClaim'
  OBVIOUS
<1>1. CASE UNCHANGED allVars
  <2>1. UNCHANGED <<run, runContext, lifecycle, entry>>
    BY <1>1 DEF allVars, laneVars, vars
  <2> QED BY <2>1 DEF RetriesClaim, InFlight
<1>2. CASE LanesNext
  <2> SUFFICES ASSUME NEW q \in Runs
               PROVE  /\ run'[q].admittedIn <= lifecycle'
                      /\ InFlight(q)' /\ ~run'[q].contextLost =>
                           runContext'[RunId[q]].generation = lifecycle'
    BY DEF RetriesClaim
  <2>1. RetryGoes(q) /\ LaneStep
    BY <1>2, NextRetries, NextIsLaneStep
  <2>2. /\ run[q].admittedIn \in Nat /\ lifecycle \in Nat /\ lifecycle' \in Nat
    BY <2>1, RunFields DEF LanesInv, LanesTypeOK, LaneStep, RestTyped
  <2>3. /\ run[q].admittedIn <= lifecycle
        /\ InFlight(q) /\ ~run[q].contextLost =>
             runContext[RunId[q]].generation = lifecycle
    BY DEF RetriesClaim
  <2>4. run'[q].admittedIn <= lifecycle' /\ lifecycle <= lifecycle'
    BY <2>1, <2>2, <2>3 DEF RetryGoes
  <2>5. ASSUME InFlight(q)', ~run'[q].contextLost
        PROVE  runContext'[RunId[q]].generation = lifecycle'
    <3>1. SUFFICES ASSUME runContext'[RunId[q]].generation # lifecycle'
                   PROVE  FALSE
      OBVIOUS
    <3>2. /\ ~run[q].contextLost
          /\ run'[q].admittedIn = run[q].admittedIn
          /\ runContext'[RunId[q]].generation = runContext[RunId[q]].generation
          /\ run'[q].phase \in {"admitted", "called"} =>
               run[q].phase \in {"admitted", "called"}
      BY <2>1, <2>5, <3>1 DEF RetryGoes
    <3>3. lifecycle' = lifecycle /\ run[q].admittedIn = lifecycle
      BY <2>2, <2>3, <2>4, <2>5, <3>2 DEF InFlight
    <3>4. run[q].phase \in {"admitted", "called"} \/ entry[SessionEntry(q)].answer = "pending"
      <4>1. \/ run'[q].phase \in {"admitted", "called"}
            \/ entry'[SessionEntry(q)].answer = "pending"
        BY <2>5 DEF InFlight
      <4> QED BY <2>1, <3>2, <4>1, SessionEnqueued
    <3> QED BY <2>3, <3>1, <3>2, <3>3, <3>4 DEF InFlight
  <2> QED BY <2>4, <2>5
<1> QED BY <1>1, <1>2

-----------------------------------------------------------------------------
(* The theorems.                                                           *)

\* The state of the runs, their maintenance and the lanes' timers stays in its
\* types, and the queue that they share stays in its own.
THEOREM LanesTyped == LanesSpec => []LanesTypeOK
<1>1. LanesInv => LanesTypeOK
  BY DEF LanesInv
<1> QED BY <1>1, LanesInvAlways, PTL

\* A turn that its lane did not give up on keeps the session's only slot
\* through the session command that awaits it.
LEMMA ExecutingHoldsSlot ==
    ASSUME LanesInv, NEW r \in Runs, Executing(r), ~GivenUp(r)
    PROVE  SessionEntry(r) \in activeTaskIds[SessionLane[SessionOf[r]]]
<1> DEFINE g == GlobalEntry(r)
           e == SessionEntry(r)
           l == SessionLane[SessionOf[r]]
<1>1. /\ e \in Entries \ TimedEntries
      /\ g \in Entries
      /\ l \in Lanes
  BY RunCommands, EnqueuePriorities
<1>2. /\ entry[g] \in Entry /\ EntrySound(g, entry[g])
      /\ entry[g].answer = "pending" <=> entry[g].status \in {"queued", "running"}
      /\ entry[g].answer = "timeout" => entry[g].race = "timeout"
  BY <1>1 DEF LanesInv, IInv, TypeOK, Core, EntriesMatch, EntriesSound, TimeoutsTold
<1>3. /\ entry[g].body = "executing" /\ entry[g].race # "timeout"
      /\ ~(entry[e].taskGeneration < generation[l])
  BY DEF Executing, GivenUp
<1>4. entry[g].answer = "pending"
  BY <1>2, <1>3 DEF EntrySound, Entry, Status
<1>5. entry[e].body = "executing"
  BY <1>4 DEF LanesInv, SessionHolds, SessionWaits
<1> HIDE DEF g, l
<1>6. entry[e].status = "running"
  BY <1>1, <1>5, UntimedExecutes DEF LanesInv
<1>7. entry[e].lane = l
  BY <1>6 DEF LanesInv, SessionLanes, l
<1>8. entry[e].taskGeneration = generation[l]
  <2>1. /\ entry[e].taskGeneration \in Nat /\ generation[l] \in Nat
        /\ entry[e].taskGeneration <= generation[l]
    BY <1>1, <1>6, <1>7 DEF LanesInv, IInv, TypeOK, Entry, Core, EntriesMatch
  <2> QED BY <1>3, <2>1
<1>9. SlotsMatch(entry, activeTaskIds, generation)
  BY DEF LanesInv, IInv, Core
<1> HIDE DEF e
<1>10. e \in activeTaskIds[l]
  BY <1>1, <1>6, <1>7, <1>8, <1>9 DEF SlotsMatch
<1> QED BY <1>10 DEF e, l

\* Turns of one session overlap only when a lane gave up on one of them, for
\* any number of runs, sessions, lanes and workers and whatever the limits.
THEOREM SessionsExclude == LanesSpec => []SessionExclusive
<1>1. LanesInv => SessionExclusive
  <2> SUFFICES ASSUME LanesInv, NEW q \in Runs, NEW r \in Runs,
                      SessionOf[q] = SessionOf[r], Executing(q), Executing(r),
                      ~GivenUp(q), ~GivenUp(r)
               PROVE  q = r
    BY DEF SessionExclusive
  <2> DEFINE l == SessionLane[SessionOf[r]]
  <2>1. l \in Lanes \ {Main, Cron, CronNested}
    <3>1. SessionOf[r] \in Sessions
      BY EnqueuePriorities
    <3> QED BY <3>1, LanesAssumption
  <2>2. SessionEntry(q) \in activeTaskIds[l] /\ SessionEntry(r) \in activeTaskIds[l]
    BY ExecutingHoldsSlot
  <2> HIDE DEF l
  <2>3. Single(activeTaskIds[l])
    BY <2>1 DEF LanesInv, SingleSlots
  <2>4. SessionEntry(q) = SessionEntry(r)
    BY <2>2, <2>3 DEF Single
  <2> QED BY <2>4, RunCommands
<1> QED BY <1>1, LanesInvAlways, PTL

\* While a turn executes, no worker of its session carries out only requests
\* that were made before the run was admitted.
THEOREM MaintenanceComesFirst == LanesSpec => []MaintenanceFirst
<1>1. LanesInv => MaintenanceFirst
  <2> SUFFICES ASSUME LanesInv, NEW r \in Runs, NEW w \in Workers,
                      w[1] = SessionOf[r], Executing(r), entry[w].body = "executing"
               PROVE  maintenance[w[1]].requests > run[r].before
    BY DEF MaintenanceFirst
  <2>1. entry[w].answer = "pending"
    BY UntimedCommands, UntimedExecutes DEF LanesInv
  <2>2. maintenance[w[1]].active
    BY <2>1 DEF LanesInv, OneWorker
  <2> QED BY <2>2 DEF LanesInv, AwaitedFirst, Executing
<1> QED BY <1>1, LanesInvAlways, PTL

\* A lane that a suspension closed has a timer that will open it, whatever
\* reloads, suspensions and restarts come in between.
THEOREM ClosedLanesOpen == LanesSpec => []ClosedLaneHasTimer
<1>1. LanesInv => ClosedLaneHasTimer
  BY DEF LanesInv
<1> QED BY <1>1, LanesInvAlways, PTL

\* A run queued before a restart does not begin while a retry of its run id is
\* in flight and has kept the context it claimed, for any number of runs of
\* that id, admitted, retried, ended, aborted and restarted in any order.
THEOREM RetriesSupersede == LanesSpec => RetrySupersedes
<1>1. LanesInit => RetriesClaim
  BY DEF LanesInit, RetriesClaim, InFlight, Fresh
<1>2. ASSUME LanesInv, RetriesClaim, LanesNext, NEW r \in Runs, NEW q \in Runs,
             RunId[r] = RunId[q], InFlight(q), ~run[q].contextLost,
             run[r].lifecycleGeneration # lifecycle,
             run[r].phase # "executing", run'[r].phase = "executing"
      PROVE  FALSE
  <2>1. Begins(r)
    BY <1>2, NextRetries DEF RetryGoes
  <2>2. runContext[RunId[r]].generation # lifecycle
    BY <1>2, <2>1 DEF Begins, MayBegin
  <2> QED BY <1>2, <2>2 DEF RetriesClaim
<1>3. LanesInv /\ RetriesClaim /\ [LanesNext]_allVars =>
        [\A r, q \in Runs :
           /\ r # q /\ RunId[r] = RunId[q]
           /\ InFlight(q) /\ ~run[q].contextLost
           /\ run[r].lifecycleGeneration # lifecycle
           => ~(run[r].phase # "executing" /\ run'[r].phase = "executing")]_allVars
  BY <1>2
<1> QED BY <1>1, <1>3, LanesInvAlways, NextRetriesClaim, PTL DEF LanesSpec, RetrySupersedes
=============================================================================
