--------------------------- MODULE CronServiceProofs ---------------------------
(***************************************************************************)
(* Proofs about the cron scheduler, for any jobs, services, manual runs,   *)
(* environments and settings.                                              *)
(***************************************************************************)
EXTENDS CronService, FiniteSetTheorems, TLAPS

-----------------------------------------------------------------------------
(* The inductive invariant.                                                *)

SvcStates ==
    [phase : {"new", "load", "plan", "catchup", "arm", "up", "over"},
     loaded : BOOLEAN, stopped : BOOLEAN, timer : BOOLEAN,
     tick : {"idle", "load", "reserving", "working"},
     skip : SUBSET Jobs, deferred : SUBSET Jobs]

ManualRuns ==
    [phase : {"idle", "asked", "prepare", "reserving", "running", "done"},
     job : Jobs, service : Services \cup {0}, forced : BOOLEAN, at : Nat]

WorkRecords ==
    [st : {"none", "reserved", "executing", "ended"}, reservedAt : Nat,
     start : Nat, end : Nat, outcome : Outcomes \cup {"none"}, disowned : BOOLEAN]

Markers == [by : Owners \cup {None}, generation : Nat]

\* The rows of a store have their type, and a disabled job has no next time.
GoodStore(rows) ==
    /\ IsStore(rows)
    /\ \A j \in DOMAIN rows : rows[j].enabled \/ rows[j].next = 0

CopiesAreGood == \A s \in Services : GoodStore(mem[s])

\* A run that counts: it has not been given up and is not older than STUCK_RUN_MS.
IsFirm(w, t, stuck) == w.st # "none" /\ ~w.disowned /\ t - w.reservedAt <= stuck

\* The store has the mark of a run by o that was reserved at the given time.
Holds(store, j, o, at) ==
    /\ j \in DOMAIN store
    /\ store[j].enabled
    /\ store[j].running = o
    /\ store[j].runningAt >= at

\* The mark of a run that counts stands, in the store and in the copy that
\* the service of the day works with.
FirmHolds ==
    \A o \in Owners, j \in Jobs :
      IsFirm(work[o][j], now, environment.stuck) =>
        /\ Holds(disk, j, o, work[o][j].reservedAt)
        /\ svc[current].loaded => Holds(mem[current], j, o, work[o][j].reservedAt)

\* What may still write an outcome or begin an execution
Capable(o, j) ==
    \/ work[o][j].st \in {"executing", "ended"} /\ marker[j].by = o
    \/ work[o][j].st = "reserved" /\ ~svc[o[2]].stopped

\* Beside a run that counts nobody else may write the job.
OneWriter ==
    \A o, p \in Owners, j \in Jobs :
      o # p /\ IsFirm(work[o][j], now, environment.stuck) => ~Capable(p, j)

NoWorkOf(o) == \A j \in Jobs : work[o][j].st = "none"

Dormant(s) == svc[s] = Fresh("new")

\* Only the service of the day is neither stopped nor yet to come.
OneService ==
    /\ \A s \in Services : /\ s # current => svc[s].stopped \/ Dormant(s)
                           /\ s > current \/ svc[s].phase = "new" => Dormant(s)
    /\ svc[current].phase # "new"
    /\ svc[current].stopped => environment.event = "restart" /\ current + 1 \in Services
    /\ \A s \in Services : svc[s].stopped => environment.event \in {"reload", "restart"}

\* What ticks and starts hold at each point of their way
TickShape ==
    \A s \in Services :
      /\ svc[s].tick \in {"idle", "load"} => NoWorkOf(Tick(s))
      /\ svc[s].tick = "reserving" <=> lock = Tick(s)
      /\ svc[s].tick = "reserving" =>
           \A j \in Jobs : work[Tick(s)][j].st \in {"none", "reserved"}
      /\ lock = Tick(s) => mem[s] = disk
      /\ svc[s].tick \in {"reserving", "working"} => svc[s].loaded

StartShape ==
    \A s \in Services :
      /\ svc[s].phase # "catchup" => NoWorkOf(Boot(s))
      /\ svc[s].phase \in {"plan", "catchup", "arm", "up"} => svc[s].loaded
      /\ lock # Boot(s)

RunShape ==
    \A m \in Manuals :
      /\ lock = Manual(m) <=> manual[m].phase = "reserving"
      /\ manual[m].phase \in {"asked", "prepare", "reserving", "running"} =>
           manual[m].service \in Services /\ svc[manual[m].service].phase # "new"
      /\ manual[m].phase \in {"prepare", "reserving", "running"} =>
           svc[manual[m].service].loaded
      /\ manual[m].at <= now

RunWork ==
    \A m \in Manuals, j \in Jobs :
      work[Manual(m)][j].st # "none" =>
        /\ work[Manual(m)][j].st # "reserved"
        /\ manual[m].phase = "running" /\ manual[m].job = j

\* The reservation of a manual run while its write is awaited
RunMark ==
    \A m \in Manuals :
      manual[m].phase = "reserving" =>
        LET j == manual[m].job
            copy == mem[manual[m].service]
        IN  /\ j \in DOMAIN disk /\ j \in DOMAIN copy /\ copy[j] = disk[j]
            /\ disk[j].running = Manual(m) /\ disk[j].runningAt = manual[m].at

ReservedBefore == \A o \in Owners, j \in Jobs : work[o][j].reservedAt <= now

SameDefinitions(store, copy) ==
    /\ DOMAIN copy = DOMAIN store
    /\ \A j \in DOMAIN store : copy[j].enabled = store[j].enabled /\ copy[j].at = store[j].at

\* The copy of the service of the day has the definitions of the store.
Synced == svc[current].loaded /\ ~stale => SameDefinitions(disk, mem[current])

CronInv ==
    /\ TypeOK /\ CopiesAreGood
    /\ OneService /\ TickShape /\ StartShape /\ RunShape /\ RunWork /\ RunMark
    /\ ReservedBefore
    /\ FirmHolds /\ OneWriter
    /\ Synced

-----------------------------------------------------------------------------
(* Owners, numbers and schedules.                                          *)

\* Ticks, starts and manual runs are different owners, and none is None.
LEMMA OwnersApart ==
    /\ \A s, t \in Services : /\ Tick(s) # Boot(t)
                              /\ Tick(s) = Tick(t) => s = t
                              /\ Boot(s) = Boot(t) => s = t
    /\ \A s \in Services, m \in Manuals : Tick(s) # Manual(m) /\ Boot(s) # Manual(m)
    /\ \A m, n \in Manuals : Manual(m) = Manual(n) => m = n
    /\ \A s \in Services : /\ Tick(s) \in Owners /\ Boot(s) \in Owners
                           /\ Tick(s)[2] = s /\ Boot(s)[2] = s
    /\ \A m \in Manuals : Manual(m) \in Owners
    /\ None \notin Owners
    /\ \A o \in Owners : \/ \E s \in Services : o = Tick(s) \/ o = Boot(s)
                         \/ \E m \in Manuals : o = Manual(m)
  BY DEF Tick, Boot, Manual, None, Owners

\* Services are numbered.
LEMMA ServicesAreNumbers == Services \subseteq Nat \ {0}
  <1>1. Cardinality(Services) \in Nat
    BY CronAssumption, FS_CardinalityType
  <1> QED
    BY <1>1, CronAssumption

LEMMA ProductIsNatural ==
    ASSUME NEW a \in Nat, NEW b \in Nat PROVE a * b \in Nat
  OBVIOUS

LEMMA NextOfAnchorIsNatural ==
    ASSUME NEW t \in Nat PROVE NextOfAnchor(t) \in Nat
  <1>1. t \div Every \in Nat
    BY CronAssumption
  <1> DEFINE q == t \div Every
  <1>2. q + 1 \in Nat
    BY <1>1
  <1> HIDE DEF q
  <1>3. (q + 1) * Every \in Nat
    BY <1>2, CronAssumption, ProductIsNatural
  <1> QED
    BY <1>3 DEF NextOfAnchor, q

LEMMA ComputeJobNextRunIsNatural ==
    ASSUME NEW j \in Jobs, NEW row \in Row, NEW t \in Nat
    PROVE  ComputeJobNextRun(j, row, t) \in Nat
  <1>1. row.lastRun \in Nat /\ row.at \in Nat
    BY DEF Row
  <1>2. Every \in Nat
    BY CronAssumption
  <1>3. NextOfAnchor(t) \in Nat
    BY NextOfAnchorIsNatural
  <1>4. row.lastRun + Every \in Nat
    BY <1>1, <1>2
  <1> QED
    BY <1>1, <1>3, <1>4 DEF ComputeJobNextRun

LEMMA RecomputedIsRow ==
    ASSUME NEW j \in Jobs, NEW row \in Row, now \in Nat
    PROVE  /\ Recomputed(j, row) \in Row
           /\ Recomputed(j, row).enabled = row.enabled
           /\ Recomputed(j, row).at = row.at
           /\ Recomputed(j, row).running = row.running
           /\ Recomputed(j, row).runningAt = row.runningAt
  <1>1. ComputeJobNextRun(j, row, now) \in Nat
    BY ComputeJobNextRunIsNatural
  <1> DEFINE next == ComputeJobNextRun(j, row, now)
             value == IF j \notin OneShot /\ row.status = "error" /\ next # 0
                      THEN Later(next, BackoffUntil(row)) ELSE next
  <1> HIDE DEF next
  <1>2. value \in Nat
    BY <1>1, CronAssumption DEF Later, BackoffUntil, Row, next
  <1>3. Recomputed(j, row) = [row EXCEPT !.next = value]
    BY DEF Recomputed, next
  <1> HIDE DEF value
  <1> QED
    BY <1>2, <1>3 DEF Row

-----------------------------------------------------------------------------
(* Maintenance.                                                            *)

\* Maintenance of a row keeps its definition; a disabled job gets no next time
\* and the mark of a run that is not too old stays.
LEMMA MaintainedRow ==
    ASSUME NEW j \in Jobs, NEW row \in Row, NEW e, now \in Nat,
           environment \in Environments
    PROVE  /\ Maintained(j, row, e) \in Row
           /\ Maintained(j, row, e).enabled = row.enabled
           /\ Maintained(j, row, e).at = row.at
           /\ ~row.enabled => Maintained(j, row, e).next = 0
           /\ row.enabled /\ ~IsStuck(row) =>
                /\ Maintained(j, row, e).running = row.running
                /\ Maintained(j, row, e).runningAt = row.runningAt
  <1> DEFINE freed == IF IsStuck(row) THEN [row EXCEPT !.running = None, !.runningAt = 0]
                      ELSE row
             cleared == [row EXCEPT !.next = 0, !.running = None, !.runningAt = 0]
  <1>1. /\ freed \in Row /\ freed.enabled = row.enabled /\ freed.at = row.at
        /\ ~IsStuck(row) => freed = row
    BY DEF Row
  <1>2. /\ cleared \in Row /\ cleared.enabled = row.enabled /\ cleared.at = row.at
        /\ cleared.next = 0
    BY DEF Row
  <1>3. /\ Recomputed(j, freed) \in Row
        /\ Recomputed(j, freed).enabled = freed.enabled
        /\ Recomputed(j, freed).at = freed.at
        /\ Recomputed(j, freed).running = freed.running
        /\ Recomputed(j, freed).runningAt = freed.runningAt
    BY <1>1, RecomputedIsRow
  <1>4. \/ ~row.enabled /\ Maintained(j, row, e) = cleared
        \/ row.enabled /\ Maintained(j, row, e) \in {freed, Recomputed(j, freed)}
    BY DEF Maintained
  <1> HIDE DEF freed, cleared
  <1> QED
    BY <1>1, <1>2, <1>3, <1>4

LEMMA MaintainedIsGood ==
    ASSUME NEW store, IsStore(store), NEW e, now \in Nat, environment \in Environments
    PROVE  /\ GoodStore(MaintainedStore(store, e))
           /\ SameDefinitions(store, MaintainedStore(store, e))
  <1>1. \A j \in DOMAIN store : j \in Jobs /\ store[j] \in Row
    BY DEF IsStore
  <1>2. \A j \in DOMAIN store :
          /\ Maintained(j, store[j], e) \in Row
          /\ Maintained(j, store[j], e).enabled = store[j].enabled
          /\ Maintained(j, store[j], e).at = store[j].at
          /\ ~store[j].enabled => Maintained(j, store[j], e).next = 0
    BY <1>1, MaintainedRow
  <1>3. DOMAIN store \subseteq Jobs
    BY DEF IsStore
  <1> QED
    BY <1>2, <1>3 DEF MaintainedStore, GoodStore, SameDefinitions, IsStore

LEMMA MaintainedHolds ==
    ASSUME NEW store, IsStore(store), NEW e, now \in Nat, environment \in Environments,
           NEW j, NEW o \in Owners, NEW at \in Nat,
           Holds(store, j, o, at), now - at <= environment.stuck
    PROVE  Holds(MaintainedStore(store, e), j, o, at)
  <1>1. j \in Jobs /\ store[j] \in Row
    BY DEF IsStore, Holds
  <1>2. environment.stuck \in Nat
    BY CronAssumption
  <1>3. ~IsStuck(store[j])
    BY <1>1, <1>2 DEF IsStuck, Holds, Row
  <1> QED
    BY <1>1, <1>3, MaintainedRow DEF MaintainedStore, Holds

-----------------------------------------------------------------------------
(* Marks and outcomes.                                                     *)

LEMMA ReleasedIsGood ==
    ASSUME NEW store, GoodStore(store), NEW js, NEW o
    PROVE  /\ GoodStore(Released(store, js, o))
           /\ SameDefinitions(store, Released(store, js, o))
  <1>1. \A j \in DOMAIN store : j \in Jobs /\ store[j] \in Row
    BY DEF GoodStore, IsStore
  <1> DEFINE result == Released(store, js, o)
  <1>2. /\ result \in [DOMAIN store -> Row]
        /\ \A j \in DOMAIN store : /\ result[j].enabled = store[j].enabled
                                   /\ result[j].at = store[j].at
                                   /\ result[j].next = store[j].next
    BY <1>1 DEF Released, Row
  <1> HIDE DEF result
  <1> QED
    BY <1>2 DEF GoodStore, IsStore, SameDefinitions, result

LEMMA ReleasedHolds ==
    ASSUME NEW store, NEW js, NEW o, NEW p, NEW j, NEW at, Holds(store, j, o, at),
           o # p \/ j \notin js
    PROVE  Holds(Released(store, js, p), j, o, at)
  BY DEF Released, Holds

LEMMA ReservedIsGood ==
    ASSUME NEW store, GoodStore(store), NEW js, NEW o \in Owners, now \in Nat
    PROVE  /\ GoodStore(Reserved(store, js, o))
           /\ SameDefinitions(store, Reserved(store, js, o))
  <1>1. \A j \in DOMAIN store : j \in Jobs /\ store[j] \in Row
    BY DEF GoodStore, IsStore
  <1> DEFINE result == Reserved(store, js, o)
  <1>2. /\ result \in [DOMAIN store -> Row]
        /\ \A j \in DOMAIN store : /\ result[j].enabled = store[j].enabled
                                   /\ result[j].at = store[j].at
                                   /\ result[j].next = store[j].next
    BY <1>1 DEF Reserved, Row
  <1> HIDE DEF result
  <1> QED
    BY <1>2 DEF GoodStore, IsStore, SameDefinitions, result

LEMMA ReservedHolds ==
    ASSUME NEW store, NEW js, NEW o \in Owners, NEW p, NEW j, NEW at,
           Holds(store, j, o, at), \A i \in js : store[i].running = None
    PROVE  Holds(Reserved(store, js, p), j, o, at)
  BY OwnersApart DEF Reserved, Holds

LEMMA RemainingIsGood ==
    ASSUME NEW store, GoodStore(store), NEW js
    PROVE  GoodStore(Remaining(store, js))
  BY DEF GoodStore, IsStore, Remaining

\* What an outcome leaves of a row
LEMMA ApplyJobResultIsRow ==
    ASSUME NEW j \in Jobs, NEW old \in Row, NEW w \in WorkRecords, NEW preserve
    PROVE  /\ ApplyJobResult(j, old, w, preserve) \in Row
           /\ ApplyJobResult(j, old, w, preserve).enabled =>
                old.enabled \/ w.outcome = "disabled"
           /\ ApplyJobResult(j, old, w, preserve).at = old.at
  <1> DEFINE failed == w.outcome \in {"transient", "permanent"}
             row == [old EXCEPT !.running = None, !.runningAt = 0,
                                !.lastRun = w.start, !.lastEnd = w.end,
                                !.status = IF failed THEN "error"
                                           ELSE IF w.outcome \in HeartbeatSkips
                                                THEN "disabled"
                                           ELSE w.outcome]
             before == [row EXCEPT !.lastRun = old.lastRun]
             normal == IF preserve
                       THEN ComputeJobNextRun(j, before, w.end)
                       ELSE IF old.status = "error" \/ w.outcome = "transient"
                            THEN NextOfAnchor(w.end)
                       ELSE ComputeJobNextRun(j, row, w.end)
             retry == w.end + Backoff
             next == IF ~row.enabled THEN 0
                     ELSE IF ~failed THEN normal
                     ELSE IF w.outcome = "transient" /\ ~preserve /\ retry < normal
                          THEN retry
                     ELSE Later(normal, retry)
  <1>1. row \in Row /\ row.enabled = old.enabled /\ row.at = old.at
    BY DEF Row, WorkRecords, Outcomes, HeartbeatSkips
  <1>2. before \in Row
    BY <1>1 DEF Row
  <1>3. w.end \in Nat /\ retry \in Nat
    BY CronAssumption DEF WorkRecords
  <1>4. normal \in Nat
    BY <1>1, <1>2, <1>3, NextOfAnchorIsNatural, ComputeJobNextRunIsNatural
  <1> DEFINE result == IF j \in OneShot
                       THEN IF w.outcome = "transient" THEN Retried(row, w.end)
                            ELSE IF w.outcome = "disabled"
                                 THEN HeartbeatRetried(row, w.end)
                            ELSE [row EXCEPT !.enabled = FALSE, !.next = 0]
                       ELSE [row EXCEPT !.next = next]
  <1>5. ApplyJobResult(j, old, w, preserve) = result
    BY DEF ApplyJobResult
  <1>6. next \in Nat
    <2> HIDE DEF normal, retry
    <2> QED
      BY <1>3, <1>4 DEF Later
  <1> HIDE DEF next, row
  <1>7. /\ Retried(row, w.end) = [row EXCEPT !.next = retry]
        /\ HeartbeatRetried(row, w.end) = [row EXCEPT !.enabled = TRUE, !.next = retry]
    BY DEF Retried, HeartbeatRetried
  <1> HIDE DEF retry, failed
  <1>8. /\ result \in Row
        /\ result.enabled => old.enabled \/ w.outcome = "disabled"
        /\ result.at = old.at
    <2>1. CASE j \in OneShot /\ w.outcome = "transient"
      BY <2>1, <1>1, <1>3, <1>7 DEF Row
    <2>4. CASE j \in OneShot /\ w.outcome = "disabled"
      BY <2>4, <1>1, <1>3, <1>7 DEF Row
    <2>2. CASE j \in OneShot /\ w.outcome \notin {"transient", "disabled"}
      BY <2>2, <1>1 DEF Row
    <2>3. CASE j \notin OneShot
      BY <2>3, <1>1, <1>6 DEF Row
    <2> QED
      BY <2>1, <2>2, <2>3, <2>4
  <1> HIDE DEF result
  <1> QED
    BY <1>5, <1>8

\* The second store has no job and no enabled job that the first has not, but
\* for one that is to be tried again because heartbeats are disabled.
NothingNew(store, result) ==
    /\ DOMAIN result \subseteq DOMAIN store
    /\ \A j \in DOMAIN result :
         result[j].enabled => store[j].enabled \/ RetriesDisabledHeartbeat(j)

LEMMA SameIsNothingNew ==
    ASSUME NEW store, NEW result, SameDefinitions(store, result)
    PROVE  NothingNew(store, result)
  BY DEF SameDefinitions, NothingNew

LEMMA NothingNewChains ==
    ASSUME NEW a, NEW b, NEW c, NothingNew(a, b), NothingNew(b, c)
    PROVE  NothingNew(a, c)
  BY DEF NothingNew

LEMMA AppliedIsStore ==
    ASSUME NEW store, IsStore(store), NEW js, NEW o \in Owners,
           \A j \in Jobs : work[o][j] \in WorkRecords
    PROVE  /\ IsStore(Applied(store, js, o))
           /\ DOMAIN Applied(store, js, o) \subseteq DOMAIN store
           /\ \A j \in DOMAIN Applied(store, js, o) :
                Applied(store, js, o)[j].enabled =>
                  store[j].enabled \/ (j \in js /\ work[o][j].outcome = "disabled")
  <1>1. \A j \in DOMAIN store :
          /\ ApplyJobResult(j, store[j], work[o][j], FALSE) \in Row
          /\ ApplyJobResult(j, store[j], work[o][j], FALSE).enabled =>
               store[j].enabled \/ work[o][j].outcome = "disabled"
    BY ApplyJobResultIsRow DEF IsStore
  <1> QED
    BY <1>1 DEF IsStore, Applied, Remaining

LEMMA AppliedHolds ==
    ASSUME NEW store, NEW js, NEW p, NEW o, NEW j, NEW at, Holds(store, j, o, at),
           j \notin js
    PROVE  Holds(Applied(store, js, p), j, o, at)
  BY DEF Applied, Remaining, Holds

\* What a start makes of the runs it finds
AfterStart(store, found) ==
    [j \in DOMAIN store |-> IF j \in found THEN Interrupted(j, store[j]) ELSE store[j]]

LEMMA AfterStartIsGood ==
    ASSUME NEW store, GoodStore(store), NEW found, now \in Nat
    PROVE  /\ GoodStore(AfterStart(store, found))
           /\ NothingNew(store, AfterStart(store, found))
  <1>1. \A j \in DOMAIN store :
          /\ Interrupted(j, store[j]) \in Row
          /\ Interrupted(j, store[j]).next = 0
          /\ Interrupted(j, store[j]).enabled => store[j].enabled
    BY DEF GoodStore, IsStore, Row, Interrupted
  <1> QED
    BY <1>1 DEF AfterStart, GoodStore, IsStore, NothingNew

-----------------------------------------------------------------------------
(* Writing the store.                                                      *)

\* A write of a good store leaves good stores and copies.
LEMMA PersistIsGood ==
    ASSUME TypeOK, CopiesAreGood, NEW s \in Services, NEW store, GoodStore(store),
           NEW written \in BOOLEAN, Persist(s, store, written)
    PROVE  /\ GoodStore(disk') /\ IsStore(disk')
           /\ DOMAIN mem' = Services
           /\ \A t \in Services : GoodStore(mem'[t])
           /\ mem'[s] = store
           /\ \A t \in Services : t # s => mem'[t] = mem[t]
           /\ failures' \in Nat /\ stale' \in BOOLEAN
  <1>1. GoodStore(disk)
    BY DEF TypeOK, GoodStore
  <1>2. GoodStore(disk') /\ DOMAIN mem' = Services /\ mem'[s] = store
        /\ \A t \in Services : t # s => mem'[t] = mem[t]
    BY <1>1 DEF Persist, TypeOK
  <1>3. \A t \in Services : GoodStore(mem'[t])
    BY <1>2 DEF CopiesAreGood
  <1>4. failures' \in Nat
    BY DEF Persist, TypeOK
  <1>5. stale' \in BOOLEAN
    BY DEF Persist, TypeOK
  <1>6. IsStore(disk')
    BY <1>2 DEF GoodStore
  <1> QED
    BY <1>2, <1>3, <1>4, <1>5, <1>6

LEMMA ReloadIsGood ==
    ASSUME TypeOK, CopiesAreGood, NEW s \in Services, Reload(s)
    PROVE  /\ GoodStore(disk') /\ IsStore(disk')
           /\ DOMAIN mem' = Services
           /\ \A t \in Services : GoodStore(mem'[t])
           /\ mem'[s] = disk
           /\ \A t \in Services : t # s => mem'[t] = mem[t]
           /\ failures' \in Nat /\ stale' \in BOOLEAN
  <1>1. GoodStore(disk)
    BY DEF TypeOK, GoodStore
  <1>2. GoodStore(disk') /\ DOMAIN mem' = Services /\ mem'[s] = disk
        /\ \A t \in Services : t # s => mem'[t] = mem[t]
    BY <1>1 DEF Reload, TypeOK
  <1>3. \A t \in Services : GoodStore(mem'[t])
    BY <1>1, <1>2 DEF CopiesAreGood
  <1> QED
    BY <1>2, <1>3 DEF Reload, TypeOK, GoodStore

\* TypeOK in terms of the parts named here
LEMMA TypeParts ==
    ASSUME TypeOK, CopiesAreGood
    PROVE  /\ now \in 1 .. environment.until /\ now \in Nat
           /\ GoodStore(disk) /\ IsStore(disk)
           /\ DOMAIN mem = Services
           /\ \A s \in Services : GoodStore(mem[s]) /\ IsStore(mem[s])
           /\ svc \in [Services -> SvcStates]
           /\ manual \in [Manuals -> ManualRuns]
           /\ work \in [Owners -> [Jobs -> WorkRecords]]
           /\ marker \in [Jobs -> Markers]
           /\ environment \in Environments /\ environment.stuck \in Nat
           /\ current \in Services
  <1>1. now \in 1 .. environment.until /\ environment \in Environments
    BY DEF TypeOK
  <1>2. now \in Nat /\ environment.stuck \in Nat
    BY <1>1, CronAssumption
  <1> QED
    BY <1>1, <1>2 DEF TypeOK, CopiesAreGood, GoodStore, SvcStates, ManualRuns,
         WorkRecords, Markers

LEMMA TypeIsMade ==
    ASSUME now' \in 1 .. environment'.until, GoodStore(disk'), DOMAIN mem' = Services,
           \A s \in Services : GoodStore(mem'[s]),
           svc' \in [Services -> SvcStates],
           manual' \in [Manuals -> ManualRuns],
           work' \in [Owners -> [Jobs -> WorkRecords]],
           marker' \in [Jobs -> Markers],
           generation' \in Nat, lock' \in Owners \cup {None}, current' \in Services,
           edits' \in Nat, failures' \in Nat, stale' \in BOOLEAN,
           environment' \in Environments
    PROVE  TypeOK' /\ CopiesAreGood'
  <1>1. CopiesAreGood'
    BY DEF CopiesAreGood
  <1>2. IsStore(disk') /\ (\A j \in DOMAIN disk' : disk'[j].enabled \/ disk'[j].next = 0)
    BY DEF GoodStore
  <1>3. \A s \in Services : IsStore(mem'[s])
    BY DEF GoodStore
  <1> QED
    BY <1>1, <1>2, <1>3 DEF TypeOK, SvcStates, ManualRuns, WorkRecords, Markers

-----------------------------------------------------------------------------
(* Runs that count, across a step.                                         *)

\* The later record is the earlier one, given up, further on or over.
Follows(w, v) ==
    v.st # "none" =>
      w.st # "none" /\ v.reservedAt = w.reservedAt /\ (v.disowned \/ ~w.disowned)

WorkFollows == \A o \in Owners, j \in Jobs : Follows(work[o][j], work'[o][j])

\* Every run that counts after the step has its mark in the store.
KeptBy(store) ==
    \A o \in Owners, j \in Jobs :
      IsFirm(work'[o][j], now', environment'.stuck)
        => Holds(store, j, o, work'[o][j].reservedAt)

LEMMA FirmStays ==
    ASSUME TypeOK, CopiesAreGood, work' \in [Owners -> [Jobs -> WorkRecords]],
           now' \in Nat, now' >= now, environment' = environment,
           NEW o \in Owners, NEW j \in Jobs, Follows(work[o][j], work'[o][j]),
           IsFirm(work'[o][j], now', environment'.stuck)
    PROVE  /\ IsFirm(work[o][j], now, environment.stuck)
           /\ work'[o][j].reservedAt = work[o][j].reservedAt
  <1>1. /\ now \in Nat /\ environment.stuck \in Nat
        /\ work[o][j] \in WorkRecords /\ work'[o][j] \in WorkRecords
    BY TypeParts
  <1> QED
    BY <1>1 DEF Follows, IsFirm, WorkRecords

\* The marks that stand before a step in which no run begins
LEMMA OldMarks ==
    ASSUME CronInv, work' \in [Owners -> [Jobs -> WorkRecords]], WorkFollows,
           now' \in Nat, now' >= now, environment' = environment
    PROVE  /\ KeptBy(disk)
           /\ svc[current].loaded => KeptBy(mem[current])
           /\ KeptBy(Loaded(current))
  <1>1. KeptBy(disk)
    BY FirmStays DEF KeptBy, FirmHolds, CronInv, WorkFollows
  <1>2. ASSUME svc[current].loaded PROVE KeptBy(mem[current])
    BY <1>2, FirmStays DEF KeptBy, FirmHolds, CronInv, WorkFollows
  <1> QED
    BY <1>1, <1>2 DEF Loaded

LEMMA KeptMaintained ==
    ASSUME TypeOK, CopiesAreGood, work' \in [Owners -> [Jobs -> WorkRecords]],
           UNCHANGED <<now, environment>>, NEW store, IsStore(store), KeptBy(store), NEW e
    PROVE  KeptBy(MaintainedStore(store, e))
  <1> SUFFICES ASSUME NEW o \in Owners, NEW j \in Jobs,
                      IsFirm(work'[o][j], now', environment'.stuck)
               PROVE  Holds(MaintainedStore(store, e), j, o, work'[o][j].reservedAt)
    BY DEF KeptBy
  <1>1. work'[o][j].reservedAt \in Nat
    BY DEF WorkRecords
  <1>2. now - work'[o][j].reservedAt <= environment.stuck
    BY DEF IsFirm
  <1>3. Holds(store, j, o, work'[o][j].reservedAt)
    BY DEF KeptBy
  <1>4. now \in Nat /\ environment \in Environments
    BY TypeParts
  <1> QED
    BY <1>1, <1>2, <1>3, <1>4, MaintainedHolds

LEMMA KeptReleased ==
    ASSUME NEW store, KeptBy(store), NEW js, NEW p,
           \A j \in js : work'[p][j].st = "none"
    PROVE  KeptBy(Released(store, js, p))
  BY ReleasedHolds DEF KeptBy, IsFirm

LEMMA KeptApplied ==
    ASSUME NEW store, KeptBy(store), NEW js, NEW p,
           \A o \in Owners, j \in js : ~IsFirm(work'[o][j], now', environment'.stuck)
    PROVE  KeptBy(Applied(store, js, p))
  BY AppliedHolds DEF KeptBy

\* A write by s after which the runs that count have their marks
LEMMA PersistKeeps ==
    ASSUME TypeOK, NEW s \in Services, NEW store, NEW written \in BOOLEAN,
           Persist(s, store, written), KeptBy(store), KeptBy(disk),
           svc[current].loaded => KeptBy(mem[current]),
           current' = current,
           svc'[current].loaded => svc[current].loaded \/ s = current
    PROVE  FirmHolds'
  <1>1. DOMAIN mem = Services /\ current \in Services
    BY DEF TypeOK
  <1>2. disk' = store \/ disk' = disk
    BY DEF Persist
  <1>3. KeptBy(disk')
    BY <1>2
  <1>4. ASSUME svc'[current'].loaded PROVE KeptBy(mem'[current'])
    <2>1. mem'[current] = IF s = current THEN store ELSE mem[current]
      BY <1>1 DEF Persist
    <2> QED
      BY <2>1, <1>4
  <1> QED
    BY <1>3, <1>4 DEF KeptBy, FirmHolds

LEMMA PersistSyncs ==
    ASSUME TypeOK, Synced, NEW s \in Services, NEW store, NEW written \in BOOLEAN,
           Persist(s, store, written), current' = current,
           svc'[current].loaded => svc[current].loaded \/ s = current
    PROVE  Synced'
  <1>1. DOMAIN mem = Services /\ current \in Services
    BY DEF TypeOK
  <1>2. mem'[current] = IF s = current THEN store ELSE mem[current]
    BY <1>1 DEF Persist
  <1> SUFFICES ASSUME svc'[current].loaded, ~stale' PROVE SameDefinitions(disk', mem'[current])
    BY DEF Synced
  <1>3. CASE s = current
    <2>1. written /\ disk' = store /\ mem'[current] = store
      BY <1>2, <1>3 DEF Persist
    <2> QED
      BY <2>1 DEF SameDefinitions
  <1>4. CASE s # current
    <2>1. ~stale /\ disk' = disk /\ mem'[current] = mem[current]
      BY <1>2, <1>4 DEF Persist
    <2> QED
      BY <2>1, <1>4 DEF Synced
  <1> QED
    BY <1>3, <1>4

LEMMA OneWriterKept ==
    ASSUME CronInv, work' \in [Owners -> [Jobs -> WorkRecords]], WorkFollows,
           now' \in Nat, now' >= now, environment' = environment,
           \A p \in Owners, j \in Jobs : Capable(p, j)' => Capable(p, j)
    PROVE  OneWriter'
  BY FirmStays DEF OneWriter, CronInv, WorkFollows

\* No run goes on, no marker is set and no service comes back.
NothingBegins ==
    /\ \A o \in Owners, j \in Jobs : work'[o][j].st \in {work[o][j].st, "none"}
    /\ \A j \in Jobs : marker'[j].by \in {marker[j].by, None}
    /\ \A s \in Services : svc[s].stopped => svc'[s].stopped

LEMMA CapsShrink ==
    ASSUME RunWork, NothingBegins, NEW p \in Owners, NEW j \in Jobs, Capable(p, j)'
    PROVE  Capable(p, j)
  <1>1. work[p][j].st = work'[p][j].st
    BY DEF NothingBegins, Capable
  <1>2. CASE work'[p][j].st \in {"executing", "ended"} /\ marker'[j].by = p
    BY <1>1, <1>2, OwnersApart DEF NothingBegins, Capable
  <1>3. CASE work'[p][j].st = "reserved" /\ ~svc'[p[2]].stopped
    <2>1. PICK s \in Services : p = Tick(s) \/ p = Boot(s)
      BY <1>1, <1>3, OwnersApart DEF RunWork
    <2>2. p[2] = s
      BY <2>1, OwnersApart
    <2> QED
      BY <1>1, <1>3, <2>2 DEF NothingBegins, Capable
  <1> QED
    BY <1>2, <1>3 DEF Capable

LEMMA ClearedMarkers ==
    ASSUME TypeOK, NEW js, NEW o, marker' = Cleared(js, o)
    PROVE  /\ marker' \in [Jobs -> Markers]
           /\ \A j \in Jobs : marker'[j].by \in {marker[j].by, None}
  <1>1. NoMarker \in Markers /\ NoMarker.by = None
    BY DEF NoMarker, Markers
  <1>2. marker \in [Jobs -> Markers]
    BY DEF TypeOK, Markers
  <1> QED
    BY <1>1, <1>2 DEF Cleared

NoWorkRecord == NoWork \in WorkRecords /\ NoWork.st = "none" /\ NoWork.reservedAt = 0

LEMMA NoWorkIsRecord == NoWorkRecord
  BY DEF NoWorkRecord, NoWork, WorkRecords

\* Runs are given up or over, and none begins.
WorkCalms ==
    /\ work' \in [Owners -> [Jobs -> WorkRecords]]
    /\ WorkFollows
    /\ \A p \in Owners, j \in Jobs : work'[p][j].st \in {work[p][j].st, "none"}
    /\ ReservedBefore'

\* The records of one owner are over or as they were, the others stay.
WorkEnds(o) ==
    /\ work' \in [Owners -> [Jobs -> WorkRecords]]
    /\ \A p \in Owners : p # o => work'[p] = work[p]
    /\ \A j \in Jobs : work'[o][j] \in {work[o][j], NoWork}

LEMMA WorkEndsFollows ==
    ASSUME TypeOK, CopiesAreGood, ReservedBefore, NEW o \in Owners, WorkEnds(o), now' = now
    PROVE  WorkCalms /\ WorkFollows
  <1>1. now \in Nat
    BY TypeParts
  <1>2. \A p \in Owners, j \in Jobs : work'[p][j] \in {work[p][j], NoWork}
    BY DEF WorkEnds
  <1>3. WorkFollows
    BY <1>2, NoWorkIsRecord DEF WorkFollows, Follows, NoWorkRecord
  <1>4. \A p \in Owners, j \in Jobs : work'[p][j].st \in {work[p][j].st, "none"}
    BY <1>2, NoWorkIsRecord DEF NoWorkRecord
  <1>5. ReservedBefore'
    BY <1>1, <1>2, NoWorkIsRecord DEF ReservedBefore, NoWorkRecord
  <1> QED
    BY <1>3, <1>4, <1>5 DEF WorkCalms, WorkEnds

LEMMA AllWorkEnds ==
    ASSUME TypeOK, CopiesAreGood, NEW o \in Owners,
           work' = [work EXCEPT ![o] = [j \in Jobs |-> NoWork]]
    PROVE  WorkEnds(o) /\ \A j \in Jobs : work'[o][j].st = "none"
  <1>1. work \in [Owners -> [Jobs -> WorkRecords]]
    BY TypeParts
  <1> QED
    BY <1>1, NoWorkIsRecord DEF WorkEnds, NoWorkRecord

-----------------------------------------------------------------------------
(* The shape of the services, across a step.                               *)

\* One service goes on; it was not dormant.
SvcStep(s) ==
    /\ svc' \in [Services -> SvcStates]
    /\ \A t \in Services : t # s => svc'[t] = svc[t]
    /\ svc'[s].stopped = svc[s].stopped
    /\ svc[s].phase # "new" /\ svc'[s].phase # "new"

LEMMA SvcStepStopped ==
    ASSUME NEW s \in Services, SvcStep(s)
    PROVE  \A t \in Services : svc'[t].stopped = svc[t].stopped
  BY DEF SvcStep

LEMMA FreshIsState ==
    ASSUME NEW phase \in {"new", "load"}
    PROVE  /\ Fresh(phase) \in SvcStates /\ Fresh(phase).phase = phase
           /\ Fresh(phase).tick = "idle" /\ ~Fresh(phase).loaded /\ ~Fresh(phase).stopped
           /\ ~Fresh(phase).timer
  BY DEF Fresh, SvcStates

LEMMA OneServiceKept ==
    ASSUME TypeOK, OneService, NEW s \in Services, SvcStep(s),
           UNCHANGED <<current, environment>>
    PROVE  OneService'
  <1>1. ~Dormant(s)
    BY FreshIsState DEF Dormant, SvcStep
  <1>2. current \in Services
    BY DEF TypeOK
  <1>3. \A t \in Services : /\ t # current => svc'[t].stopped \/ svc'[t] = Fresh("new")
                            /\ t > current \/ svc'[t].phase = "new" => svc'[t] = Fresh("new")
    BY <1>1 DEF OneService, Dormant, SvcStep
  <1>4. svc'[current].phase # "new" /\ svc'[current].stopped = svc[current].stopped
    BY <1>2 DEF OneService, SvcStep
  <1>5. \A t \in Services : svc'[t].stopped => environment.event \in {"reload", "restart"}
    BY SvcStepStopped DEF OneService
  <1> QED
    BY <1>3, <1>4, <1>5 DEF OneService, Dormant

\* A service at work that was not stopped is the one of the day.
LEMMA WhoActs ==
    ASSUME OneService, NEW s \in Services, svc[s].phase # "new", ~svc[s].stopped
    PROVE  s = current
  BY FreshIsState DEF OneService, Dormant

LEMMA RunShapeKept ==
    ASSUME TypeOK, CopiesAreGood, RunShape, NEW s \in Services, SvcStep(s),
           svc[s].loaded => svc'[s].loaded,
           manual' = manual, now' \in Nat, now' >= now,
           \A m \in Manuals : lock' = Manual(m) <=> lock = Manual(m)
    PROVE  RunShape'
  <1>1. now \in Nat /\ manual \in [Manuals -> ManualRuns]
    BY TypeParts
  <1>2. \A t \in Services : /\ svc[t].phase # "new" => svc'[t].phase # "new"
                            /\ svc[t].loaded => svc'[t].loaded
    BY DEF SvcStep
  <1>3. \A m \in Manuals : manual[m].at \in Nat
    BY <1>1 DEF ManualRuns
  <1> SUFFICES ASSUME NEW m \in Manuals
               PROVE  /\ lock' = Manual(m) <=> manual[m].phase = "reserving"
                      /\ manual[m].phase \in {"asked", "prepare", "reserving", "running"} =>
                           /\ manual[m].service \in Services
                           /\ svc'[manual[m].service].phase # "new"
                      /\ manual[m].phase \in {"prepare", "reserving", "running"} =>
                           svc'[manual[m].service].loaded
                      /\ manual[m].at <= now'
    BY DEF RunShape
  <1> QED
    BY <1>1, <1>2, <1>3 DEF RunShape

LEMMA RunWorkKept ==
    ASSUME RunWork, manual' = manual,
           \A m \in Manuals, j \in Jobs :
             work'[Manual(m)][j].st \in {work[Manual(m)][j].st, "none"}
    PROVE  RunWork'
  BY DEF RunWork

LEMMA RunMarkWhenFree ==
    ASSUME RunShape', lock' = None
    PROVE  RunMark'
  BY OwnersApart DEF RunShape, RunMark

\* Ticks, when something else than a tick works
LEMMA TickShapeKept ==
    ASSUME TickShape, lock = None, lock' = None,
           \A t \in Services : /\ svc'[t].tick = svc[t].tick
                               /\ svc[t].loaded => svc'[t].loaded,
           \A t \in Services, j \in Jobs :
             work'[Tick(t)][j].st \in {work[Tick(t)][j].st, "none"}
    PROVE  TickShape'
  BY OwnersApart DEF TickShape, NoWorkOf

LEMMA StartShapeKept ==
    ASSUME StartShape, lock' = lock,
           \A t \in Services : /\ svc'[t].phase = svc[t].phase
                               /\ svc[t].loaded => svc'[t].loaded,
           \A t \in Services, j \in Jobs :
             work'[Boot(t)][j].st \in {work[Boot(t)][j].st, "none"}
    PROVE  StartShape'
  BY DEF StartShape, NoWorkOf

LEMMA WhoHasStarted ==
    ASSUME OneService, NEW s \in Services,
           svc[s].tick # "idle" \/ svc[s].phase # "new" \/ svc[s].loaded \/ svc[s].timer
    PROVE  svc[s].phase # "new" /\ ~Dormant(s)
  BY FreshIsState DEF OneService, Dormant

-----------------------------------------------------------------------------
(* The steps: executions and time.                                         *)

LEMMA ExecutionEndsStep ==
    ASSUME CronInv, NEW o \in Owners, NEW j \in Jobs, NEW outcome \in environment.outcomes,
           ExecutionEnds(o, j, outcome)
    PROVE  CronInv'
  <1>1. /\ UNCHANGED <<now, disk, mem, svc, manual, marker, generation, lock, current,
                       edits, failures, stale, environment>>
        /\ work[o][j].st = "executing"
        /\ work' = [work EXCEPT ![o][j] =
             [@ EXCEPT !.st = "ended", !.end = now, !.outcome = outcome]]
    BY DEF ExecutionEnds
  <1>2. /\ TypeOK /\ CopiesAreGood /\ now \in Nat
        /\ work \in [Owners -> [Jobs -> WorkRecords]] /\ environment \in Environments
    BY TypeParts DEF CronInv
  <1>3. outcome \in Outcomes
    BY <1>2, CronAssumption DEF Outcomes, HeartbeatSkips
  <1> DEFINE record == [work[o][j] EXCEPT !.st = "ended", !.end = now, !.outcome = outcome]
  <1>4. /\ record \in WorkRecords /\ record.st = "ended"
        /\ record.reservedAt = work[o][j].reservedAt
        /\ record.disowned = work[o][j].disowned
    <2>1. work[o][j] \in WorkRecords
      BY <1>2
    <2> QED
      BY <2>1, <1>2, <1>3 DEF WorkRecords
  <1>5. /\ work' \in [Owners -> [Jobs -> WorkRecords]]
        /\ \A p \in Owners, i \in Jobs :
             work'[p][i] = IF p = o /\ i = j THEN record ELSE work[p][i]
    BY <1>1, <1>2, <1>4
  <1> HIDE DEF record
  <1>6. WorkFollows
    BY <1>1, <1>4, <1>5 DEF WorkFollows, Follows
  <1>7. TypeOK' /\ CopiesAreGood'
    BY <1>1, <1>2, <1>5, TypeParts, TypeIsMade DEF TypeOK
  <1>8. OneService' /\ RunShape' /\ RunMark' /\ Synced'
    BY <1>1 DEF CronInv, OneService, Dormant, RunShape, RunMark, Synced
  <1>9. TickShape'
    BY <1>1, <1>4, <1>5, OwnersApart DEF CronInv, TickShape, NoWorkOf
  <1>10. StartShape'
    BY <1>1, <1>4, <1>5, OwnersApart DEF CronInv, StartShape, NoWorkOf
  <1>11. RunWork'
    BY <1>1, <1>4, <1>5, OwnersApart DEF CronInv, RunWork
  <1>12. ReservedBefore'
    BY <1>1, <1>4, <1>5 DEF CronInv, ReservedBefore
  <1>13. FirmHolds'
    BY <1>1, <1>2, <1>5, <1>6, OldMarks DEF KeptBy, FirmHolds
  <1>14. \A p \in Owners, i \in Jobs : Capable(p, i)' => Capable(p, i)
    BY <1>1, <1>4, <1>5 DEF Capable
  <1>15. OneWriter'
    BY <1>1, <1>2, <1>5, <1>6, <1>14, OneWriterKept
  <1> QED
    BY <1>7, <1>8, <1>9, <1>10, <1>11, <1>12, <1>13, <1>15 DEF CronInv

LEMMA AdvanceStep ==
    ASSUME CronInv, Advance
    PROVE  CronInv'
  <1>1. /\ now < environment.until /\ now' = now + 1
        /\ UNCHANGED <<disk, mem, svc, manual, work, marker, generation, lock, current,
                       edits, failures, stale, environment>>
    BY DEF Advance
  <1>2. /\ TypeOK /\ CopiesAreGood /\ now \in Nat /\ now \in 1 .. environment.until
        /\ work \in [Owners -> [Jobs -> WorkRecords]] /\ environment \in Environments
        /\ manual \in [Manuals -> ManualRuns]
    BY TypeParts DEF CronInv
  <1>3. environment.until \in Nat
    BY <1>2, CronAssumption
  <1>4. now' \in 1 .. environment'.until /\ now' \in Nat /\ now' >= now
    BY <1>1, <1>2, <1>3
  <1>5. WorkFollows
    BY <1>1 DEF WorkFollows, Follows
  <1>6. TypeOK' /\ CopiesAreGood'
    BY <1>1, <1>2, <1>4, TypeParts, TypeIsMade DEF TypeOK
  <1>7. OneService' /\ TickShape' /\ StartShape' /\ RunWork' /\ RunMark' /\ Synced'
    BY <1>1 DEF CronInv, OneService, Dormant, TickShape, StartShape, NoWorkOf, RunWork,
         RunMark, Synced
  <1>8. RunShape'
    <2>1. \A m \in Manuals : manual[m].at \in Nat
      BY <1>2 DEF ManualRuns
    <2> QED
      BY <1>1, <1>2, <2>1 DEF CronInv, RunShape
  <1>9. ReservedBefore'
    <2>1. \A o \in Owners, j \in Jobs : work[o][j].reservedAt \in Nat
      BY <1>2 DEF WorkRecords
    <2> QED
      BY <1>1, <1>2, <2>1 DEF CronInv, ReservedBefore
  <1>10. FirmHolds'
    BY <1>1, <1>2, <1>4, <1>5, OldMarks DEF KeptBy, FirmHolds
  <1>11. OneWriter'
    BY <1>1, <1>2, <1>4, <1>5, OneWriterKept DEF Capable
  <1> QED
    BY <1>6, <1>7, <1>8, <1>9, <1>10, <1>11 DEF CronInv

-----------------------------------------------------------------------------
(* Sections in which no run begins.                                        *)

\* What all of them leave, whatever they do to the store
Section(s) ==
    /\ SvcStep(s) /\ (svc[s].loaded => svc'[s].loaded)
    /\ WorkCalms
    /\ marker' \in [Jobs -> Markers]
    /\ \A j \in Jobs : marker'[j].by \in {marker[j].by, None}
    /\ UNCHANGED <<now, generation, current, environment>> /\ edits' \in Nat
    /\ manual' \in [Manuals -> ManualRuns]
    /\ lock' = None
    /\ TickShape' /\ StartShape' /\ RunShape' /\ RunWork'

LEMMA SectionStep ==
    ASSUME CronInv, NEW s \in Services, Section(s),
           GoodStore(disk'), DOMAIN mem' = Services, \A t \in Services : GoodStore(mem'[t]),
           failures' \in Nat, stale' \in BOOLEAN, FirmHolds', Synced'
    PROVE  CronInv'
  <1>1. /\ SvcStep(s) /\ WorkCalms /\ (svc[s].loaded => svc'[s].loaded)
        /\ marker' \in [Jobs -> Markers]
        /\ \A j \in Jobs : marker'[j].by \in {marker[j].by, None}
        /\ UNCHANGED <<now, generation, current, environment>> /\ edits' \in Nat
        /\ manual' \in [Manuals -> ManualRuns]
        /\ lock' = None
        /\ TickShape' /\ StartShape' /\ RunShape' /\ RunWork'
    BY DEF Section
  <1>2. TypeOK /\ CopiesAreGood /\ OneService /\ now \in Nat
    BY TypeParts DEF CronInv
  <1>3. /\ WorkFollows /\ ReservedBefore'
        /\ \A p \in Owners, j \in Jobs : work'[p][j].st \in {work[p][j].st, "none"}
        /\ work' \in [Owners -> [Jobs -> WorkRecords]]
    BY <1>1 DEF WorkCalms
  <1>4. TypeOK' /\ CopiesAreGood'
    BY <1>1, <1>2, <1>3, TypeParts, TypeIsMade DEF TypeOK, SvcStep
  <1>5. OneService'
    BY <1>1, <1>2, OneServiceKept
  <1>6. RunMark'
    BY <1>1, RunMarkWhenFree
  <1>7. NothingBegins
    BY <1>1, <1>3, SvcStepStopped DEF NothingBegins
  <1>8. OneWriter'
    BY <1>1, <1>2, <1>3, <1>7, CapsShrink, OneWriterKept DEF CronInv
  <1> QED
    BY <1>1, <1>3, <1>4, <1>5, <1>6, <1>8 DEF CronInv

\* A section that writes
LEMMA WriteStep ==
    ASSUME CronInv, NEW s \in Services, Section(s),
           NEW store, GoodStore(store), NEW written \in BOOLEAN,
           Persist(s, store, written), KeptBy(store)
    PROVE  CronInv'
  <1>1. /\ TypeOK /\ CopiesAreGood /\ Synced /\ now \in Nat
        /\ current' = current /\ now' = now /\ environment' = environment
        /\ WorkFollows /\ work' \in [Owners -> [Jobs -> WorkRecords]]
        /\ svc'[current].loaded => svc[current].loaded \/ s = current
    BY TypeParts DEF CronInv, Section, SvcStep, TypeOK, WorkCalms
  <1>2. KeptBy(disk) /\ (svc[current].loaded => KeptBy(mem[current]))
    BY <1>1, OldMarks
  <1>3. FirmHolds'
    BY <1>1, <1>2, PersistKeeps
  <1>4. Synced'
    BY <1>1, PersistSyncs
  <1>5. /\ GoodStore(disk') /\ DOMAIN mem' = Services
        /\ \A t \in Services : GoodStore(mem'[t])
        /\ failures' \in Nat /\ stale' \in BOOLEAN
    BY <1>1, PersistIsGood
  <1> QED
    BY <1>3, <1>4, <1>5, SectionStep

\* A section that reads the store again
LEMMA ReloadStep ==
    ASSUME CronInv, NEW s \in Services, Section(s), Reload(s)
    PROVE  CronInv'
  <1>1. /\ TypeOK /\ CopiesAreGood /\ Synced /\ now \in Nat
        /\ current' = current /\ now' = now /\ environment' = environment
        /\ WorkFollows /\ work' \in [Owners -> [Jobs -> WorkRecords]]
        /\ svc'[current].loaded => svc[current].loaded \/ s = current
        /\ current \in Services
    BY TypeParts DEF CronInv, Section, SvcStep, TypeOK, WorkCalms
  <1>2. KeptBy(disk) /\ (svc[current].loaded => KeptBy(mem[current]))
    BY <1>1, OldMarks
  <1>3. /\ GoodStore(disk') /\ DOMAIN mem' = Services
        /\ \A t \in Services : GoodStore(mem'[t])
        /\ mem'[s] = disk /\ \A t \in Services : t # s => mem'[t] = mem[t]
        /\ failures' \in Nat /\ stale' \in BOOLEAN
    BY <1>1, ReloadIsGood
  <1>4. disk' = disk /\ (stale' = IF s = current THEN FALSE ELSE stale)
    BY DEF Reload
  <1>5. FirmHolds'
    <2>1. svc'[current].loaded => KeptBy(mem'[current])
      BY <1>1, <1>2, <1>3
    <2> QED
      BY <1>1, <1>2, <1>4, <2>1 DEF KeptBy, FirmHolds
  <1>6. Synced'
    <2>1. CASE s = current
      BY <1>1, <1>3, <1>4, <2>1 DEF Synced, SameDefinitions
    <2>2. CASE s # current
      BY <1>1, <1>3, <1>4, <2>2 DEF Synced
    <2> QED
      BY <2>1, <2>2
  <1> QED
    BY <1>3, <1>5, <1>6, SectionStep

\* A section that leaves the store alone, of a service that has its copy
LEMMA QuietStep ==
    ASSUME CronInv, NEW s \in Services, Section(s),
           NoStoreChange, svc'[s].loaded => svc[s].loaded
    PROVE  CronInv'
  <1>1. /\ TypeOK /\ CopiesAreGood /\ now \in Nat
        /\ current' = current /\ now' = now /\ environment' = environment
        /\ WorkFollows /\ work' \in [Owners -> [Jobs -> WorkRecords]]
        /\ svc'[current].loaded => svc[current].loaded
        /\ UNCHANGED <<mem, disk, failures, stale>>
    BY TypeParts DEF CronInv, Section, SvcStep, TypeOK, WorkCalms, NoStoreChange
  <1>2. KeptBy(disk) /\ (svc[current].loaded => KeptBy(mem[current]))
    BY <1>1, OldMarks
  <1>3. FirmHolds'
    BY <1>1, <1>2 DEF KeptBy, FirmHolds
  <1>4. Synced'
    BY <1>1 DEF CronInv, Synced
  <1>5. /\ GoodStore(disk') /\ DOMAIN mem' = Services
        /\ \A t \in Services : GoodStore(mem'[t])
        /\ failures' \in Nat /\ stale' \in BOOLEAN
    BY <1>1, TypeParts DEF TypeOK
  <1> QED
    BY <1>3, <1>4, <1>5, SectionStep

-----------------------------------------------------------------------------
(* The steps: ticks.                                                       *)

LEMMA TickOverIs ==
    ASSUME TypeOK, CopiesAreGood, NEW s \in Services, svc[s].phase # "new",
           NEW store, TickOver(s, store)
    PROVE  /\ SvcStep(s) /\ svc'[s].phase = svc[s].phase
           /\ svc'[s].tick = "idle" /\ svc'[s].loaded
  <1>1. svc \in [Services -> SvcStates]
    BY TypeParts
  <1>2. svc' = [svc EXCEPT ![s].tick = "idle", ![s].loaded = TRUE,
                           ![s].timer = Armed(s, store)]
    BY DEF TickOver
  <1>3. Armed(s, store) \in BOOLEAN
    BY DEF Armed
  <1>4. /\ svc[s] \in SvcStates
        /\ svc'[s] = [svc[s] EXCEPT !.tick = "idle", !.loaded = TRUE,
                                    !.timer = Armed(s, store)]
        /\ \A t \in Services : t # s => svc'[t] = svc[t]
        /\ svc' = [t \in Services |-> svc'[t]]
    BY <1>1, <1>2
  <1>5. svc'[s] \in SvcStates
    BY <1>3, <1>4 DEF SvcStates
  <1>6. svc' \in [Services -> SvcStates]
    BY <1>1, <1>4, <1>5
  <1> QED
    BY <1>4, <1>6 DEF SvcStep, SvcStates

LEMMA TickShapeAfter ==
    ASSUME TickShape, NEW s \in Services, SvcStep(s), svc[s].loaded => svc'[s].loaded,
           WorkEnds(Tick(s)), lock \in {None, Tick(s)}, lock' = None,
           \/ svc'[s].tick = "idle" /\ \A j \in Jobs : work'[Tick(s)][j].st = "none"
           \/ svc'[s].tick = "working" /\ svc'[s].loaded
    PROVE  TickShape'
  <1>1. \A t \in Services : t # s => svc'[t] = svc[t] /\ work'[Tick(t)] = work[Tick(t)]
    BY OwnersApart DEF SvcStep, WorkEnds
  <1>2. \A t \in Services : t # s => lock # Tick(t)
    BY OwnersApart
  <1>3. \A t \in Services : lock' # Tick(t)
    BY OwnersApart
  <1> QED
    BY <1>1, <1>2, <1>3 DEF TickShape, NoWorkOf

LEMMA StartShapeBesides ==
    ASSUME StartShape, NEW s \in Services, SvcStep(s), svc'[s].phase = svc[s].phase,
           svc[s].loaded => svc'[s].loaded, WorkEnds(Tick(s)), lock' = None
    PROVE  StartShape'
  <1>1. \A t \in Services : work'[Boot(t)] = work[Boot(t)]
    BY OwnersApart DEF WorkEnds
  <1> QED
    BY <1>1, OwnersApart DEF StartShape, NoWorkOf, SvcStep

\* The end of a tick, or of a section of it
LEMMA TickSection ==
    ASSUME CronInv, NEW s \in Services, SvcStep(s), svc[s].loaded => svc'[s].loaded,
           svc'[s].phase = svc[s].phase,
           \/ svc'[s].tick = "idle" /\ \A j \in Jobs : work'[Tick(s)][j].st = "none"
           \/ svc'[s].tick = "working" /\ svc'[s].loaded,
           WorkEnds(Tick(s)), lock \in {None, Tick(s)}, lock' = None,
           marker' \in [Jobs -> Markers],
           \A j \in Jobs : marker'[j].by \in {marker[j].by, None},
           UNCHANGED <<now, manual, generation, current, edits, environment>>
    PROVE  Section(s)
  <1>1. TickShape'
    BY TickShapeAfter DEF CronInv
  <1>2. StartShape'
    BY StartShapeBesides DEF CronInv
  <1>3. TypeOK /\ CopiesAreGood /\ now \in Nat /\ Tick(s) \in Owners /\ ReservedBefore
    BY OwnersApart, TypeParts DEF CronInv
  <1>4. WorkCalms
    BY <1>3, WorkEndsFollows
  <1>5. \A m \in Manuals : lock' = Manual(m) <=> lock = Manual(m)
    BY OwnersApart
  <1>6. now' \in Nat /\ now' >= now
    BY <1>3
  <1>7. RunShape'
    BY <1>3, <1>5, <1>6, RunShapeKept DEF CronInv
  <1>8. RunWork'
    BY <1>4, OwnersApart, RunWorkKept DEF CronInv, WorkCalms
  <1>9. manual' \in [Manuals -> ManualRuns] /\ edits' \in Nat
    BY <1>3, TypeParts DEF TypeOK
  <1> QED
    BY <1>1, <1>2, <1>4, <1>7, <1>8, <1>9 DEF Section

LEMMA TimerFiresStep ==
    ASSUME CronInv, NEW s \in Services, TimerFires(s)
    PROVE  CronInv'
  <1>1. /\ UNCHANGED <<now, disk, mem, manual, work, marker, generation, lock,
                       current, edits, failures, stale, environment>>
        /\ svc[s].timer /\ svc[s].tick = "idle"
        /\ svc' = [svc EXCEPT ![s].tick = "load"]
    BY DEF TimerFires
  <1>2. /\ TypeOK /\ CopiesAreGood /\ OneService /\ now \in Nat
        /\ svc \in [Services -> SvcStates]
    BY TypeParts DEF CronInv
  <1>3. svc[s].phase # "new"
    BY <1>1, <1>2, WhoHasStarted
  <1>4. /\ SvcStep(s) /\ svc'[s].phase = svc[s].phase
        /\ svc'[s].tick = "load" /\ svc'[s].loaded = svc[s].loaded
    <2>1. svc[s] \in SvcStates /\ svc'[s] = [svc[s] EXCEPT !.tick = "load"]
      BY <1>1, <1>2
    <2>2. svc'[s] \in SvcStates
      BY <2>1 DEF SvcStates
    <2>3. svc' \in [Services -> SvcStates] /\ \A t \in Services : t # s => svc'[t] = svc[t]
      BY <1>1, <1>2, <2>2
    <2> QED
      BY <1>3, <2>1, <2>3 DEF SvcStep, SvcStates
  <1>5. /\ \A t \in Services : /\ svc'[t].phase = svc[t].phase
                               /\ svc'[t].loaded = svc[t].loaded
                               /\ svc'[t].stopped = svc[t].stopped
        /\ current \in Services
    BY <1>2, <1>4 DEF SvcStep, TypeOK
  <1>6. TypeOK' /\ CopiesAreGood'
    BY <1>1, <1>2, <1>4, TypeParts, TypeIsMade DEF TypeOK, SvcStep
  <1>7. OneService'
    BY <1>1, <1>2, <1>4, OneServiceKept
  <1>8. TickShape'
    BY <1>1, <1>4 DEF CronInv, TickShape, NoWorkOf, SvcStep
  <1>9. StartShape'
    BY <1>1, <1>5, StartShapeKept DEF CronInv
  <1>10. RunShape'
    BY <1>1, <1>2, <1>4, RunShapeKept DEF CronInv
  <1>11. RunWork' /\ RunMark' /\ ReservedBefore'
    BY <1>1 DEF CronInv, RunWork, RunMark, ReservedBefore
  <1>12. FirmHolds' /\ Synced'
    BY <1>1, <1>5 DEF CronInv, FirmHolds, Synced
  <1>13. WorkFollows /\ work' \in [Owners -> [Jobs -> WorkRecords]]
    BY <1>1, <1>2, TypeParts DEF WorkFollows, Follows
  <1>14. NothingBegins
    BY <1>1, <1>5 DEF NothingBegins
  <1>15. OneWriter'
    BY <1>1, <1>2, <1>13, <1>14, CapsShrink, OneWriterKept DEF CronInv
  <1> QED
    BY <1>6, <1>7, <1>8, <1>9, <1>10, <1>11, <1>12, <1>15 DEF CronInv

\* When a run that may write its outcome is over, no run of its job counts.
LEMMA NobodyElse ==
    ASSUME CronInv, work' \in [Owners -> [Jobs -> WorkRecords]], WorkFollows,
           now' \in Nat, now' >= now, environment' = environment,
           NEW p \in Owners, NEW j \in Jobs, Capable(p, j), work'[p][j].st = "none",
           NEW q \in Owners
    PROVE  ~IsFirm(work'[q][j], now', environment'.stuck)
  <1>1. CASE q = p
    BY <1>1 DEF IsFirm
  <1>2. CASE q # p
    BY <1>2, FirmStays DEF CronInv, OneWriter, WorkFollows
  <1> QED
    BY <1>1, <1>2

\* What a section of a tick knows of its service and of the runs that go on
LEMMA TickFacts ==
    ASSUME CronInv, NEW s \in Services, svc[s].tick # "idle"
    PROVE  /\ TypeOK /\ CopiesAreGood /\ now \in Nat /\ environment \in Environments
           /\ Tick(s) \in Owners /\ svc[s].phase # "new" /\ ReservedBefore
           /\ svc[s].tick \in {"reserving", "working"} => svc[s].loaded
           /\ work \in [Owners -> [Jobs -> WorkRecords]]
           /\ marker \in [Jobs -> Markers]
           /\ GoodStore(disk) /\ IsStore(disk)
           /\ GoodStore(mem[s]) /\ IsStore(mem[s])
  BY TypeParts, OwnersApart, WhoHasStarted DEF CronInv, TickShape

LEMMA TickReservesStep ==
    ASSUME CronInv, NEW s \in Services, NEW written \in BOOLEAN, TickReserves(s, written)
    PROVE  CronInv'
  <1> DEFINE o == Tick(s)
             free == Released(mem[s], JobsIn(o, "reserved"), o)
             released == MaintainedStore(free, FALSE)
  <1>1. /\ lock = o /\ lock' = None
        /\ IF svc[s].stopped
           THEN /\ Persist(s, released, written)
                /\ TickOver(s, released)
                /\ work' = [work EXCEPT ![o] = [j \in Jobs |-> NoWork]]
           ELSE /\ svc' = [svc EXCEPT ![s].tick = "working"]
                /\ UNCHANGED <<work, mem, disk, failures, stale>>
        /\ UNCHANGED <<now, manual, marker, generation, current, edits, environment>>
    BY DEF TickReserves
  <1>2. svc[s].tick = "reserving" /\ mem[s] = disk
    BY <1>1 DEF CronInv, TickShape
  <1>3. /\ TypeOK /\ CopiesAreGood /\ now \in Nat /\ environment \in Environments
        /\ o \in Owners /\ svc[s].phase # "new" /\ ReservedBefore /\ svc[s].loaded
        /\ work \in [Owners -> [Jobs -> WorkRecords]] /\ marker \in [Jobs -> Markers]
        /\ GoodStore(disk)
    BY <1>2, TickFacts
  <1>4. CASE svc[s].stopped
    <2> HIDE DEF released
    <2>1. /\ Persist(s, released, written) /\ TickOver(s, released)
          /\ work' = [work EXCEPT ![o] = [j \in Jobs |-> NoWork]]
      BY <1>1, <1>4
    <2>2. /\ SvcStep(s) /\ svc'[s].phase = svc[s].phase
          /\ svc'[s].tick = "idle" /\ svc'[s].loaded
      BY <1>3, <2>1, TickOverIs
    <2>3. WorkEnds(o) /\ \A j \in Jobs : work'[o][j].st = "none"
      BY <1>3, <2>1, AllWorkEnds
    <2>4. Section(s)
      BY <1>1, <1>3, <2>2, <2>3, TickSection
    <2>5. WorkFollows /\ work' \in [Owners -> [Jobs -> WorkRecords]]
      BY <1>1, <1>3, <2>3, WorkEndsFollows DEF WorkEnds
    <2>6. KeptBy(mem[s])
      BY <1>1, <1>2, <1>3, <2>5, OldMarks
    <2>7. KeptBy(free)
      <3>1. \A j \in JobsIn(o, "reserved") : work'[o][j].st = "none"
        BY <2>3 DEF JobsIn
      <3> QED
        BY <2>6, <3>1, KeptReleased
    <2>8. GoodStore(free) /\ IsStore(free)
      BY <1>2, <1>3, ReleasedIsGood DEF GoodStore
    <2> HIDE DEF free
    <2>9. KeptBy(released) /\ GoodStore(released)
      BY <1>1, <1>3, <2>5, <2>7, <2>8, KeptMaintained, MaintainedIsGood DEF released
    <2> QED
      BY <1>3, <2>1, <2>4, <2>9, WriteStep
  <1>5. CASE ~svc[s].stopped
    <2>1. /\ svc' = [svc EXCEPT ![s].tick = "working"]
          /\ UNCHANGED <<work, mem, disk, failures, stale>>
      BY <1>1, <1>5
    <2>2. /\ SvcStep(s) /\ svc'[s].phase = svc[s].phase
          /\ svc'[s].tick = "working" /\ svc'[s].loaded = svc[s].loaded
      <3>1. svc \in [Services -> SvcStates]
        BY <1>3, TypeParts
      <3>2. svc[s] \in SvcStates /\ svc'[s] = [svc[s] EXCEPT !.tick = "working"]
        BY <3>1, <2>1
      <3>3. svc'[s] \in SvcStates
        BY <3>2 DEF SvcStates
      <3>4. svc' \in [Services -> SvcStates] /\ \A t \in Services : t # s => svc'[t] = svc[t]
        BY <3>1, <3>3, <2>1
      <3> QED
        BY <1>3, <3>2, <3>4 DEF SvcStep, SvcStates
    <2>3. WorkEnds(o)
      BY <1>3, <2>1 DEF WorkEnds
    <2>4. Section(s)
      BY <1>1, <1>3, <2>2, <2>3, TickSection
    <2>5. NoStoreChange
      BY <2>1 DEF NoStoreChange
    <2> QED
      BY <1>3, <2>2, <2>4, <2>5, QuietStep
  <1> QED
    BY <1>4, <1>5

LEMMA TickReleasesStep ==
    ASSUME CronInv, NEW s \in Services, NEW written \in BOOLEAN, TickReleases(s, written)
    PROVE  CronInv'
  <1> DEFINE o == Tick(s)
             left == JobsIn(o, "reserved")
             free == Released(disk, left, o)
             released == MaintainedStore(free, FALSE)
  <1>1. /\ svc[s].tick = "working" /\ lock = None /\ lock' = lock
        /\ Persist(s, released, written)
        /\ work' = [work EXCEPT ![o] = [j \in Jobs |->
             IF j \in left \/ ~written THEN NoWork ELSE work[o][j]]]
        /\ IF written THEN UNCHANGED svc ELSE TickOver(s, released)
        /\ UNCHANGED <<now, manual, marker, generation, current, edits, environment>>
    BY DEF TickReleases, Free
  <1>2. /\ TypeOK /\ CopiesAreGood /\ now \in Nat /\ environment \in Environments
        /\ o \in Owners /\ svc[s].phase # "new" /\ ReservedBefore /\ svc[s].loaded
        /\ work \in [Owners -> [Jobs -> WorkRecords]] /\ marker \in [Jobs -> Markers]
        /\ GoodStore(disk) /\ svc \in [Services -> SvcStates]
    BY <1>1, TickFacts, TypeParts
  <1> HIDE DEF released
  <1>3. /\ SvcStep(s) /\ svc'[s].phase = svc[s].phase /\ svc'[s].loaded
        /\ svc'[s].tick = IF written THEN "working" ELSE "idle"
    <2>1. CASE written
      BY <1>1, <1>2, <2>1 DEF SvcStep
    <2>2. CASE ~written
      BY <1>1, <1>2, <2>2, TickOverIs
    <2> QED
      BY <2>1, <2>2
  <1>4. /\ work' \in [Owners -> [Jobs -> WorkRecords]]
        /\ \A p \in Owners : p # o => work'[p] = work[p]
        /\ \A j \in Jobs : work'[o][j] = IF j \in left \/ ~written THEN NoWork ELSE work[o][j]
    BY <1>1, <1>2, NoWorkIsRecord DEF NoWorkRecord
  <1>5. /\ WorkEnds(o)
        /\ \A j \in left : work'[o][j].st = "none"
        /\ ~written => \A j \in Jobs : work'[o][j].st = "none"
    BY <1>4, NoWorkIsRecord DEF WorkEnds, NoWorkRecord, JobsIn
  <1>6. Section(s)
    BY <1>1, <1>2, <1>3, <1>5, TickSection
  <1>7. WorkFollows
    BY <1>1, <1>2, <1>5, WorkEndsFollows
  <1>8. KeptBy(free) /\ GoodStore(free) /\ IsStore(free)
    BY <1>1, <1>2, <1>4, <1>5, <1>7, OldMarks, KeptReleased, ReleasedIsGood DEF GoodStore
  <1> HIDE DEF free
  <1>9. KeptBy(released) /\ GoodStore(released)
    BY <1>1, <1>2, <1>4, <1>8, KeptMaintained, MaintainedIsGood DEF released
  <1> QED
    BY <1>1, <1>2, <1>6, <1>9, WriteStep

LEMMA TickFinalizesStep ==
    ASSUME CronInv, NEW s \in Services, NEW written \in BOOLEAN, TickFinalizes(s, written)
    PROVE  CronInv'
  <1> DEFINE o == Tick(s)
             ended == JobsIn(o, "ended")
             finalized == {j \in ended : IsCurrent(o, j)}
             applied == Applied(disk, finalized \cap DOMAIN disk, o)
             store == MaintainedStore(applied, FALSE)
  <1>1. /\ svc[s].tick = "working" /\ lock = None /\ lock' = lock
        /\ IF finalized = {}
           THEN NoStoreChange /\ TickOver(s, mem[s])
           ELSE Persist(s, store, written) /\ TickOver(s, store)
        /\ work' = [work EXCEPT ![o] = [j \in Jobs |-> NoWork]]
        /\ marker' = Cleared(ended, o)
        /\ UNCHANGED <<now, manual, generation, current, edits, environment>>
    BY DEF TickFinalizes, Free
  <1>2. /\ TypeOK /\ CopiesAreGood /\ now \in Nat /\ environment \in Environments
        /\ o \in Owners /\ svc[s].phase # "new" /\ ReservedBefore /\ svc[s].loaded
        /\ work \in [Owners -> [Jobs -> WorkRecords]]
        /\ GoodStore(disk) /\ IsStore(disk)
    BY <1>1, TickFacts
  <1>3. \A j \in finalized : j \in Jobs /\ Capable(o, j)
    BY DEF JobsIn, IsCurrent, Capable
  <1> HIDE DEF store, finalized
  <1>4. PICK last : TickOver(s, last)
    BY <1>1
  <1>5. /\ SvcStep(s) /\ svc'[s].phase = svc[s].phase
        /\ svc'[s].tick = "idle" /\ svc'[s].loaded
    BY <1>2, <1>4, TickOverIs
  <1>6. WorkEnds(o) /\ \A j \in Jobs : work'[o][j].st = "none"
    BY <1>1, <1>2, AllWorkEnds
  <1>7. Section(s)
    BY <1>1, <1>2, <1>5, <1>6, ClearedMarkers, TickSection
  <1>8. CASE finalized = {}
    BY <1>1, <1>2, <1>7, <1>8, QuietStep
  <1>9. CASE finalized # {}
    <2>1. Persist(s, store, written)
      BY <1>1, <1>9
    <2>2. WorkFollows /\ work' \in [Owners -> [Jobs -> WorkRecords]]
      BY <1>1, <1>2, <1>6, WorkEndsFollows DEF WorkEnds
    <2>3. KeptBy(disk)
      BY <1>1, <1>2, <2>2, OldMarks
    <2>4. \A q \in Owners, j \in finalized \cap DOMAIN disk :
            ~IsFirm(work'[q][j], now', environment'.stuck)
      BY <1>1, <1>2, <1>3, <1>6, <2>2, NobodyElse
    <2>5. KeptBy(applied)
      BY <2>3, <2>4, KeptApplied
    <2>6. IsStore(applied)
      BY <1>2, AppliedIsStore
    <2> HIDE DEF applied
    <2>7. KeptBy(store) /\ GoodStore(store)
      BY <1>1, <1>2, <2>2, <2>5, <2>6, KeptMaintained, MaintainedIsGood DEF store
    <2> QED
      BY <1>2, <1>7, <2>1, <2>7, WriteStep
  <1> QED
    BY <1>8, <1>9

LEMMA KeptReserved ==
    ASSUME NEW store, KeptBy(store), NEW js, NEW p,
           \A i \in js : store[i].running = None
    PROVE  KeptBy(Reserved(store, js, p))
  BY ReservedHolds DEF KeptBy

\* The start of an execution that was reserved, by a service that goes on
LEMMA ExecuteIs ==
    ASSUME CronInv, NEW o \in Owners, NEW j \in Jobs, work[o][j].st = "reserved",
           ~svc[o[2]].stopped, svc' = svc, now' = now, Execute(o, j)
    PROVE  /\ work' \in [Owners -> [Jobs -> WorkRecords]]
           /\ marker' \in [Jobs -> Markers]
           /\ WorkFollows
           /\ \A p \in Owners, i \in Jobs :
                /\ work'[p][i].st = IF p = o /\ i = j THEN "executing" ELSE work[p][i].st
                /\ work'[p][i].reservedAt = work[p][i].reservedAt
                /\ Capable(p, i)' => Capable(p, i)
  <1>1. /\ work \in [Owners -> [Jobs -> WorkRecords]] /\ marker \in [Jobs -> Markers]
        /\ now \in Nat /\ generation \in Nat
    BY TypeParts DEF CronInv, TypeOK
  <1> DEFINE record == [work[o][j] EXCEPT !.st = "executing", !.start = now]
             mark == [by |-> o, generation |-> generation]
  <1>2. /\ record \in WorkRecords /\ record.st = "executing"
        /\ record.reservedAt = work[o][j].reservedAt
        /\ record.disowned = work[o][j].disowned
    <2>1. work[o][j] \in WorkRecords
      BY <1>1
    <2> QED
      BY <2>1, <1>1 DEF WorkRecords
  <1>3. mark \in Markers /\ mark.by = o
    BY <1>1 DEF Markers
  <1>4. work' = [work EXCEPT ![o][j] = record]
    BY <1>1 DEF Execute
  <1>5. marker' = [marker EXCEPT ![j] = mark]
    BY DEF Execute, Marked
  <1> HIDE DEF record, mark
  <1>6. /\ work' \in [Owners -> [Jobs -> WorkRecords]]
        /\ \A p \in Owners, i \in Jobs :
             work'[p][i] = IF p = o /\ i = j THEN record ELSE work[p][i]
    BY <1>1, <1>2, <1>4
  <1>7. /\ marker' \in [Jobs -> Markers]
        /\ \A i \in Jobs : marker'[i] = IF i = j THEN mark ELSE marker[i]
    BY <1>1, <1>3, <1>5
  <1>8. WorkFollows
    BY <1>2, <1>6 DEF WorkFollows, Follows
  <1>9. \A p \in Owners, i \in Jobs : Capable(p, i)' => Capable(p, i)
    BY <1>2, <1>3, <1>6, <1>7 DEF Capable
  <1> QED
    BY <1>2, <1>6, <1>7, <1>8, <1>9

LEMMA TickExecutesStep ==
    ASSUME CronInv, NEW s \in Services, NEW j \in Jobs, TickExecutes(s, j)
    PROVE  CronInv'
  <1> DEFINE o == Tick(s)
             row == [mem[s][j] EXCEPT !.runningAt = now]
  <1>1. /\ svc[s].tick = "working" /\ ~svc[s].stopped
        /\ work[o][j].st = "reserved" /\ Execute(o, j)
        /\ \/ UNCHANGED mem
           \/ /\ j \in DOMAIN mem[s] /\ mem[s][j].running = o
              /\ mem' = [mem EXCEPT ![s][j].runningAt = now]
        /\ UNCHANGED <<now, disk, svc, manual, generation, lock, current,
                       edits, failures, stale, environment>>
    BY DEF TickExecutes, JobsIn
  <1>2. /\ TypeOK /\ CopiesAreGood /\ now \in Nat /\ environment \in Environments
        /\ o \in Owners /\ svc[s].phase # "new" /\ svc[s].loaded
        /\ GoodStore(disk) /\ GoodStore(mem[s])
        /\ DOMAIN mem = Services /\ current \in Services
        /\ \A t \in Services : GoodStore(mem[t])
    BY <1>1, TickFacts, TypeParts
  <1>3. o[2] = s /\ s = current
    BY <1>1, <1>2, OwnersApart, WhoActs DEF CronInv
  <1>4. /\ work' \in [Owners -> [Jobs -> WorkRecords]] /\ marker' \in [Jobs -> Markers]
        /\ WorkFollows
        /\ \A p \in Owners, i \in Jobs :
             /\ work'[p][i].st = IF p = o /\ i = j THEN "executing" ELSE work[p][i].st
             /\ work'[p][i].reservedAt = work[p][i].reservedAt
             /\ Capable(p, i)' => Capable(p, i)
    BY <1>1, <1>2, <1>3, ExecuteIs
  <1> DEFINE Fate(t) ==
               \/ mem'[t] = mem[t]
               \/ /\ t = s /\ j \in DOMAIN mem[s] /\ mem[s][j].running = o
                  /\ mem'[s] = [mem[s] EXCEPT ![j] = row]
  <1>5. DOMAIN mem' = Services /\ \A t \in Services : Fate(t)
    BY <1>1, <1>2
  <1>6. j \in DOMAIN mem[s] => /\ row \in Row /\ row.enabled = mem[s][j].enabled
                               /\ row.at = mem[s][j].at /\ row.next = mem[s][j].next
                               /\ row.running = mem[s][j].running /\ row.runningAt = now
    BY <1>2 DEF GoodStore, IsStore, Row
  <1> HIDE DEF row
  <1>7. \A t \in Services : GoodStore(mem'[t])
    <2> SUFFICES ASSUME NEW t \in Services PROVE GoodStore(mem'[t])
      OBVIOUS
    <2>1. CASE mem'[t] = mem[t]
      BY <1>2, <2>1
    <2>2. CASE /\ t = s /\ j \in DOMAIN mem[s]
               /\ mem'[s] = [mem[s] EXCEPT ![j] = row]
      BY <1>2, <1>6, <2>2 DEF GoodStore, IsStore
    <2> QED
      BY <1>5, <2>1, <2>2
  <1>8. TypeOK' /\ CopiesAreGood'
    BY <1>1, <1>2, <1>4, <1>5, <1>7, TypeParts, TypeIsMade DEF TypeOK
  <1>9. OneService' /\ RunShape'
    BY <1>1 DEF CronInv, OneService, Dormant, RunShape
  <1>10. TickShape'
    <2>1. \A t \in Services : lock = Tick(t) => t # s
      BY <1>1 DEF CronInv, TickShape
    <2>2. \A t \in Services : t # s => mem'[t] = mem[t] /\ Tick(t) # o
      BY <1>5, OwnersApart
    <2>3. \A t \in Services : lock = Tick(t) => mem'[t] = disk
      BY <2>1, <2>2 DEF CronInv, TickShape
    <2>4. \A t \in Services : t # s =>
            \A i \in Jobs : work'[Tick(t)][i].st = work[Tick(t)][i].st
      BY <1>4, <2>2, OwnersApart
    <2> QED
      BY <1>1, <2>3, <2>4 DEF CronInv, TickShape, NoWorkOf
  <1>11. StartShape'
    BY SMTT(40), <1>1, <1>4, OwnersApart DEF CronInv, StartShape, NoWorkOf
  <1>12. RunWork'
    BY <1>1, <1>4, OwnersApart DEF CronInv, RunWork
  <1>13. RunMark'
    <2> SUFFICES ASSUME NEW m \in Manuals, manual[m].phase = "reserving"
                 PROVE  LET i == manual[m].job
                            copy == mem'[manual[m].service]
                        IN  /\ i \in DOMAIN disk /\ i \in DOMAIN copy /\ copy[i] = disk[i]
                            /\ disk[i].running = Manual(m)
                            /\ disk[i].runningAt = manual[m].at
      BY <1>1 DEF RunMark
    <2> DEFINE t == manual[m].service
               i == manual[m].job
    <2>1. /\ t \in Services
          /\ i \in DOMAIN disk /\ i \in DOMAIN mem[t] /\ mem[t][i] = disk[i]
          /\ disk[i].running = Manual(m) /\ disk[i].runningAt = manual[m].at
      BY DEF CronInv, RunMark, RunShape
    <2> HIDE DEF t, i
    <2>2. Manual(m) # o
      BY OwnersApart
    <2>3. i \in DOMAIN mem'[t] /\ mem'[t][i] = mem[t][i]
      <3>1. CASE mem'[t] = mem[t]
        BY <2>1, <3>1
      <3>2. CASE /\ t = s /\ j \in DOMAIN mem[s] /\ mem[s][j].running = o
                 /\ mem'[s] = [mem[s] EXCEPT ![j] = row]
        <4>1. i # j
          BY <2>1, <2>2, <3>2
        <4> QED
          BY <2>1, <3>2, <4>1
      <3> QED
        BY <1>5, <2>1, <3>1, <3>2
    <2> QED
      BY <2>1, <2>3 DEF t, i
  <1>14. ReservedBefore'
    BY <1>1, <1>4 DEF CronInv, ReservedBefore
  <1>15. KeptBy(disk) /\ KeptBy(mem[s])
    BY <1>1, <1>2, <1>3, <1>4, OldMarks
  <1>16. KeptBy(mem'[s])
    <2>1. CASE mem'[s] = mem[s]
      BY <1>15, <2>1
    <2>2. CASE j \in DOMAIN mem[s] /\ mem'[s] = [mem[s] EXCEPT ![j] = row]
      <3> SUFFICES ASSUME NEW p \in Owners, NEW i \in Jobs,
                          IsFirm(work'[p][i], now', environment'.stuck)
                   PROVE  Holds(mem'[s], i, p, work'[p][i].reservedAt)
        BY DEF KeptBy
      <3>1. Holds(mem[s], i, p, work'[p][i].reservedAt)
        BY <1>15 DEF KeptBy
      <3>2. work'[p][i].reservedAt <= now
        BY <1>4 DEF CronInv, ReservedBefore
      <3> QED
        BY <1>6, <2>2, <3>1, <3>2 DEF Holds
    <2> QED
      BY <1>5, <2>1, <2>2
  <1>17. FirmHolds'
    BY <1>1, <1>3, <1>15, <1>16 DEF KeptBy, FirmHolds
  <1>18. OneWriter'
    BY <1>1, <1>2, <1>4, OneWriterKept
  <1>19. Synced'
    <2> SUFFICES ASSUME ~stale, svc[current].loaded PROVE SameDefinitions(disk, mem'[s])
      BY <1>1, <1>3 DEF Synced
    <2>1. SameDefinitions(disk, mem[s])
      BY <1>3 DEF CronInv, Synced
    <2>2. CASE mem'[s] = mem[s]
      BY <2>1, <2>2
    <2>3. CASE j \in DOMAIN mem[s] /\ mem'[s] = [mem[s] EXCEPT ![j] = row]
      BY <1>6, <2>1, <2>3 DEF SameDefinitions
    <2> QED
      BY <1>5, <2>2, <2>3
  <1> QED
    BY <1>8, <1>9, <1>10, <1>11, <1>12, <1>13, <1>14, <1>17, <1>18, <1>19 DEF CronInv

-----------------------------------------------------------------------------
(* Runs that begin.                                                        *)

\* A run of j that was given up can still write.
LetGoWrites(j) == \E o \in Owners : LetGo(o, j) /\ Capable(o, j)

NewRecord(st, at, start, d) ==
    [NoWork EXCEPT !.st = st, !.reservedAt = at, !.start = start, !.disowned = d]

LEMMA NewRecordIs ==
    ASSUME NEW st \in {"reserved", "executing"}, NEW at \in Nat, NEW start \in Nat,
           NEW d \in BOOLEAN
    PROVE  /\ NewRecord(st, at, start, d) \in WorkRecords
           /\ NewRecord(st, at, start, d).st = st
           /\ NewRecord(st, at, start, d).reservedAt = at
           /\ NewRecord(st, at, start, d).disowned = d
  BY DEF NewRecord, NoWork, WorkRecords

LEMMA NewRunIs ==
    ASSUME NEW j \in Jobs, NEW st \in {"reserved", "executing"}, NEW at \in Nat,
           NEW start \in Nat
    PROVE  /\ NewRun(j, st, at, start) \in WorkRecords
           /\ NewRun(j, st, at, start).st = st
           /\ NewRun(j, st, at, start).reservedAt = at
           /\ NewRun(j, st, at, start).disowned = LetGoWrites(j)
  <1>1. NewRun(j, st, at, start) = NewRecord(st, at, start, LetGoWrites(j))
    BY DEF NewRun, NewRecord, LetGoWrites, Capable
  <1>2. LetGoWrites(j) \in BOOLEAN
    BY DEF LetGoWrites
  <1> QED
    BY <1>1, <1>2, NewRecordIs

\* A run that begins and counts begins when no run that was given up can still
\* write: then nobody else can, if no run of the job counts.
LEMMA NobodyBefore ==
    ASSUME CronInv, NEW o \in Owners, NEW j \in Jobs,
           \A p \in Owners : p # o => ~IsFirm(work[p][j], now, environment.stuck),
           ~LetGoWrites(j),
           NEW p \in Owners, p # o
    PROVE  ~Capable(p, j)
  <1>1. /\ now \in Nat /\ environment.stuck \in Nat /\ work[p][j] \in WorkRecords
    BY TypeParts DEF CronInv
  <1> SUFFICES ASSUME Capable(p, j) PROVE FALSE
    OBVIOUS
  <1>2. ~LetGo(p, j)
    BY DEF LetGoWrites
  <1>3. work[p][j].st # "none"
    BY DEF Capable
  <1>4. IsFirm(work[p][j], now, environment.stuck)
    <2>1. work[p][j].reservedAt \in Nat
      BY <1>1 DEF WorkRecords
    <2> QED
      BY <1>1, <1>2, <1>3, <2>1 DEF LetGo, IsFirm
  <1> QED
    BY <1>4

\* The runs of o that begin in a step, for the jobs js
LEMMA OneWriterBegins ==
    ASSUME CronInv, NEW o \in Owners, NEW js \in SUBSET Jobs,
           UNCHANGED <<now, environment>>,
           \A p \in Owners : p # o => work'[p] = work[p],
           \A j \in Jobs : j \notin js => work'[o][j] = work[o][j] \/ work'[o][j] = NoWork,
           \A j \in js : \A p \in Owners :
             p # o => ~IsFirm(work[p][j], now, environment.stuck),
           \A j \in js :
             ~work'[o][j].disowned => ~LetGoWrites(j),
           \A p \in Owners, j \in Jobs :
             Capable(p, j)' => Capable(p, j) \/ (p = o /\ j \in js)
    PROVE  OneWriter'
  <1> SUFFICES ASSUME NEW p \in Owners, NEW q \in Owners, NEW j \in Jobs, p # q,
                      IsFirm(work'[p][j], now, environment.stuck), Capable(q, j)'
               PROVE  FALSE
    BY DEF OneWriter
  <1>1. CASE p = o /\ j \in js
    <2>1. ~LetGoWrites(j)
      BY <1>1 DEF IsFirm
    <2>2. ~Capable(q, j)
      BY <1>1, <2>1, NobodyBefore
    <2> QED
      BY <1>1, <2>2
  <1>2. CASE ~(p = o /\ j \in js)
    <2>1. IsFirm(work[p][j], now, environment.stuck)
      BY <1>2, NoWorkIsRecord DEF IsFirm, NoWorkRecord
    <2>2. ~Capable(q, j)
      BY <2>1 DEF CronInv, OneWriter
    <2>3. q = o /\ j \in js
      BY <2>2
    <2> QED
      BY <2>1, <2>3
  <1> QED
    BY <1>1, <1>2

\* A job without a mark has no run that counts.
LEMMA NobodyHolds ==
    ASSUME CronInv, NEW j \in Jobs,
           disk[j].running = None \/ (svc[current].loaded /\ mem[current][j].running = None),
           NEW p \in Owners
    PROVE  ~IsFirm(work[p][j], now, environment.stuck)
  BY OwnersApart DEF CronInv, FirmHolds, Holds

\* A section of the service of the day that reserves the jobs js of a store it
\* has, for an owner without work
LEMMA RunsAreReserved ==
    ASSUME CronInv, NEW s \in Services, s = current, SvcStep(s),
           NEW store, GoodStore(store),
           store = disk \/ (svc[s].loaded /\ store = mem[s]),
           NEW js, \A j \in js : j \in DOMAIN store /\ store[j].enabled /\ store[j].running = None,
           NEW o \in Owners, NoWorkOf(o),
           Persist(s, Reserved(store, js, o), TRUE),
           work' = [work EXCEPT ![o] = [j \in Jobs |->
                      IF j \in js THEN NewRun(j, "reserved", now, 0) ELSE NoWork]],
           UNCHANGED <<now, marker, current, environment>>
    PROVE  /\ work' \in [Owners -> [Jobs -> WorkRecords]]
           /\ \A p \in Owners : p # o => work'[p] = work[p]
           /\ \A j \in Jobs : work'[o][j].st \in {"none", "reserved"}
           /\ GoodStore(disk') /\ DOMAIN mem' = Services
           /\ \A t \in Services : GoodStore(mem'[t])
           /\ mem'[s] = disk'
           /\ failures' \in Nat /\ stale' \in BOOLEAN
           /\ ReservedBefore' /\ FirmHolds' /\ OneWriter' /\ Synced'
  <1> DEFINE reserved == Reserved(store, js, o)
  <1>1. /\ TypeOK /\ CopiesAreGood /\ now \in Nat /\ ReservedBefore
        /\ work \in [Owners -> [Jobs -> WorkRecords]]
        /\ TRUE \in BOOLEAN /\ current \in Services
    BY TypeParts DEF CronInv
  <1>2. \A j \in js : j \in Jobs /\ store[j] \in Row
    BY DEF GoodStore, IsStore
  <1>3. GoodStore(reserved)
    BY <1>1, ReservedIsGood
  <1>4. /\ GoodStore(disk') /\ DOMAIN mem' = Services
        /\ \A t \in Services : GoodStore(mem'[t])
        /\ mem'[s] = reserved /\ disk' = reserved
        /\ failures' \in Nat /\ stale' \in BOOLEAN
    BY <1>1, <1>3, PersistIsGood DEF Persist
  <1>5. \A j \in Jobs : j \in js =>
          /\ NewRun(j, "reserved", now, 0) \in WorkRecords
          /\ NewRun(j, "reserved", now, 0).st = "reserved"
          /\ NewRun(j, "reserved", now, 0).reservedAt = now
          /\ NewRun(j, "reserved", now, 0).disowned = LetGoWrites(j)
    <2> SUFFICES ASSUME NEW j \in Jobs
                 PROVE  /\ NewRun(j, "reserved", now, 0) \in WorkRecords
                        /\ NewRun(j, "reserved", now, 0).st = "reserved"
                        /\ NewRun(j, "reserved", now, 0).reservedAt = now
                        /\ NewRun(j, "reserved", now, 0).disowned = LetGoWrites(j)
      OBVIOUS
    <2>1. 0 \in Nat /\ "reserved" \in {"reserved", "executing"}
      OBVIOUS
    <2> QED
      BY <1>1, <2>1, NewRunIs
  <1>6. /\ work' \in [Owners -> [Jobs -> WorkRecords]]
        /\ \A p \in Owners : p # o => work'[p] = work[p]
        /\ \A j \in Jobs : work'[o][j] =
             IF j \in js THEN NewRun(j, "reserved", now, 0) ELSE NoWork
    BY <1>1, <1>5, NoWorkIsRecord DEF NoWorkRecord
  <1>7. \A j \in Jobs : work'[o][j].st \in {"none", "reserved"}
    BY <1>5, <1>6, NoWorkIsRecord DEF NoWorkRecord
  <1>8. ReservedBefore'
    <2>1. NoWork.reservedAt <= now
      BY <1>1, NoWorkIsRecord DEF NoWorkRecord
    <2>2. \A j \in Jobs : j \in js => NewRun(j, "reserved", now, 0).reservedAt <= now
      BY <1>1, <1>5
    <2>3. \A j \in Jobs : work'[o][j].reservedAt <= now
      BY <1>6, <2>1, <2>2
    <2>4. \A p \in Owners, j \in Jobs : p # o => work'[p][j].reservedAt <= now
      BY <1>1, <1>6 DEF ReservedBefore
    <2> QED
      BY <2>3, <2>4 DEF ReservedBefore
  <1> HIDE DEF reserved
  <1>9. FirmHolds'
    <2> SUFFICES ASSUME NEW p \in Owners, NEW j \in Jobs,
                        IsFirm(work'[p][j], now, environment.stuck)
                 PROVE  Holds(reserved, j, p, work'[p][j].reservedAt)
      BY <1>4 DEF FirmHolds
    <2>1. CASE p # o
      <3>1. Holds(store, j, p, work'[p][j].reservedAt)
        BY <1>6, <2>1 DEF CronInv, FirmHolds
      <3> QED
        BY <3>1, ReservedHolds DEF reserved
    <2>2. CASE p = o
      <3>1. j \in js
        BY <1>6, <2>2, NoWorkIsRecord DEF NoWorkRecord, IsFirm
      <3>2. work'[p][j].reservedAt = now
        BY <1>5, <1>6, <2>2, <3>1
      <3>3. /\ reserved[j] = [store[j] EXCEPT !.running = o, !.runningAt = now]
            /\ j \in DOMAIN reserved
        BY <3>1 DEF Reserved, reserved
      <3>4. reserved[j].running = o /\ reserved[j].runningAt = now /\ reserved[j].enabled
        BY <1>2, <3>1, <3>3 DEF Row
      <3> QED
        BY <1>1, <2>2, <3>2, <3>3, <3>4 DEF Holds
    <2> QED
      BY <2>1, <2>2
  <1>10. OneWriter'
    <2>1. js \in SUBSET Jobs
      BY <1>2
    <2>2. \A j \in js, p \in Owners : ~IsFirm(work[p][j], now, environment.stuck)
      BY <1>2, NobodyHolds
    <2>3. ASSUME NEW p \in Owners, NEW j \in Jobs, Capable(p, j)', ~(p = o /\ j \in js)
          PROVE  Capable(p, j)
      <3>1. work'[p][j].st = work[p][j].st
        BY <1>6, <2>3, NoWorkIsRecord DEF NoWorkRecord, NoWorkOf
      <3>2. work[p][j].st = "reserved" => svc'[p[2]].stopped = svc[p[2]].stopped
        BY OwnersApart, SvcStepStopped DEF CronInv, RunWork
      <3> QED
        BY <2>3, <3>1, <3>2 DEF Capable
    <2>4. \A j \in js : ~work'[o][j].disowned => ~LetGoWrites(j)
      BY <1>2, <1>5, <1>6
    <2>5. \A j \in Jobs : j \notin js => work'[o][j] = work[o][j] \/ work'[o][j] = NoWork
      BY <1>6
    <2>6. UNCHANGED <<now, environment>> /\ \A p \in Owners : p # o => work'[p] = work[p]
      BY <1>6
    <2>7. \A p \in Owners, j \in Jobs : Capable(p, j)' => Capable(p, j) \/ (p = o /\ j \in js)
      BY <2>3
    <2> QED
      BY <2>1, <2>2, <2>4, <2>5, <2>6, <2>7, OneWriterBegins
  <1>11. Synced'
    BY <1>1, PersistSyncs DEF CronInv
  <1> QED
    BY <1>4, <1>6, <1>7, <1>8, <1>9, <1>10, <1>11

LEMMA TickLoadsStep ==
    ASSUME CronInv, NEW s \in Services, NEW written \in BOOLEAN, TickLoads(s, written)
    PROVE  CronInv'
  <1> DEFINE due == {j \in DOMAIN disk : IsRunnable(j, disk[j])}
             o == Tick(s)
             reserved == Reserved(disk, due, o)
             maintained == MaintainedStore(disk, TRUE)
  <1>1. /\ svc[s].tick = "load" /\ lock = None
        /\ \/ /\ svc[s].stopped /\ written
              /\ Reload(s)
              /\ TickOver(s, disk)
              /\ UNCHANGED <<work, lock>>
           \/ /\ ~svc[s].stopped /\ due = {}
              /\ Persist(s, maintained, written)
              /\ TickOver(s, maintained)
              /\ UNCHANGED <<work, lock>>
           \/ /\ ~svc[s].stopped /\ due # {}
              /\ Persist(s, reserved, written)
              /\ IF written
                 THEN /\ svc' = [svc EXCEPT ![s].tick = "reserving", ![s].loaded = TRUE]
                      /\ lock' = o
                      /\ work' = [work EXCEPT ![o] = [j \in Jobs |->
                           IF j \in due THEN NewRun(j, "reserved", now, 0) ELSE NoWork]]
                 ELSE TickOver(s, reserved) /\ UNCHANGED <<work, lock>>
        /\ UNCHANGED <<now, manual, marker, generation, current, edits, environment>>
    BY DEF TickLoads, Free
  <1>2. /\ TypeOK /\ CopiesAreGood /\ now \in Nat /\ environment \in Environments
        /\ o \in Owners /\ svc[s].phase # "new" /\ ReservedBefore
        /\ work \in [Owners -> [Jobs -> WorkRecords]] /\ marker \in [Jobs -> Markers]
        /\ GoodStore(disk) /\ IsStore(disk)
    BY <1>1, TickFacts
  <1>3. \A j \in due : j \in Jobs /\ disk[j].running = None /\ disk[j].enabled
    BY <1>2 DEF IsRunnable, IsStore
  <1>4. NoWorkOf(o)
    BY <1>1 DEF CronInv, TickShape
  <1>5. GoodStore(reserved) /\ GoodStore(maintained)
    BY <1>2, ReservedIsGood, MaintainedIsGood
  <1> HIDE DEF due, reserved, maintained
  <1>6. ASSUME UNCHANGED <<work, lock>>, NEW last, TickOver(s, last)
        PROVE  /\ Section(s) /\ WorkFollows
               /\ KeptBy(disk) /\ KeptBy(reserved) /\ KeptBy(maintained)
    <2>1. /\ SvcStep(s) /\ svc'[s].phase = svc[s].phase
          /\ svc'[s].tick = "idle" /\ svc'[s].loaded
      BY <1>2, <1>6, TickOverIs
    <2>2. WorkEnds(o) /\ \A j \in Jobs : work'[o][j].st = "none"
      BY <1>2, <1>4, <1>6 DEF WorkEnds, NoWorkOf
    <2>3. Section(s)
      BY <1>1, <1>2, <1>6, <2>1, <2>2, TickSection
    <2>4. WorkFollows
      BY <1>1, <1>2, <2>2, WorkEndsFollows
    <2>5. KeptBy(disk)
      BY <1>1, <1>2, <1>6, <2>4, OldMarks
    <2>6. KeptBy(reserved)
      BY <1>3, <2>5, KeptReserved DEF reserved
    <2>7. KeptBy(maintained)
      BY <1>1, <1>2, <1>6, <2>5, KeptMaintained DEF maintained
    <2> QED
      BY <2>3, <2>4, <2>5, <2>6, <2>7
  <1>7. CASE svc[s].stopped
    <2>1. Reload(s) /\ TickOver(s, disk) /\ UNCHANGED <<work, lock>>
      BY <1>1, <1>7
    <2> QED
      BY <1>2, <1>6, <2>1, ReloadStep
  <1>8. CASE ~svc[s].stopped /\ due = {}
    <2>1. Persist(s, maintained, written) /\ TickOver(s, maintained) /\ UNCHANGED <<work, lock>>
      BY <1>1, <1>8
    <2> QED
      BY <1>2, <1>5, <1>6, <2>1, WriteStep
  <1>9. CASE ~svc[s].stopped /\ due # {} /\ ~written
    <2>1. Persist(s, reserved, written) /\ TickOver(s, reserved) /\ UNCHANGED <<work, lock>>
      BY <1>1, <1>9
    <2> QED
      BY <1>2, <1>5, <1>6, <2>1, WriteStep
  <1>10. CASE ~svc[s].stopped /\ due # {} /\ written
    <2>1. /\ Persist(s, reserved, written)
          /\ svc' = [svc EXCEPT ![s].tick = "reserving", ![s].loaded = TRUE]
          /\ lock' = o
          /\ work' = [work EXCEPT ![o] = [j \in Jobs |->
               IF j \in due THEN NewRun(j, "reserved", now, 0) ELSE NoWork]]
          /\ UNCHANGED <<now, manual, marker, generation, current, edits, environment>>
      BY <1>1, <1>10
    <2>2. s = current /\ current \in Services
      BY <1>2, <1>10, WhoActs DEF CronInv, TypeOK
    <2>3. /\ SvcStep(s) /\ svc'[s].phase = svc[s].phase
          /\ svc'[s].tick = "reserving" /\ svc'[s].loaded
      <3>1. svc \in [Services -> SvcStates]
        BY <1>2, TypeParts
      <3>2. /\ svc[s] \in SvcStates
            /\ svc'[s] = [svc[s] EXCEPT !.tick = "reserving", !.loaded = TRUE]
        BY <3>1, <2>1
      <3>3. svc'[s] \in SvcStates
        BY <3>2 DEF SvcStates
      <3>4. svc' \in [Services -> SvcStates] /\ \A t \in Services : t # s => svc'[t] = svc[t]
        BY <3>1, <3>3, <2>1
      <3> QED
        BY <1>2, <3>2, <3>4 DEF SvcStep, SvcStates
    <2>4. \A j \in due : j \in DOMAIN disk /\ disk[j].enabled /\ disk[j].running = None
      BY <1>3 DEF due
    <2>5. Persist(s, Reserved(disk, due, o), TRUE)
      BY <1>10, <2>1 DEF reserved
    <2>6. /\ work' \in [Owners -> [Jobs -> WorkRecords]]
          /\ \A p \in Owners : p # o => work'[p] = work[p]
          /\ \A j \in Jobs : work'[o][j].st \in {"none", "reserved"}
          /\ GoodStore(disk') /\ DOMAIN mem' = Services
          /\ \A t \in Services : GoodStore(mem'[t])
          /\ mem'[s] = disk'
          /\ failures' \in Nat /\ stale' \in BOOLEAN
          /\ ReservedBefore' /\ FirmHolds' /\ OneWriter' /\ Synced'
      BY <1>2, <1>4, <2>1, <2>2, <2>3, <2>4, <2>5, RunsAreReserved
    <2>7. TypeOK' /\ CopiesAreGood'
      BY <1>2, <2>1, <2>3, <2>6, TypeParts, TypeIsMade DEF TypeOK, SvcStep
    <2>8. OneService'
      BY <1>2, <2>1, <2>3, OneServiceKept DEF CronInv
    <2>9. TickShape'
      <3>1. \A t \in Services : t # s => lock' # Tick(t) /\ work'[Tick(t)] = work[Tick(t)]
        BY <2>1, <2>6, OwnersApart
      <3>2. \A t \in Services : svc[t].tick # "reserving"
        BY <1>1, OwnersApart DEF CronInv, TickShape
      <3>3. \A t \in Services : t # s => svc'[t] = svc[t] /\ lock # Tick(t)
        BY <1>1, <2>3, OwnersApart DEF SvcStep
      <3>4. \A t \in Services : t # s =>
              /\ svc'[t].tick \in {"idle", "load"} => NoWorkOf(Tick(t))'
              /\ svc'[t].tick # "reserving"
              /\ svc'[t].tick \in {"reserving", "working"} => svc'[t].loaded
        BY <3>1, <3>2, <3>3 DEF CronInv, TickShape, NoWorkOf
      <3> QED
        BY <2>1, <2>3, <2>6, <3>1, <3>4 DEF TickShape
    <2>10. StartShape'
      <3>1. \A t \in Services : lock' # Boot(t) /\ work'[Boot(t)] = work[Boot(t)]
        BY <2>1, <2>6, OwnersApart
      <3> QED
        BY <2>3, <3>1 DEF CronInv, StartShape, NoWorkOf, SvcStep
    <2>11. RunShape'
      <3>1. \A m \in Manuals : lock' = Manual(m) <=> lock = Manual(m)
        BY <1>1, <2>1, OwnersApart
      <3>2. RunShape /\ manual' = manual /\ now' \in Nat /\ now' >= now
        BY <1>1, <1>2 DEF CronInv
      <3> QED
        BY <1>2, <2>3, <3>1, <3>2, RunShapeKept
    <2>12. RunWork' /\ RunMark'
      <3>1. \A m \in Manuals : work'[Manual(m)] = work[Manual(m)] /\ lock' # Manual(m)
        BY <2>1, <2>6, OwnersApart
      <3>2. \A m \in Manuals : manual'[m].phase # "reserving"
        BY <2>11, <3>1 DEF RunShape
      <3> QED
        BY <2>1, <3>1, <3>2 DEF CronInv, RunWork, RunMark
    <2> QED
      BY <2>6, <2>7, <2>8, <2>9, <2>10, <2>11, <2>12 DEF CronInv
  <1> QED
    BY <1>7, <1>8, <1>9, <1>10

-----------------------------------------------------------------------------
(* The steps: start.                                                       *)

\* The phase of a start changes; what else it sets does not matter here.
StartMoves(s, phase) ==
    /\ SvcStep(s) /\ svc'[s].phase = phase /\ svc'[s].tick = svc[s].tick
    /\ svc'[s].loaded

LEMMA StartOverIs ==
    ASSUME TypeOK, CopiesAreGood, NEW s \in Services, svc[s].phase # "new",
           svc' = StartOver(s)
    PROVE  StartMoves(s, "over")
  <1>1. svc \in [Services -> SvcStates]
    BY TypeParts
  <1>2. /\ svc[s] \in SvcStates
        /\ svc'[s] = [svc[s] EXCEPT !.phase = "over", !.loaded = TRUE]
        /\ \A t \in Services : t # s => svc'[t] = svc[t]
    BY <1>1 DEF StartOver
  <1>3. svc'[s] \in SvcStates
    BY <1>2 DEF SvcStates
  <1>4. svc' \in [Services -> SvcStates]
    BY <1>1, <1>3 DEF StartOver
  <1> QED
    BY <1>2, <1>4 DEF SvcStep, SvcStates, StartMoves

LEMMA StartGoesOnIs ==
    ASSUME TypeOK, CopiesAreGood, NEW s \in Services, svc[s].phase # "new",
           NEW phase \in {"plan", "catchup", "arm", "up"}, NEW skip \in SUBSET Jobs,
           NEW deferred \in SUBSET Jobs, NEW timer \in BOOLEAN,
           \/ svc' = [StartGoesOn(s, phase) EXCEPT ![s].skip = skip]
           \/ svc' = [StartGoesOn(s, phase) EXCEPT ![s].deferred = deferred]
           \/ svc' = [StartGoesOn(s, phase) EXCEPT ![s].skip = skip, ![s].deferred = deferred]
           \/ svc' = [StartGoesOn(s, phase) EXCEPT ![s].timer = timer]
    PROVE  StartMoves(s, phase)
  <1> DEFINE r == [svc[s] EXCEPT !.phase = phase, !.loaded = TRUE]
  <1>1. svc \in [Services -> SvcStates]
    BY TypeParts
  <1>2. svc[s] \in SvcStates
    BY <1>1
  <1>3. /\ r \in SvcStates /\ r.phase = phase /\ r.loaded /\ r.tick = svc[s].tick
        /\ r.stopped = svc[s].stopped
    BY <1>2 DEF SvcStates
  <1>4. /\ StartGoesOn(s, phase)[s] = r
        /\ \A t \in Services : t # s => StartGoesOn(s, phase)[t] = svc[t]
        /\ StartGoesOn(s, phase) \in [Services -> SvcStates]
    BY <1>1, <1>3 DEF StartGoesOn
  <1> HIDE DEF r
  <1>5. /\ svc'[s] \in {[r EXCEPT !.skip = skip], [r EXCEPT !.deferred = deferred],
                        [r EXCEPT !.skip = skip, !.deferred = deferred],
                        [r EXCEPT !.timer = timer]}
        /\ \A t \in Services : t # s => svc'[t] = svc[t]
    BY <1>4
  <1>6. /\ svc'[s] \in SvcStates /\ svc'[s].phase = phase /\ svc'[s].loaded
        /\ svc'[s].tick = svc[s].tick /\ svc'[s].stopped = svc[s].stopped
    BY <1>3, <1>5 DEF SvcStates
  <1>7. svc' \in [Services -> SvcStates]
    BY <1>4, <1>5, <1>6
  <1>8. phase # "new"
    OBVIOUS
  <1> QED
    BY <1>5, <1>6, <1>7, <1>8 DEF SvcStep, StartMoves

LEMMA StartShapeAfter ==
    ASSUME StartShape, NEW s \in Services, SvcStep(s), WorkCalms,
           lock = None, lock' = None,
           svc'[s].loaded \/ svc'[s].phase = "over",
           svc'[s].phase = "catchup" \/ \A j \in Jobs : work'[Boot(s)][j].st = "none"
    PROVE  StartShape'
  <1>1. \A t \in Services : t # s => svc'[t] = svc[t]
    BY DEF SvcStep
  <1>2. \A t \in Services, j \in Jobs :
          work'[Boot(t)][j].st \in {work[Boot(t)][j].st, "none"}
    BY OwnersApart DEF WorkCalms
  <1>3. \A t \in Services : lock' # Boot(t)
    BY OwnersApart
  <1> QED
    BY <1>1, <1>2, <1>3 DEF StartShape, NoWorkOf

\* A section of a start, of a manual run or of a user
LEMMA OtherSection ==
    ASSUME CronInv, NEW s \in Services, SvcStep(s), svc[s].loaded => svc'[s].loaded,
           svc'[s].tick = svc[s].tick, WorkCalms, lock = None, lock' = None,
           marker' \in [Jobs -> Markers],
           \A j \in Jobs : marker'[j].by \in {marker[j].by, None},
           UNCHANGED <<now, manual, generation, current, environment>>, edits' \in Nat,
           StartShape'
    PROVE  Section(s)
  <1>1. TypeOK /\ CopiesAreGood /\ now \in Nat /\ manual \in [Manuals -> ManualRuns]
    BY TypeParts DEF CronInv
  <1>2. TickShape'
    <2>1. \A t \in Services, j \in Jobs :
            work'[Tick(t)][j].st \in {work[Tick(t)][j].st, "none"}
      BY OwnersApart DEF WorkCalms
    <2>2. \A t \in Services : /\ svc'[t].tick = svc[t].tick
                              /\ svc[t].loaded => svc'[t].loaded
      BY DEF SvcStep
    <2> QED
      BY <2>1, <2>2, TickShapeKept DEF CronInv
  <1>3. RunShape'
    <2>1. now' \in Nat /\ now' >= now
      BY <1>1
    <2> QED
      BY <1>1, <2>1, RunShapeKept DEF CronInv
  <1>4. RunWork'
    BY OwnersApart, RunWorkKept DEF CronInv, WorkCalms
  <1> QED
    BY <1>1, <1>2, <1>3, <1>4 DEF Section

\* Giving runs up
LEMMA DisownedCalms ==
    ASSUME TypeOK, CopiesAreGood, ReservedBefore, NEW js, work' = Disowned(js), now' = now
    PROVE  /\ WorkCalms
           /\ \A o \in Owners, j \in Jobs :
                j \in js => ~IsFirm(work'[o][j], now', environment'.stuck)
  <1>1. work \in [Owners -> [Jobs -> WorkRecords]]
    BY TypeParts
  <1>2. \A o \in Owners, j \in Jobs :
          /\ work'[o][j] \in WorkRecords
          /\ work'[o][j].st = work[o][j].st
          /\ work'[o][j].reservedAt = work[o][j].reservedAt
          /\ j \in js /\ work[o][j].st # "none" => work'[o][j].disowned
          /\ work'[o][j].disowned \/ ~work[o][j].disowned
    <2> SUFFICES ASSUME NEW o \in Owners, NEW j \in Jobs
                 PROVE  /\ work'[o][j] \in WorkRecords
                        /\ work'[o][j].st = work[o][j].st
                        /\ work'[o][j].reservedAt = work[o][j].reservedAt
                        /\ j \in js /\ work[o][j].st # "none" => work'[o][j].disowned
                        /\ work'[o][j].disowned \/ ~work[o][j].disowned
      OBVIOUS
    <2>1. work[o][j] \in WorkRecords
      BY <1>1
    <2>2. work'[o][j] = IF j \in js /\ work[o][j].st # "none"
                        THEN [work[o][j] EXCEPT !.disowned = TRUE] ELSE work[o][j]
      BY DEF Disowned
    <2> QED
      BY <2>1, <2>2 DEF WorkRecords
  <1>3. work' \in [Owners -> [Jobs -> WorkRecords]]
    BY <1>2 DEF Disowned
  <1>4. WorkFollows
    BY <1>2 DEF WorkFollows, Follows
  <1>5. ReservedBefore'
    BY <1>2 DEF ReservedBefore
  <1>6. WorkCalms
    BY <1>2, <1>3, <1>4, <1>5 DEF WorkCalms
  <1>7. \A o \in Owners, j \in Jobs :
          j \in js => ~IsFirm(work'[o][j], now', environment'.stuck)
    BY <1>2 DEF IsFirm
  <1> QED
    BY <1>6, <1>7

LEMMA SameWorkCalms ==
    ASSUME CronInv, work' = work, now' = now
    PROVE  WorkCalms
  BY TypeParts DEF CronInv, WorkCalms, WorkFollows, Follows, ReservedBefore

LEMMA StartFacts ==
    ASSUME CronInv, NEW s \in Services, svc[s].phase # "new"
    PROVE  /\ TypeOK /\ CopiesAreGood /\ now \in Nat /\ environment \in Environments
           /\ Boot(s) \in Owners /\ ReservedBefore
           /\ svc[s].phase \in {"plan", "catchup", "arm", "up"} => svc[s].loaded
           /\ svc[s].phase # "catchup" => \A j \in Jobs : work[Boot(s)][j].st = "none"
           /\ work \in [Owners -> [Jobs -> WorkRecords]]
           /\ marker \in [Jobs -> Markers]
           /\ GoodStore(disk) /\ IsStore(disk)
           /\ GoodStore(mem[s]) /\ IsStore(mem[s])
           /\ GoodStore(Loaded(s)) /\ IsStore(Loaded(s))
           /\ edits \in Nat
  BY TypeParts, OwnersApart DEF CronInv, StartShape, NoWorkOf, Loaded, TypeOK

LEMMA StartLoadsStep ==
    ASSUME CronInv, NEW s \in Services, NEW written \in BOOLEAN, StartLoads(s, written)
    PROVE  CronInv'
  <1> DEFINE store == Loaded(s)
             found == {j \in DOMAIN store : store[j].running # None}
  <1>1. /\ svc[s].phase = "load" /\ lock = None /\ lock' = lock
        /\ IF svc[s].stopped
           THEN /\ NoStoreChange
                /\ svc' = [svc EXCEPT ![s].phase = "over"]
                /\ work' = work
           ELSE /\ Persist(s, AfterStart(store, found), written)
                /\ svc' = IF written
                          THEN [StartGoesOn(s, "plan") EXCEPT ![s].skip = found]
                          ELSE StartOver(s)
                /\ work' = Disowned(found)
        /\ UNCHANGED <<now, manual, marker, generation, current, edits, environment>>
    BY DEF StartLoads, Free, AfterStart
  <1>2. /\ TypeOK /\ CopiesAreGood /\ now \in Nat
        /\ Boot(s) \in Owners /\ ReservedBefore
        /\ \A j \in Jobs : work[Boot(s)][j].st = "none"
        /\ marker \in [Jobs -> Markers]
        /\ GoodStore(store) /\ IsStore(store) /\ edits \in Nat
    BY <1>1, StartFacts
  <1>3. found \in SUBSET Jobs
    BY <1>2 DEF IsStore
  <1> HIDE DEF found
  <1>4. CASE svc[s].stopped
    <2>1. /\ NoStoreChange /\ svc' = [svc EXCEPT ![s].phase = "over"] /\ work' = work
      BY <1>1, <1>4
    <2>2. /\ SvcStep(s) /\ svc'[s].phase = "over" /\ svc'[s].tick = svc[s].tick
          /\ svc'[s].loaded = svc[s].loaded
      <3>1. svc \in [Services -> SvcStates]
        BY <1>2, TypeParts
      <3>2. svc[s] \in SvcStates /\ svc'[s] = [svc[s] EXCEPT !.phase = "over"]
        BY <3>1, <2>1
      <3>3. svc'[s] \in SvcStates
        BY <3>2 DEF SvcStates
      <3>4. svc' \in [Services -> SvcStates] /\ \A t \in Services : t # s => svc'[t] = svc[t]
        BY <3>1, <3>3, <2>1
      <3> QED
        BY <1>1, <3>2, <3>4 DEF SvcStep, SvcStates
    <2>3. WorkCalms
      BY <1>1, <2>1, SameWorkCalms
    <2>4. StartShape'
      BY <1>1, <1>2, <2>1, <2>2, <2>3, StartShapeAfter DEF CronInv
    <2>5. Section(s)
      BY <1>1, <1>2, <2>2, <2>3, <2>4, OtherSection
    <2> QED
      BY <2>1, <2>2, <2>5, QuietStep
  <1>5. CASE ~svc[s].stopped
    <2>1. /\ Persist(s, AfterStart(store, found), written)
          /\ svc' = IF written
                    THEN [StartGoesOn(s, "plan") EXCEPT ![s].skip = found]
                    ELSE StartOver(s)
          /\ work' = Disowned(found)
      BY <1>1, <1>5
    <2>2. s = current
      BY <1>1, <1>5, WhoActs DEF CronInv
    <2>3. \E phase \in {"plan", "over"} : StartMoves(s, phase)
      <3>1. CASE written
        <4>1. svc[s].phase # "new" /\ "plan" \in {"plan", "catchup", "arm", "up"}
              /\ {} \in SUBSET Jobs /\ TRUE \in BOOLEAN
          BY <1>1
        <4>2. StartMoves(s, "plan")
          BY <1>2, <1>3, <2>1, <3>1, <4>1, StartGoesOnIs
        <4> QED
          BY <4>2
      <3>2. CASE ~written
        <4>1. StartMoves(s, "over")
          BY <1>1, <1>2, <2>1, <3>2, StartOverIs
        <4> QED
          BY <4>1
      <3> QED
        BY <3>1, <3>2
    <2>4. SvcStep(s) /\ svc'[s].tick = svc[s].tick /\ svc'[s].loaded
      BY <2>3 DEF StartMoves
    <2>5. /\ WorkCalms
          /\ \A o \in Owners, j \in Jobs :
               j \in found => ~IsFirm(work'[o][j], now', environment'.stuck)
      BY <1>1, <1>2, <2>1, DisownedCalms
    <2>6. \A j \in Jobs : work'[Boot(s)][j].st = "none"
      BY <1>2, <2>5 DEF WorkCalms
    <2>7. StartShape'
      BY <1>1, <2>4, <2>5, <2>6, StartShapeAfter DEF CronInv
    <2>8. Section(s)
      BY <1>1, <1>2, <2>4, <2>5, <2>7, OtherSection
    <2>9. GoodStore(AfterStart(store, found))
      BY <1>2, AfterStartIsGood
    <2>10. KeptBy(store)
      BY <1>1, <1>2, <2>2, <2>5, OldMarks DEF WorkCalms
    <2>11. KeptBy(AfterStart(store, found))
      BY <2>5, <2>10 DEF KeptBy, Holds, AfterStart
    <2> QED
      BY <2>1, <2>8, <2>9, <2>11, WriteStep
  <1> QED
    BY <1>4, <1>5

LEMMA StartPlansStep ==
    ASSUME CronInv, NEW s \in Services, NEW written \in BOOLEAN, StartPlans(s, written)
    PROVE  CronInv'
  <1> DEFINE o == Boot(s)
             missed == {j \in DOMAIN mem[s] \ svc[s].skip : IsMissed(j, mem[s][j])}
  <1>1. /\ svc[s].phase = "plan" /\ lock = None /\ lock' = lock
        /\ \/ /\ svc[s].stopped
              /\ NoStoreChange /\ svc' = StartOver(s)
              /\ work' = work
           \/ /\ ~svc[s].stopped /\ NoStoreChange
              /\ svc' = [StartGoesOn(s, "arm") EXCEPT ![s].skip = {}]
              /\ work' = work
           \/ /\ ~svc[s].stopped
              /\ \E chosen \in SUBSET (missed \ environment.agentTurn) :
                   /\ Persist(s, Reserved(mem[s], chosen, o), written)
                   /\ svc' = IF written
                             THEN [StartGoesOn(s, "catchup") EXCEPT
                                     ![s].skip = {}, ![s].deferred = missed \ chosen]
                             ELSE StartOver(s)
                   /\ work' = [work EXCEPT ![o] = [j \in Jobs |->
                        IF j \in chosen /\ written
                        THEN NewRun(j, "reserved", now, 0) ELSE NoWork]]
        /\ UNCHANGED <<now, manual, marker, generation, current, edits, environment>>
    BY DEF StartPlans, Free
  <1>2. /\ TypeOK /\ CopiesAreGood /\ now \in Nat
        /\ o \in Owners /\ ReservedBefore /\ svc[s].loaded
        /\ \A j \in Jobs : work[o][j].st = "none"
        /\ work \in [Owners -> [Jobs -> WorkRecords]]
        /\ marker \in [Jobs -> Markers]
        /\ GoodStore(mem[s]) /\ IsStore(mem[s]) /\ edits \in Nat
        /\ svc[s].phase # "new"
    BY <1>1, StartFacts
  <1>3. \A j \in missed : /\ j \in Jobs /\ j \in DOMAIN mem[s]
                          /\ mem[s][j].running = None /\ mem[s][j].enabled
    BY <1>2 DEF IsMissed, IsRunnable, IsStore
  <1> HIDE DEF missed
  <1>4. "arm" \in {"plan", "catchup", "arm", "up"} /\ {} \in SUBSET Jobs /\ TRUE \in BOOLEAN
        /\ "catchup" \in {"plan", "catchup", "arm", "up"}
    OBVIOUS
  <1>5. ASSUME WorkCalms, NEW phase, phase # "catchup", StartMoves(s, phase)
        PROVE  Section(s)
    <2>1. SvcStep(s) /\ svc'[s].phase = phase /\ svc'[s].tick = svc[s].tick /\ svc'[s].loaded
      BY <1>5 DEF StartMoves
    <2>2. \A j \in Jobs : work'[o][j].st = "none"
      BY <1>2, <1>5 DEF WorkCalms
    <2>3. StartShape'
      BY <1>1, <1>5, <2>1, <2>2, StartShapeAfter DEF CronInv
    <2> QED
      BY <1>1, <1>2, <1>5, <2>1, <2>3, OtherSection
  <1>6. CASE NoStoreChange /\ work' = work
             /\ (svc' = StartOver(s) \/ svc' = [StartGoesOn(s, "arm") EXCEPT ![s].skip = {}])
    <2>1. WorkCalms
      BY <1>1, <1>6, SameWorkCalms
    <2>2. StartMoves(s, "over") \/ StartMoves(s, "arm")
      <3>1. CASE svc' = StartOver(s)
        BY <1>2, <3>1, StartOverIs
      <3>2. CASE svc' = [StartGoesOn(s, "arm") EXCEPT ![s].skip = {}]
        BY <1>2, <1>4, <3>2, StartGoesOnIs
      <3> QED
        BY <1>6, <3>1, <3>2
    <2>3. Section(s)
      BY <1>5, <2>1, <2>2
    <2> QED
      BY <1>2, <1>6, <2>3, QuietStep
  <1>7. ASSUME ~svc[s].stopped, NEW chosen \in SUBSET missed,
               Persist(s, Reserved(mem[s], chosen, o), written),
               svc' = IF written
                      THEN [StartGoesOn(s, "catchup") EXCEPT
                              ![s].skip = {}, ![s].deferred = missed \ chosen]
                      ELSE StartOver(s),
               work' = [work EXCEPT ![o] = [j \in Jobs |->
                 IF j \in chosen /\ written
                 THEN NewRun(j, "reserved", now, 0) ELSE NoWork]]
        PROVE  CronInv'
    <2>1. s = current
      BY <1>2, <1>7, WhoActs DEF CronInv
    <2>2. CASE ~written
      <3>1. StartMoves(s, "over")
        BY <1>2, <1>7, <2>2, StartOverIs
      <3>2. work' = [work EXCEPT ![o] = [j \in Jobs |-> NoWork]]
        BY <1>7, <2>2
      <3>3. WorkEnds(o)
        BY <1>2, <3>2, AllWorkEnds
      <3>4. WorkCalms
        BY <1>1, <1>2, <3>3, WorkEndsFollows
      <3>5. Section(s)
        BY <1>5, <3>1, <3>4
      <3>6. KeptBy(mem[s])
        BY <1>1, <1>2, <2>1, <3>4, OldMarks DEF WorkCalms
      <3>7. KeptBy(Reserved(mem[s], chosen, o))
        BY <1>3, <3>6, KeptReserved
      <3>8. GoodStore(Reserved(mem[s], chosen, o))
        BY <1>2, ReservedIsGood
      <3> QED
        BY <1>7, <3>5, <3>7, <3>8, WriteStep
    <2>3. CASE written
      <3>1. StartMoves(s, "catchup")
        <4>1. svc' = [StartGoesOn(s, "catchup") EXCEPT
                        ![s].skip = {}, ![s].deferred = missed \ chosen]
          BY <1>7, <2>3
        <4>2. missed \ chosen \in SUBSET Jobs
          BY <1>3
        <4> QED
          BY <1>2, <1>4, <4>1, <4>2, StartGoesOnIs
      <3>2. /\ SvcStep(s) /\ svc'[s].phase = "catchup" /\ svc'[s].tick = svc[s].tick
            /\ svc'[s].loaded
        BY <3>1 DEF StartMoves
      <3>3. work' = [work EXCEPT ![o] = [j \in Jobs |->
              IF j \in chosen THEN NewRun(j, "reserved", now, 0) ELSE NoWork]]
        BY <1>7, <2>3
      <3>4. Persist(s, Reserved(mem[s], chosen, o), TRUE) /\ NoWorkOf(o)
        BY <1>2, <1>7, <2>3 DEF NoWorkOf
      <3>5. \A j \in chosen : /\ j \in DOMAIN mem[s] /\ mem[s][j].enabled
                              /\ mem[s][j].running = None
        BY <1>3
      <3>6. /\ work' \in [Owners -> [Jobs -> WorkRecords]]
            /\ \A p \in Owners : p # o => work'[p] = work[p]
            /\ GoodStore(disk') /\ DOMAIN mem' = Services
            /\ \A t \in Services : GoodStore(mem'[t])
            /\ failures' \in Nat /\ stale' \in BOOLEAN
            /\ ReservedBefore' /\ FirmHolds' /\ OneWriter' /\ Synced'
        <4>1. UNCHANGED <<now, marker, current, environment>>
          BY <1>1
        <4> DEFINE store == mem[s]
        <4>2. /\ GoodStore(store) /\ svc[s].loaded /\ store = mem[s] /\ o \in Owners
              /\ \A j \in chosen : /\ j \in DOMAIN store /\ store[j].enabled
                                   /\ store[j].running = None
              /\ Persist(s, Reserved(store, chosen, o), TRUE) /\ NoWorkOf(o)
          BY <1>2, <3>4, <3>5
        <4> HIDE DEF o, store
        <4> QED
          BY <2>1, <3>2, <3>3, <4>1, <4>2, RunsAreReserved
      <3>7. TypeOK' /\ CopiesAreGood'
        BY <1>1, <1>2, <3>2, <3>6, TypeParts, TypeIsMade DEF TypeOK, SvcStep
      <3>8. OneService'
        BY <1>1, <1>2, <3>2, OneServiceKept DEF CronInv
      <3>9. \A t \in Services : /\ work'[Tick(t)] = work[Tick(t)]
                                /\ t # s => work'[Boot(t)] = work[Boot(t)]
        BY <3>6, OwnersApart
      <3>10. \A t \in Services : /\ svc'[t].tick = svc[t].tick
                                 /\ svc[t].loaded => svc'[t].loaded
        BY <3>2 DEF SvcStep
      <3>11. TickShape'
        BY <1>1, <3>9, <3>10, TickShapeKept DEF CronInv
      <3>12. StartShape'
        BY <1>1, <3>2, <3>9, OwnersApart DEF CronInv, StartShape, NoWorkOf, SvcStep
      <3>13. RunShape'
        <4>1. manual' = manual /\ now' \in Nat /\ now' >= now /\ lock' = lock
          BY <1>1, <1>2
        <4> QED
          BY <1>2, <3>2, <4>1, RunShapeKept DEF CronInv
      <3>14. RunMark'
        BY <1>1, <3>13, RunMarkWhenFree
      <3>15. RunWork'
        BY <1>1, <3>6, OwnersApart, RunWorkKept DEF CronInv
      <3> QED
        BY <3>6, <3>7, <3>8, <3>11, <3>12, <3>13, <3>14, <3>15 DEF CronInv
    <2> QED
      BY <2>2, <2>3
  <1> QED
    BY <1>1, <1>6, <1>7

LEMMA StartExecutesStep ==
    ASSUME CronInv, NEW s \in Services, NEW j \in Jobs, StartExecutes(s, j)
    PROVE  CronInv'
  <1> DEFINE o == Boot(s)
  <1>1. /\ svc[s].phase = "catchup" /\ ~svc[s].stopped
        /\ work[o][j].st = "reserved" /\ Execute(o, j)
        /\ UNCHANGED <<now, disk, mem, svc, manual, generation, lock, current,
                       edits, failures, stale, environment>>
    BY DEF StartExecutes, JobsIn
  <1>2. /\ TypeOK /\ CopiesAreGood /\ now \in Nat /\ o \in Owners /\ o[2] = s
    BY <1>1, StartFacts, OwnersApart
  <1>3. /\ work' \in [Owners -> [Jobs -> WorkRecords]] /\ marker' \in [Jobs -> Markers]
        /\ WorkFollows
        /\ \A p \in Owners, i \in Jobs :
             /\ work'[p][i].st = IF p = o /\ i = j THEN "executing" ELSE work[p][i].st
             /\ work'[p][i].reservedAt = work[p][i].reservedAt
             /\ Capable(p, i)' => Capable(p, i)
    BY <1>1, <1>2, ExecuteIs
  <1>4. TypeOK' /\ CopiesAreGood'
    BY <1>1, <1>2, <1>3, TypeParts, TypeIsMade DEF TypeOK
  <1>5. OneService' /\ RunShape' /\ RunMark' /\ Synced'
    BY <1>1 DEF CronInv, OneService, Dormant, RunShape, RunMark, Synced
  <1>6. TickShape'
    <2>1. \A t \in Services, i \in Jobs : work'[Tick(t)][i].st = work[Tick(t)][i].st
      BY <1>3, OwnersApart
    <2> QED
      BY <1>1, <2>1 DEF CronInv, TickShape, NoWorkOf
  <1>7. StartShape'
    BY <1>1, <1>3, OwnersApart DEF CronInv, StartShape, NoWorkOf
  <1>8. RunWork'
    BY SMTT(40), <1>1, <1>3, OwnersApart DEF CronInv, RunWork
  <1>9. ReservedBefore'
    BY <1>1, <1>3 DEF CronInv, ReservedBefore
  <1>10. FirmHolds'
    BY <1>1, <1>2, <1>3, OldMarks DEF KeptBy, FirmHolds
  <1>11. OneWriter'
    BY <1>1, <1>2, <1>3, OneWriterKept
  <1> QED
    BY <1>4, <1>5, <1>6, <1>7, <1>8, <1>9, <1>10, <1>11 DEF CronInv

\* A start puts off jobs: their next time changes and nothing else.
PutOff(store, later) ==
    [j \in DOMAIN store |->
       IF j \in later /\ store[j].enabled
       THEN [store[j] EXCEPT !.next = now + 1] ELSE store[j]]

LEMMA PutOffIsStore ==
    ASSUME NEW store, IsStore(store), NEW later, now \in Nat
    PROVE  /\ IsStore(PutOff(store, later))
           /\ SameDefinitions(store, PutOff(store, later))
           /\ KeptBy(store) => KeptBy(PutOff(store, later))
  <1>1. \A j \in DOMAIN store :
          /\ PutOff(store, later)[j] \in Row
          /\ PutOff(store, later)[j].enabled = store[j].enabled
          /\ PutOff(store, later)[j].at = store[j].at
          /\ PutOff(store, later)[j].running = store[j].running
          /\ PutOff(store, later)[j].runningAt = store[j].runningAt
    BY DEF PutOff, IsStore, Row
  <1>2. DOMAIN PutOff(store, later) = DOMAIN store
    BY DEF PutOff
  <1>3. IsStore(PutOff(store, later))
    BY <1>1 DEF IsStore, PutOff
  <1> QED
    BY <1>1, <1>2, <1>3 DEF SameDefinitions, KeptBy, Holds

LEMMA StartAppliesStep ==
    ASSUME CronInv, NEW s \in Services, NEW written \in BOOLEAN, StartApplies(s, written)
    PROVE  CronInv'
  <1> DEFINE o == Boot(s)
             stopped == svc[s].stopped
             ended == JobsIn(o, "ended")
             left == JobsIn(o, "reserved")
             store == IF stopped THEN disk ELSE mem[s]
             released == Released(store, left, o)
             finalized == {j \in ended : ~stopped /\ IsCurrent(o, j)}
             later == IF stopped THEN {} ELSE svc[s].deferred
             applied == Applied(released, finalized \cap DOMAIN store, o)
             put == PutOff(applied, later)
             result == MaintainedStore(put, FALSE)
             quiet == finalized = {} /\ later = {} /\ released = store
  <1>1. /\ svc[s].phase = "catchup" /\ lock = None /\ lock' = lock
        /\ IF quiet
           THEN IF stopped THEN Reload(s) ELSE NoStoreChange
           ELSE Persist(s, result, written)
        /\ svc' = IF stopped \/ ~written THEN StartOver(s)
                  ELSE [StartGoesOn(s, "arm") EXCEPT ![s].deferred = {}]
        /\ work' = [work EXCEPT ![o] = [j \in Jobs |-> NoWork]]
        /\ marker' = Cleared(ended, o)
        /\ UNCHANGED <<now, manual, generation, current, edits, environment>>
    BY DEF StartApplies, Free, PutOff
  <1>2. /\ TypeOK /\ CopiesAreGood /\ now \in Nat /\ environment \in Environments
        /\ o \in Owners /\ ReservedBefore /\ svc[s].loaded /\ svc[s].phase # "new"
        /\ work \in [Owners -> [Jobs -> WorkRecords]]
        /\ GoodStore(store) /\ IsStore(store) /\ edits \in Nat
    BY <1>1, StartFacts
  <1>3. \A j \in finalized : j \in Jobs /\ Capable(o, j)
    BY DEF JobsIn, IsCurrent, Capable
  <1> HIDE DEF finalized, later, result, quiet
  <1>4. StartMoves(s, "over") \/ StartMoves(s, "arm")
    <2>1. CASE stopped \/ ~written
      BY <1>1, <1>2, <2>1, StartOverIs
    <2>2. CASE ~(stopped \/ ~written)
      <3>1. /\ "arm" \in {"plan", "catchup", "arm", "up"} /\ {} \in SUBSET Jobs
            /\ TRUE \in BOOLEAN
        OBVIOUS
      <3> QED
        BY <1>1, <1>2, <2>2, <3>1, StartGoesOnIs
    <2> QED
      BY <2>1, <2>2
  <1>5. /\ SvcStep(s) /\ svc'[s].tick = svc[s].tick /\ svc'[s].loaded
    BY <1>4 DEF StartMoves
  <1>6. WorkEnds(o) /\ \A j \in Jobs : work'[o][j].st = "none"
    BY <1>1, <1>2, AllWorkEnds
  <1>7. WorkCalms /\ WorkFollows /\ work' \in [Owners -> [Jobs -> WorkRecords]]
    BY <1>1, <1>2, <1>6, WorkEndsFollows DEF WorkEnds
  <1>8. StartShape'
    BY <1>1, <1>5, <1>6, <1>7, StartShapeAfter DEF CronInv
  <1>9. Section(s)
    BY <1>1, <1>2, <1>5, <1>7, <1>8, ClearedMarkers, OtherSection
  <1>10. CASE quiet
    BY <1>1, <1>2, <1>9, <1>10, ReloadStep, QuietStep
  <1>11. CASE ~quiet
    <2>1. Persist(s, result, written)
      BY <1>1, <1>11
    <2>2. KeptBy(store)
      <3>1. KeptBy(disk) /\ (svc[current].loaded => KeptBy(mem[current]))
        BY <1>1, <1>2, <1>7, OldMarks
      <3>2. ~stopped => s = current
        BY <1>2, WhoActs DEF CronInv
      <3> QED
        BY <1>2, <3>1, <3>2
    <2> HIDE DEF store
    <2>3. KeptBy(released) /\ IsStore(released)
      <3>1. \A j \in left : work'[o][j].st = "none"
        BY <1>6 DEF JobsIn
      <3> QED
        BY <1>2, <2>2, <3>1, KeptReleased, ReleasedIsGood DEF GoodStore
    <2> HIDE DEF released
    <2>4. \A q \in Owners, j \in finalized \cap DOMAIN store :
            ~IsFirm(work'[q][j], now', environment'.stuck)
      BY <1>1, <1>2, <1>3, <1>6, <1>7, NobodyElse
    <2>5. KeptBy(applied) /\ IsStore(applied)
      BY <1>2, <2>3, <2>4, KeptApplied, AppliedIsStore
    <2> HIDE DEF applied
    <2>6. KeptBy(put) /\ IsStore(put)
      BY <1>2, <2>5, PutOffIsStore
    <2> HIDE DEF put
    <2>7. KeptBy(result) /\ GoodStore(result)
      BY <1>1, <1>2, <1>7, <2>6, KeptMaintained, MaintainedIsGood DEF result
    <2> QED
      BY <1>9, <2>1, <2>7, WriteStep
  <1> QED
    BY <1>10, <1>11

LEMMA StartArmsStep ==
    ASSUME CronInv, NEW s \in Services, NEW written \in BOOLEAN, StartArms(s, written)
    PROVE  CronInv'
  <1> DEFINE o == Boot(s)
             store == MaintainedStore(mem[s], TRUE)
  <1>1. /\ svc[s].phase = "arm" /\ lock = None /\ lock' = lock
        /\ IF svc[s].stopped
           THEN NoStoreChange /\ svc' = StartOver(s)
           ELSE /\ NoStoreChange \/ Persist(s, store, written)
                /\ svc' = IF written
                          THEN [StartGoesOn(s, "up") EXCEPT ![s].timer = Armed(s, store)]
                          ELSE StartOver(s)
        /\ UNCHANGED <<now, manual, work, marker, generation, current, edits, environment>>
    BY DEF StartArms, Free
  <1>2. /\ TypeOK /\ CopiesAreGood /\ now \in Nat /\ environment \in Environments
        /\ svc[s].loaded /\ svc[s].phase # "new"
        /\ \A j \in Jobs : work[o][j].st = "none"
        /\ work \in [Owners -> [Jobs -> WorkRecords]] /\ marker \in [Jobs -> Markers]
        /\ IsStore(mem[s]) /\ edits \in Nat
    BY <1>1, StartFacts
  <1> HIDE DEF store
  <1>3. StartMoves(s, "over") \/ StartMoves(s, "up")
    <2>1. CASE svc' = StartOver(s)
      BY <1>2, <2>1, StartOverIs
    <2>2. CASE svc' = [StartGoesOn(s, "up") EXCEPT ![s].timer = Armed(s, store)]
      <3>1. /\ "up" \in {"plan", "catchup", "arm", "up"} /\ {} \in SUBSET Jobs
            /\ Armed(s, store) \in BOOLEAN
        BY DEF Armed
      <3> QED
        BY <1>2, <2>2, <3>1, StartGoesOnIs
    <2> QED
      BY <1>1, <2>1, <2>2
  <1>4. /\ SvcStep(s) /\ svc'[s].tick = svc[s].tick /\ svc'[s].loaded
    BY <1>3 DEF StartMoves
  <1>5. WorkCalms
    BY <1>1, SameWorkCalms
  <1>6. StartShape'
    BY <1>1, <1>2, <1>4, <1>5, StartShapeAfter DEF CronInv
  <1>7. Section(s)
    BY <1>1, <1>2, <1>4, <1>5, <1>6, OtherSection
  <1>8. CASE NoStoreChange
    BY <1>1, <1>2, <1>7, <1>8, QuietStep
  <1>9. CASE ~svc[s].stopped /\ ~NoStoreChange
    <2>1. Persist(s, store, written)
      BY <1>1, <1>9
    <2>2. s = current
      BY <1>2, <1>9, WhoActs DEF CronInv
    <2>3. KeptBy(mem[s])
      BY <1>1, <1>2, <1>5, <2>2, OldMarks DEF WorkCalms
    <2>4. KeptBy(store) /\ GoodStore(store)
      BY <1>1, <1>2, <1>5, <2>3, KeptMaintained, MaintainedIsGood DEF store, WorkCalms
    <2> QED
      BY <1>7, <2>1, <2>4, WriteStep
  <1> QED
    BY <1>1, <1>8, <1>9

-----------------------------------------------------------------------------
(* The steps: manual runs.                                                 *)

LEMMA RunOverIs ==
    ASSUME TypeOK, CopiesAreGood, NEW m \in Manuals, manual' = RunOver(m)
    PROVE  /\ manual' \in [Manuals -> ManualRuns]
           /\ \A n \in Manuals : n # m => manual'[n] = manual[n]
           /\ manual'[m].phase = "done" /\ manual'[m].at = 0
  <1> DEFINE r == [NoRun EXCEPT !.phase = "done"]
  <1>1. (CHOOSE j \in Jobs : TRUE) \in Jobs
    BY CronAssumption
  <1>2. r \in ManualRuns /\ r.phase = "done" /\ r.at = 0
    BY <1>1 DEF NoRun, ManualRuns
  <1>3. manual \in [Manuals -> ManualRuns]
    BY TypeParts
  <1>4. manual' = [manual EXCEPT ![m] = r]
    BY DEF RunOver
  <1> HIDE DEF r
  <1> QED
    BY <1>2, <1>3, <1>4

\* The manual run m moves on, the others stay as they are.
RunMoves(m) ==
    /\ manual' \in [Manuals -> ManualRuns]
    /\ \A n \in Manuals : n # m => manual'[n] = manual[n]

LEMMA RunShapeMoves ==
    ASSUME CronInv, NEW m \in Manuals, RunMoves(m), now' = now,
           \A t \in Services : /\ svc[t].phase # "new" => svc'[t].phase # "new"
                               /\ svc[t].loaded => svc'[t].loaded,
           \A n \in Manuals : n # m => (lock' = Manual(n) <=> lock = Manual(n)),
           lock' = Manual(m) <=> manual'[m].phase = "reserving",
           manual'[m].phase \in {"asked", "prepare", "reserving", "running"} =>
             manual'[m].service \in Services /\ svc'[manual'[m].service].phase # "new",
           manual'[m].phase \in {"prepare", "reserving", "running"} =>
             svc'[manual'[m].service].loaded,
           manual'[m].at <= now
    PROVE  RunShape'
  <1> SUFFICES ASSUME NEW n \in Manuals
               PROVE  /\ lock' = Manual(n) <=> manual'[n].phase = "reserving"
                      /\ manual'[n].phase \in {"asked", "prepare", "reserving", "running"} =>
                           /\ manual'[n].service \in Services
                           /\ svc'[manual'[n].service].phase # "new"
                      /\ manual'[n].phase \in {"prepare", "reserving", "running"} =>
                           svc'[manual'[n].service].loaded
                      /\ manual'[n].at <= now
    BY DEF RunShape
  <1>1. CASE n = m
    BY <1>1
  <1>2. CASE n # m
    <2>1. manual'[n] = manual[n] /\ (lock' = Manual(n) <=> lock = Manual(n))
      BY <1>2 DEF RunMoves
    <2> QED
      BY <2>1 DEF CronInv, RunShape
  <1> QED
    BY <1>1, <1>2

LEMMA RunWorkMoves ==
    ASSUME CronInv, NEW m \in Manuals, RunMoves(m),
           \A n \in Manuals, j \in Jobs :
             n # m => work'[Manual(n)][j].st \in {work[Manual(n)][j].st, "none"},
           \A j \in Jobs : work'[Manual(m)][j].st = "none"
    PROVE  RunWork'
  <1> SUFFICES ASSUME NEW n \in Manuals, NEW j \in Jobs, work'[Manual(n)][j].st # "none"
               PROVE  /\ work'[Manual(n)][j].st # "reserved"
                      /\ manual'[n].phase = "running" /\ manual'[n].job = j
    BY DEF RunWork
  <1>1. n # m
    OBVIOUS
  <1>2. manual'[n] = manual[n] /\ work'[Manual(n)][j].st = work[Manual(n)][j].st
    BY <1>1 DEF RunMoves
  <1> QED
    BY <1>2 DEF CronInv, RunWork

LEMMA RunFacts ==
    ASSUME CronInv, NEW m \in Manuals
    PROVE  /\ TypeOK /\ CopiesAreGood /\ now \in Nat /\ environment \in Environments
           /\ Manual(m) \in Owners /\ ReservedBefore
           /\ manual \in [Manuals -> ManualRuns]
           /\ manual[m].job \in Jobs /\ manual[m].at \in Nat /\ manual[m].at <= now
           /\ manual[m].phase \in {"asked", "prepare", "reserving", "running"} =>
                manual[m].service \in Services /\ svc[manual[m].service].phase # "new"
           /\ manual[m].phase \in {"prepare", "reserving", "running"} =>
                svc[manual[m].service].loaded
           /\ manual[m].phase # "running" => \A j \in Jobs : work[Manual(m)][j].st = "none"
           /\ lock = Manual(m) <=> manual[m].phase = "reserving"
           /\ work \in [Owners -> [Jobs -> WorkRecords]]
           /\ marker \in [Jobs -> Markers]
           /\ svc \in [Services -> SvcStates]
           /\ GoodStore(disk) /\ IsStore(disk) /\ edits \in Nat /\ current \in Services
  BY TypeParts, OwnersApart DEF CronInv, RunShape, RunWork, ManualRuns, TypeOK

LEMMA AskRunStep ==
    ASSUME CronInv, NEW m \in Manuals, NEW j \in Jobs, NEW forced \in BOOLEAN,
           AskRun(m, j, forced)
    PROVE  CronInv'
  <1>1. /\ manual[m].phase = "idle"
        /\ manual' = [manual EXCEPT ![m] = [@ EXCEPT !.phase = "asked", !.job = j,
                                !.service = current, !.forced = forced]]
        /\ UNCHANGED <<now, disk, mem, svc, work, marker, generation, lock, current,
                       edits, failures, stale, environment>>
    BY DEF AskRun
  <1>2. /\ TypeOK /\ CopiesAreGood /\ now \in Nat /\ manual \in [Manuals -> ManualRuns]
        /\ current \in Services /\ svc[current].phase # "new"
        /\ manual[m].at <= now /\ lock # Manual(m)
        /\ \A i \in Jobs : work[Manual(m)][i].st = "none"
    BY <1>1, RunFacts DEF CronInv, OneService
  <1> DEFINE r == [manual[m] EXCEPT !.phase = "asked", !.job = j,
                                !.service = current, !.forced = forced]
  <1>3. /\ r \in ManualRuns /\ r.phase = "asked" /\ r.service = current
        /\ r.at = manual[m].at
    <2>1. manual[m] \in ManualRuns
      BY <1>2
    <2> QED
      BY <1>2, <2>1 DEF ManualRuns
  <1>4. manual' = [manual EXCEPT ![m] = r]
    BY <1>1
  <1> HIDE DEF r
  <1>5. RunMoves(m) /\ manual'[m] = r
    BY <1>2, <1>3, <1>4 DEF RunMoves
  <1>6. TypeOK' /\ CopiesAreGood'
    BY <1>1, <1>2, <1>5, TypeParts, TypeIsMade DEF TypeOK, RunMoves
  <1>7. OneService' /\ TickShape' /\ StartShape' /\ ReservedBefore' /\ FirmHolds' /\ Synced'
    BY <1>1 DEF CronInv, OneService, Dormant, TickShape, StartShape, NoWorkOf,
         ReservedBefore, FirmHolds, Synced
  <1>8. OneWriter'
    BY <1>1 DEF CronInv, OneWriter, Capable
  <1>9. RunShape'
    BY <1>1, <1>2, <1>3, <1>5, RunShapeMoves
  <1>10. RunWork'
    BY <1>1, <1>2, <1>5, RunWorkMoves
  <1>11. RunMark'
    <2>1. \A n \in Manuals : manual'[n].phase = "reserving" =>
            manual'[n] = manual[n] /\ manual[n].phase = "reserving"
      BY <1>3, <1>5 DEF RunMoves
    <2> QED
      BY <1>1, <2>1 DEF CronInv, RunMark
  <1> QED
    BY <1>6, <1>7, <1>8, <1>9, <1>10, <1>11 DEF CronInv

\* A section on behalf of a manual run, in which the run begins no execution
LEMMA RunSection ==
    ASSUME CronInv, NEW m \in Manuals, RunMoves(m), NEW s \in Services, SvcStep(s),
           svc[s].loaded => svc'[s].loaded, svc'[s].tick = svc[s].tick,
           svc'[s].phase = svc[s].phase,
           WorkCalms, lock \in {None, Manual(m)}, lock' = None,
           marker' \in [Jobs -> Markers],
           \A j \in Jobs : marker'[j].by \in {marker[j].by, None},
           UNCHANGED <<now, generation, current, edits, environment>>,
           manual'[m].phase # "reserving",
           manual'[m].phase \in {"asked", "prepare", "running"} =>
             /\ manual'[m].service \in Services
             /\ svc'[manual'[m].service].phase # "new" /\ svc'[manual'[m].service].loaded,
           manual'[m].at <= now,
           \A j \in Jobs : work'[Manual(m)][j].st = "none"
    PROVE  Section(s)
  <1>1. TypeOK /\ CopiesAreGood /\ edits \in Nat
    BY RunFacts
  <1>2. \A t \in Services : /\ lock # Tick(t) /\ lock' # Tick(t) /\ lock' # Boot(t)
                            /\ svc'[t].tick = svc[t].tick
                            /\ svc[t].loaded => svc'[t].loaded
                            /\ svc'[t].phase = svc[t].phase
    BY OwnersApart DEF SvcStep
  <1>3. \A t \in Services, j \in Jobs :
          /\ work'[Tick(t)][j].st \in {work[Tick(t)][j].st, "none"}
          /\ work'[Boot(t)][j].st \in {work[Boot(t)][j].st, "none"}
    BY OwnersApart DEF WorkCalms
  <1>4. TickShape'
    BY <1>2, <1>3 DEF CronInv, TickShape, NoWorkOf
  <1>5. StartShape'
    BY <1>2, <1>3 DEF CronInv, StartShape, NoWorkOf
  <1>6. RunShape'
    <2>1. \A n \in Manuals : n # m => (lock' = Manual(n) <=> lock = Manual(n))
      BY OwnersApart
    <2>2. lock' # Manual(m)
      BY OwnersApart
    <2> QED
      BY <1>2, <2>1, <2>2, RunShapeMoves
  <1>7. RunWork'
    BY OwnersApart, RunWorkMoves DEF WorkCalms
  <1> QED
    BY <1>1, <1>4, <1>5, <1>6, <1>7 DEF Section, RunMoves

LEMMA SameDefinitionsChains ==
    ASSUME NEW a, NEW b, NEW c, SameDefinitions(a, b), SameDefinitions(b, c)
    PROVE  SameDefinitions(a, c)
  BY DEF SameDefinitions

LEMMA PreflightStep ==
    ASSUME CronInv, NEW m \in Manuals, Preflight(m)
    PROVE  CronInv'
  <1> DEFINE s == manual[m].service
             store == IF svc[s].stopped THEN Loaded(s) ELSE MaintainedStore(Loaded(s), FALSE)
  <1>1. /\ manual[m].phase = "asked" /\ lock = None /\ lock' = lock
        /\ mem' = [mem EXCEPT ![s] = store]
        /\ svc' = [svc EXCEPT ![s].loaded = TRUE]
        /\ \/ manual' = [manual EXCEPT ![m].phase = "prepare", ![m].at = now]
           \/ manual' = RunOver(m)
        /\ UNCHANGED <<now, disk, work, marker, generation, current, edits,
                       failures, stale, environment>>
    BY DEF Preflight, Free
  <1>2. /\ TypeOK /\ CopiesAreGood /\ now \in Nat /\ environment \in Environments
        /\ manual \in [Manuals -> ManualRuns] /\ marker \in [Jobs -> Markers]
        /\ s \in Services /\ svc[s].phase # "new"
        /\ \A j \in Jobs : work[Manual(m)][j].st = "none"
        /\ svc \in [Services -> SvcStates] /\ GoodStore(disk)
        /\ current \in Services
    BY <1>1, RunFacts
  <1>3. GoodStore(Loaded(s)) /\ IsStore(Loaded(s))
    BY <1>2, StartFacts
  <1>4. GoodStore(store) /\ SameDefinitions(Loaded(s), store)
    BY <1>2, <1>3, MaintainedIsGood DEF SameDefinitions
  <1>5. WorkCalms
    BY <1>1, SameWorkCalms
  <1>6. s = current => KeptBy(store)
    <2>1. s = current => KeptBy(Loaded(s))
      BY <1>1, <1>2, <1>5, OldMarks DEF WorkCalms
    <2> QED
      BY <1>1, <1>2, <1>3, <1>5, <2>1, KeptMaintained DEF WorkCalms
  <1> HIDE DEF store, s
  <1>7. /\ SvcStep(s) /\ svc'[s].tick = svc[s].tick /\ svc'[s].phase = svc[s].phase
        /\ svc'[s].loaded
    <2>1. svc[s] \in SvcStates /\ svc'[s] = [svc[s] EXCEPT !.loaded = TRUE]
      BY <1>1, <1>2
    <2>2. svc'[s] \in SvcStates
      BY <2>1 DEF SvcStates
    <2>3. svc' \in [Services -> SvcStates] /\ \A t \in Services : t # s => svc'[t] = svc[t]
      BY <1>1, <1>2, <2>2
    <2> QED
      BY <1>2, <2>1, <2>3 DEF SvcStep, SvcStates
  <1>8. /\ RunMoves(m)
        /\ \/ manual'[m].phase = "prepare" /\ manual'[m].service = s /\ manual'[m].at = now
           \/ manual'[m].phase = "done" /\ manual'[m].at = 0
    <2>1. CASE manual' = RunOver(m)
      BY <1>2, <2>1, RunOverIs DEF RunMoves
    <2>2. CASE manual' = [manual EXCEPT ![m].phase = "prepare", ![m].at = now]
      <3>1. manual[m] \in ManualRuns
        BY <1>2
      <3>2. manual'[m] = [manual[m] EXCEPT !.phase = "prepare", !.at = now]
        BY <1>2, <2>2
      <3>3. /\ manual'[m] \in ManualRuns /\ manual'[m].phase = "prepare"
            /\ manual'[m].service = s /\ manual'[m].at = now
        BY <1>2, <3>1, <3>2 DEF ManualRuns, s
      <3> QED
        BY <1>2, <2>2, <3>3 DEF RunMoves
    <2> QED
      BY <1>1, <2>1, <2>2
  <1>9. manual'[m].at <= now
    BY <1>2, <1>8
  <1>10. Section(s)
    BY <1>1, <1>2, <1>5, <1>7, <1>8, <1>9, RunSection DEF SvcStep
  <1>11. /\ DOMAIN mem' = Services /\ mem'[s] = store
         /\ \A t \in Services : t # s => mem'[t] = mem[t]
         /\ \A t \in Services : GoodStore(mem'[t])
    BY <1>1, <1>2, <1>4, TypeParts
  <1>12. FirmHolds'
    <2>1. KeptBy(disk) /\ (svc[current].loaded => KeptBy(mem[current]))
      BY <1>1, <1>2, <1>5, OldMarks DEF WorkCalms
    <2>2. svc'[current].loaded => KeptBy(mem'[current])
      BY <1>2, <1>6, <1>7, <1>11, <2>1 DEF SvcStep
    <2> QED
      BY <1>1, <2>1, <2>2 DEF KeptBy, FirmHolds
  <1>13. Synced'
    <2> SUFFICES ASSUME svc'[current].loaded, ~stale
                 PROVE  SameDefinitions(disk, mem'[current])
      BY <1>1 DEF Synced
    <2>1. CASE s = current
      <3>1. SameDefinitions(disk, Loaded(s))
        BY <2>1 DEF Loaded, CronInv, Synced, SameDefinitions
      <3> QED
        BY <1>4, <1>11, <2>1, <3>1, SameDefinitionsChains
    <2>2. CASE s # current
      BY <1>2, <1>7, <1>11, <2>2 DEF SvcStep, CronInv, Synced
    <2> QED
      BY <2>1, <2>2
  <1>14. failures' \in Nat /\ stale' \in BOOLEAN
    BY <1>1, <1>2 DEF TypeOK
  <1> QED
    BY <1>1, <1>2, <1>10, <1>11, <1>12, <1>13, <1>14, SectionStep

LEMMA PrepareRunStep ==
    ASSUME CronInv, NEW m \in Manuals, NEW written \in BOOLEAN, PrepareRun(m, written)
    PROVE  CronInv'
  <1> DEFINE s == manual[m].service
             j == manual[m].job
             o == Manual(m)
             store == [mem[s] EXCEPT ![j].running = o, ![j].runningAt = manual[m].at]
  <1>1. /\ manual[m].phase = "prepare" /\ lock = None
        /\ IF MayReserve(s, j)
           THEN /\ Persist(s, store, written)
                /\ lock' = IF written THEN o ELSE None
                /\ manual' = IF written THEN [manual EXCEPT ![m].phase = "reserving"]
                             ELSE RunOver(m)
           ELSE /\ NoStoreChange /\ lock' = lock
                /\ manual' = RunOver(m)
        /\ UNCHANGED <<now, svc, work, marker, generation, current, edits, environment>>
    BY DEF PrepareRun, Free
  <1>2. /\ TypeOK /\ CopiesAreGood /\ now \in Nat /\ environment \in Environments
        /\ manual \in [Manuals -> ManualRuns] /\ marker \in [Jobs -> Markers]
        /\ s \in Services /\ svc[s].phase # "new" /\ svc[s].loaded
        /\ \A i \in Jobs : work[o][i].st = "none"
        /\ svc \in [Services -> SvcStates] /\ GoodStore(disk)
        /\ current \in Services /\ o \in Owners /\ j \in Jobs
        /\ manual[m].at \in Nat /\ manual[m].at <= now
    BY <1>1, RunFacts
  <1>3. GoodStore(mem[s])
    BY <1>2, TypeParts
  <1>4. WorkCalms
    BY <1>1, SameWorkCalms
  <1>5. /\ SvcStep(s) /\ svc'[s].tick = svc[s].tick /\ svc'[s].phase = svc[s].phase
        /\ svc'[s].loaded
    BY <1>1, <1>2 DEF SvcStep
  <1> HIDE DEF s, j, store
  <1>6. ASSUME manual' = RunOver(m), lock' = None PROVE Section(s)
    <2>1. RunMoves(m) /\ manual'[m].phase = "done" /\ manual'[m].at = 0
      BY <1>2, <1>6, RunOverIs DEF RunMoves
    <2>2. manual'[m].at <= now
      BY <1>2, <2>1
    <2> QED
      BY <1>1, <1>2, <1>4, <1>5, <1>6, <2>1, <2>2, RunSection DEF SvcStep
  <1>7. CASE ~MayReserve(s, j)
    <2>1. NoStoreChange /\ lock' = None /\ manual' = RunOver(m)
      BY <1>1, <1>7
    <2> QED
      BY <1>2, <1>6, <2>1, QuietStep
  <1>8. CASE MayReserve(s, j)
    <2>1. ~svc[s].stopped /\ j \in DOMAIN mem[s] /\ mem[s][j].running = None
      BY <1>8 DEF MayReserve
    <2>2. s = current
      BY <1>2, <2>1, WhoActs DEF CronInv
    <2> DEFINE row == [mem[s][j] EXCEPT !.running = o, !.runningAt = manual[m].at]
    <2>3. store = [mem[s] EXCEPT ![j] = row]
      BY <2>1 DEF store
    <2>4. /\ row \in Row /\ row.enabled = mem[s][j].enabled /\ row.next = mem[s][j].next
          /\ row.running = o /\ row.runningAt = manual[m].at
      <3>1. mem[s][j] \in Row
        BY <1>3, <2>1 DEF GoodStore, IsStore
      <3> QED
        BY <1>2, <3>1 DEF Row
    <2> HIDE DEF row
    <2>5. GoodStore(store)
      BY <1>3, <2>1, <2>3, <2>4 DEF GoodStore, IsStore
    <2>6. KeptBy(store)
      <3> SUFFICES ASSUME NEW p \in Owners, NEW i \in Jobs,
                          IsFirm(work'[p][i], now', environment'.stuck)
                   PROVE  Holds(store, i, p, work'[p][i].reservedAt)
        BY DEF KeptBy
      <3>1. i # j
        BY <1>1, <1>2, <2>1, <2>2, NobodyHolds
      <3>2. Holds(mem[s], i, p, work'[p][i].reservedAt)
        BY <1>1, <1>2, <2>2 DEF CronInv, FirmHolds
      <3> QED
        BY <2>1, <2>3, <3>1, <3>2 DEF Holds
    <2>7. Persist(s, store, written)
      BY <1>1, <1>8
    <2>8. CASE ~written
      <3>1. Section(s)
        BY <1>1, <1>6, <1>8, <2>8
      <3> QED
        BY <1>2, <2>5, <2>6, <2>7, <3>1, WriteStep
    <2>9. CASE written
      <3>1. lock' = o /\ manual' = [manual EXCEPT ![m].phase = "reserving"]
        BY <1>1, <1>8, <2>9
      <3>2. /\ GoodStore(disk') /\ DOMAIN mem' = Services
            /\ \A t \in Services : GoodStore(mem'[t])
            /\ mem'[s] = store /\ disk' = store
            /\ failures' \in Nat /\ stale' \in BOOLEAN
        BY <1>2, <2>5, <2>7, <2>9, PersistIsGood DEF Persist
      <3>3. /\ RunMoves(m) /\ manual'[m].phase = "reserving" /\ manual'[m].job = j
            /\ manual'[m].service = s /\ manual'[m].at = manual[m].at
        <4>1. manual[m] \in ManualRuns
          BY <1>2
        <4>2. manual'[m] = [manual[m] EXCEPT !.phase = "reserving"]
          BY <1>2, <3>1
        <4>3. manual'[m] \in ManualRuns
          BY <4>1, <4>2 DEF ManualRuns
        <4> QED
          BY <1>2, <3>1, <4>1, <4>2, <4>3 DEF RunMoves, ManualRuns, s, j
      <3>4. TypeOK' /\ CopiesAreGood'
        BY <1>1, <1>2, <3>1, <3>2, <3>3, TypeParts, TypeIsMade DEF TypeOK, RunMoves
      <3>5. OneService' /\ ReservedBefore'
        BY <1>1 DEF CronInv, OneService, Dormant, ReservedBefore
      <3>6. TickShape' /\ StartShape'
        <4>1. \A t \in Services : /\ lock # Tick(t) /\ lock' # Tick(t) /\ lock' # Boot(t)
          BY <1>1, <3>1, OwnersApart
        <4> QED
          BY <1>1, <4>1 DEF CronInv, TickShape, StartShape, NoWorkOf
      <3>7. RunShape'
        <4>1. \A n \in Manuals : n # m => (lock' = Manual(n) <=> lock = Manual(n))
          BY <1>1, <3>1, OwnersApart
        <4> QED
          BY <1>1, <1>2, <3>1, <3>3, <4>1, RunShapeMoves
      <3>8. RunWork'
        BY <1>1, <1>2, <3>3, RunWorkMoves
      <3>9. RunMark'
        <4>1. \A n \in Manuals : manual'[n].phase = "reserving" => n = m
          BY <3>1, <3>7, OwnersApart DEF RunShape
        <4>2. j \in DOMAIN store /\ store[j] = row
          BY <2>1, <2>3
        <4> QED
          BY <2>4, <3>2, <3>3, <4>1, <4>2 DEF RunMark
      <3>10. FirmHolds'
        BY <1>1, <2>2, <2>6, <3>2 DEF KeptBy, FirmHolds
      <3>11. OneWriter'
        BY <1>1 DEF CronInv, OneWriter, Capable
      <3>12. Synced'
        BY <1>1, <1>2, <2>2, <2>7, PersistSyncs DEF CronInv
      <3> QED
        BY <3>4, <3>5, <3>6, <3>7, <3>8, <3>9, <3>10, <3>11, <3>12 DEF CronInv
    <2> QED
      BY <2>8, <2>9
  <1> QED
    BY <1>7, <1>8

LEMMA RunReservedStep ==
    ASSUME CronInv, NEW m \in Manuals, NEW written \in BOOLEAN, RunReserved(m, written)
    PROVE  CronInv'
  <1> DEFINE s == manual[m].service
             j == manual[m].job
             o == Manual(m)
             at == manual[m].at
             released == Released(disk, {j}, o)
             record == [NewRun(j, "executing", at, at) EXCEPT
                          !.disowned = @ \/ ~disk[j].enabled]
  <1>1. /\ lock = o /\ lock' = None
        /\ IF svc[s].stopped
           THEN /\ Persist(s, released, written)
                /\ manual' = RunOver(m)
                /\ work' = work /\ marker' = marker
           ELSE /\ NoStoreChange
                /\ manual' = [manual EXCEPT ![m].phase = "running"]
                /\ work' = [work EXCEPT ![o][j] = record]
                /\ marker' = Marked(j, o)
        /\ UNCHANGED <<now, svc, generation, current, edits, environment>>
    BY DEF RunReserved
  <1>2. manual[m].phase = "reserving"
    BY <1>1 DEF CronInv, RunShape
  <1>3. /\ TypeOK /\ CopiesAreGood /\ now \in Nat /\ environment \in Environments
        /\ manual \in [Manuals -> ManualRuns] /\ marker \in [Jobs -> Markers]
        /\ s \in Services /\ svc[s].phase # "new" /\ svc[s].loaded
        /\ \A i \in Jobs : work[o][i].st = "none"
        /\ svc \in [Services -> SvcStates] /\ GoodStore(disk)
        /\ current \in Services /\ o \in Owners /\ j \in Jobs
        /\ at \in Nat /\ at <= now
        /\ work \in [Owners -> [Jobs -> WorkRecords]]
    BY <1>2, RunFacts
  <1>4. /\ j \in DOMAIN disk /\ j \in DOMAIN mem[s] /\ mem[s][j] = disk[j]
        /\ disk[j].running = o /\ disk[j].runningAt = at
    BY <1>2 DEF CronInv, RunMark
  <1>5. /\ SvcStep(s) /\ svc'[s].tick = svc[s].tick /\ svc'[s].phase = svc[s].phase
        /\ svc'[s].loaded
    BY <1>1, <1>3 DEF SvcStep
  <1>6. CASE svc[s].stopped
    <2> HIDE DEF s, j, at
    <2>1. /\ Persist(s, released, written) /\ manual' = RunOver(m)
          /\ work' = work /\ marker' = marker
      BY <1>1, <1>6
    <2>2. RunMoves(m) /\ manual'[m].phase = "done" /\ manual'[m].at = 0
      BY <1>3, <2>1, RunOverIs DEF RunMoves
    <2>3. manual'[m].at <= now
      BY <1>3, <2>2
    <2>4. WorkCalms
      BY <1>1, <2>1, SameWorkCalms
    <2>5. Section(s)
      BY <1>1, <1>3, <1>5, <2>1, <2>2, <2>3, <2>4, RunSection DEF SvcStep
    <2>6. KeptBy(disk)
      BY <1>1, <1>3, <2>4, OldMarks DEF WorkCalms
    <2>7. KeptBy(released) /\ GoodStore(released)
      BY <1>3, <2>1, <2>6, KeptReleased, ReleasedIsGood
    <2> HIDE DEF released
    <2> QED
      BY <1>3, <2>1, <2>5, <2>7, WriteStep
  <1>7. CASE ~svc[s].stopped
    <2> HIDE DEF s, j, at, record
    <2>1. /\ UNCHANGED <<mem, disk, failures, stale>>
          /\ manual' = [manual EXCEPT ![m].phase = "running"]
          /\ work' = [work EXCEPT ![o][j] = record]
          /\ marker' = Marked(j, o)
      BY <1>1, <1>7 DEF NoStoreChange
    <2>2. s = current
      BY <1>3, <1>7, WhoActs DEF CronInv
    <2>3. /\ record \in WorkRecords /\ record.st = "executing" /\ record.reservedAt = at
          /\ ~record.disowned => ~LetGoWrites(j) /\ disk[j].enabled
      <3> DEFINE run == NewRun(j, "executing", at, at)
      <3>1. "executing" \in {"reserved", "executing"}
        OBVIOUS
      <3>2. /\ run \in WorkRecords /\ run.st = "executing" /\ run.reservedAt = at
            /\ run.disowned = LetGoWrites(j)
        BY <1>3, <3>1, NewRunIs
      <3>3. disk[j].enabled \in BOOLEAN
        BY <1>3, <1>4 DEF GoodStore, IsStore, Row
      <3>4. record = [run EXCEPT !.disowned = run.disowned \/ ~disk[j].enabled]
        BY DEF record
      <3> HIDE DEF run
      <3>5. (run.disowned \/ ~disk[j].enabled) \in BOOLEAN
        OBVIOUS
      <3>6. /\ record \in WorkRecords /\ record.st = "executing" /\ record.reservedAt = at
            /\ record.disowned = (run.disowned \/ ~disk[j].enabled)
        BY <3>2, <3>4, <3>5 DEF WorkRecords
      <3> QED
        BY <3>2, <3>6
    <2>4. /\ work' \in [Owners -> [Jobs -> WorkRecords]]
          /\ \A p \in Owners, i \in Jobs :
               work'[p][i] = IF p = o /\ i = j THEN record ELSE work[p][i]
          /\ \A p \in Owners : p # o => work'[p] = work[p]
      BY <1>3, <2>1, <2>3
    <2>5. /\ marker' \in [Jobs -> Markers]
          /\ \A i \in Jobs : i # j => marker'[i] = marker[i]
          /\ marker'[j].by = o
      <3>1. generation \in Nat
        BY <1>3 DEF TypeOK
      <3> DEFINE mark == [by |-> o, generation |-> generation]
      <3>2. mark \in Markers /\ mark.by = o
        BY <1>3, <3>1 DEF Markers
      <3>3. marker' = [marker EXCEPT ![j] = mark]
        BY <2>1 DEF Marked
      <3> HIDE DEF mark
      <3> QED
        BY <1>3, <3>2, <3>3
    <2>6. /\ RunMoves(m) /\ manual'[m].phase = "running" /\ manual'[m].job = j
          /\ manual'[m].service = s /\ manual'[m].at = at
      <3>1. manual[m] \in ManualRuns
        BY <1>3
      <3>2. manual'[m] = [manual[m] EXCEPT !.phase = "running"]
        BY <1>3, <2>1
      <3>3. manual'[m] \in ManualRuns
        BY <3>1, <3>2 DEF ManualRuns
      <3> QED
        BY <1>3, <2>1, <3>1, <3>2, <3>3 DEF RunMoves, ManualRuns, s, j, at
    <2>7. TypeOK' /\ CopiesAreGood'
      BY <1>1, <1>3, <2>1, <2>4, <2>5, <2>6, TypeParts, TypeIsMade DEF TypeOK, RunMoves
    <2>8. OneService' /\ Synced'
      BY <1>1, <2>1 DEF CronInv, OneService, Dormant, Synced
    <2>9. \A t \in Services : /\ lock # Tick(t) /\ lock' # Tick(t) /\ lock' # Boot(t)
                              /\ work'[Tick(t)] = work[Tick(t)]
                              /\ work'[Boot(t)] = work[Boot(t)]
      BY <1>1, <2>4, OwnersApart
    <2>10. TickShape' /\ StartShape'
      BY <1>1, <2>9 DEF CronInv, TickShape, StartShape, NoWorkOf
    <2>11. RunShape'
      <3>1. \A n \in Manuals : n # m => (lock' = Manual(n) <=> lock = Manual(n))
        BY <1>1, OwnersApart
      <3>2. lock' # Manual(m)
        BY <1>1, OwnersApart
      <3> QED
        BY <1>1, <1>3, <2>6, <3>1, <3>2, RunShapeMoves
    <2>12. RunWork'
      <3> SUFFICES ASSUME NEW n \in Manuals, NEW i \in Jobs,
                          work'[Manual(n)][i].st # "none"
                   PROVE  /\ work'[Manual(n)][i].st # "reserved"
                          /\ manual'[n].phase = "running" /\ manual'[n].job = i
        BY DEF RunWork
      <3>1. CASE n = m
        <4>1. i = j
          BY <1>3, <2>4, <3>1
        <4> QED
          BY <1>3, <2>3, <2>4, <2>6, <3>1, <4>1
      <3>2. CASE n # m
        <4>1. Manual(n) \in Owners /\ Manual(n) # o
          BY <3>2, OwnersApart
        <4>2. work'[Manual(n)] = work[Manual(n)] /\ manual'[n] = manual[n]
          BY <2>4, <2>6, <3>2, <4>1 DEF RunMoves
        <4> QED
          BY <4>2 DEF CronInv, RunWork
      <3> QED
        BY <3>1, <3>2
    <2>13. RunMark'
      BY <1>1, <2>11, RunMarkWhenFree
    <2>14. ReservedBefore'
      BY <1>1, <1>3, <2>3, <2>4 DEF CronInv, ReservedBefore
    <2>15. FirmHolds'
      <3> SUFFICES ASSUME NEW p \in Owners, NEW i \in Jobs,
                          IsFirm(work'[p][i], now, environment.stuck)
                   PROVE  /\ Holds(disk, i, p, work'[p][i].reservedAt)
                          /\ Holds(mem[s], i, p, work'[p][i].reservedAt)
        BY <1>1, <2>1, <2>2 DEF FirmHolds
      <3>1. CASE p = o /\ i = j
        <4>1. work'[p][i] = record
          BY <2>4, <3>1
        <4>2. disk[j].enabled
          BY <2>3, <3>1, <4>1 DEF IsFirm
        <4> QED
          BY <1>3, <1>4, <2>3, <3>1, <4>1, <4>2 DEF Holds
      <3>2. CASE ~(p = o /\ i = j)
        <4>1. work'[p][i] = work[p][i]
          BY <2>4, <3>2
        <4> QED
          BY <1>3, <2>2, <4>1 DEF CronInv, FirmHolds
      <3> QED
        BY <3>1, <3>2
    <2>16. OneWriter'
      <3>1. {j} \in SUBSET Jobs
        BY <1>3
      <3>2. \A i \in {j} : \A p \in Owners :
              p # o => ~IsFirm(work[p][i], now, environment.stuck)
        BY <1>3, <1>4 DEF CronInv, FirmHolds, Holds
      <3>3. \A i \in {j} : ~work'[o][i].disowned => ~LetGoWrites(i)
        BY <1>3, <2>3, <2>4
      <3>4. \A i \in Jobs : i \notin {j} => work'[o][i] = work[o][i] \/ work'[o][i] = NoWork
        BY <1>3, <2>4
      <3>5. \A p \in Owners, i \in Jobs :
              Capable(p, i)' => Capable(p, i) \/ (p = o /\ i \in {j})
        BY <1>1, <2>4, <2>5 DEF Capable
      <3>6. UNCHANGED <<now, environment>>
        BY <1>1
      <3> HIDE DEF o
      <3> QED
        BY <1>3, <2>4, <3>1, <3>2, <3>3, <3>4, <3>5, <3>6, OneWriterBegins
    <2> QED
      BY <2>7, <2>8, <2>10, <2>11, <2>12, <2>13, <2>14, <2>15, <2>16 DEF CronInv
  <1> QED
    BY <1>6, <1>7

LEMMA FinishRunStep ==
    ASSUME CronInv, NEW m \in Manuals, NEW written \in BOOLEAN, FinishRun(m, written)
    PROVE  CronInv'
  <1> DEFINE s == manual[m].service
             j == manual[m].job
             o == Manual(m)
             w == work[o][j]
             ours == IsCurrent(o, j) /\ j \in DOMAIN mem[s]
             kept == Remaining(disk, IF Deletes(j, w) THEN {j} ELSE {})
             result == ApplyJobResult(j, mem[s][j], w, manual[m].forced)
             merged == [i \in DOMAIN kept |->
                          IF i = j THEN Merged(kept[j], result) ELSE kept[i]]
             store == MaintainedStore(merged, TRUE)
  <1>1. /\ w.st = "ended" /\ lock = None /\ lock' = lock
        /\ IF ours
           THEN /\ Persist(s, store, written)
                /\ svc' = IF written THEN [svc EXCEPT ![s].timer = Armed(s, store)] ELSE svc
           ELSE NoStoreChange /\ svc' = svc
        /\ work' = [work EXCEPT ![o][j] = NoWork]
        /\ marker' = Cleared({j}, o)
        /\ manual' = RunOver(m)
        /\ UNCHANGED <<now, generation, current, edits, environment>>
    BY DEF FinishRun, Free
  <1>2. /\ TypeOK /\ CopiesAreGood /\ now \in Nat /\ environment \in Environments
        /\ o \in Owners /\ ReservedBefore /\ j \in Jobs
        /\ work \in [Owners -> [Jobs -> WorkRecords]]
        /\ svc \in [Services -> SvcStates]
        /\ GoodStore(disk) /\ current \in Services
    BY RunFacts
  <1>3. manual[m].phase = "running" /\ \A i \in Jobs : work[o][i].st # "none" => i = j
    BY <1>1, <1>2 DEF CronInv, RunWork
  <1>4. s \in Services /\ svc[s].phase # "new" /\ svc[s].loaded /\ GoodStore(mem[s])
    BY <1>3, RunFacts, TypeParts
  <1> HIDE DEF s, store
  <1>5. /\ SvcStep(s) /\ svc'[s].tick = svc[s].tick /\ svc'[s].phase = svc[s].phase
        /\ svc'[s].loaded
    <2>1. CASE svc' = svc
      BY <1>2, <1>4, <2>1 DEF SvcStep
    <2>2. CASE svc' = [svc EXCEPT ![s].timer = Armed(s, store)]
      <3>1. svc[s] \in SvcStates /\ svc'[s] = [svc[s] EXCEPT !.timer = Armed(s, store)]
        BY <1>2, <1>4, <2>2
      <3>2. Armed(s, store) \in BOOLEAN
        BY DEF Armed
      <3>3. svc'[s] \in SvcStates
        BY <3>1, <3>2 DEF SvcStates
      <3>4. svc' \in [Services -> SvcStates] /\ \A t \in Services : t # s => svc'[t] = svc[t]
        BY <1>2, <1>4, <2>2, <3>3
      <3> QED
        BY <1>4, <3>1, <3>4 DEF SvcStep, SvcStates
    <2> QED
      BY <1>1, <2>1, <2>2
  <1>6. /\ WorkEnds(o) /\ \A i \in Jobs : work'[o][i].st = "none"
    <2>1. /\ work' \in [Owners -> [Jobs -> WorkRecords]]
          /\ \A p \in Owners : p # o => work'[p] = work[p]
          /\ \A i \in Jobs : work'[o][i] = IF i = j THEN NoWork ELSE work[o][i]
      BY <1>1, <1>2, NoWorkIsRecord DEF NoWorkRecord
    <2> QED
      BY <1>3, <2>1, NoWorkIsRecord DEF WorkEnds, NoWorkRecord
  <1>7. WorkCalms /\ WorkFollows /\ work' \in [Owners -> [Jobs -> WorkRecords]]
    BY <1>1, <1>2, <1>6, WorkEndsFollows DEF WorkEnds
  <1>8. RunMoves(m) /\ manual'[m].phase = "done" /\ manual'[m].at <= now
    <2>1. RunMoves(m) /\ manual'[m].phase = "done" /\ manual'[m].at = 0
      BY <1>1, <1>2, RunOverIs DEF RunMoves
    <2> QED
      BY <1>2, <2>1
  <1>9. /\ marker' \in [Jobs -> Markers]
        /\ \A i \in Jobs : marker'[i].by \in {marker[i].by, None}
    BY <1>1, <1>2, ClearedMarkers
  <1>10. Section(s)
    BY <1>1, <1>2, <1>4, <1>5, <1>6, <1>7, <1>8, <1>9, RunSection DEF SvcStep
  <1>11. CASE ~ours
    BY <1>1, <1>4, <1>10, <1>11, QuietStep
  <1>12. CASE ours
    <2>1. Persist(s, store, written)
      BY <1>1, <1>12
    <2>2. KeptBy(disk)
      BY <1>1, <1>2, <1>7, OldMarks
    <2>3. Capable(o, j)
      BY <1>1, <1>12 DEF IsCurrent, Capable
    <2>4. \A q \in Owners : ~IsFirm(work'[q][j], now', environment'.stuck)
      BY <1>1, <1>2, <1>6, <1>7, <2>3, NobodyElse
    <2>5. result \in Row
      <3>1. mem[s][j] \in Row /\ w \in WorkRecords
        BY <1>2, <1>4, <1>12 DEF GoodStore, IsStore
      <3> QED
        BY <1>2, <3>1, ApplyJobResultIsRow
    <2> HIDE DEF result
    <2>6. IsStore(merged)
      <3>1. GoodStore(kept)
        BY <1>2, RemainingIsGood
      <3> HIDE DEF kept
      <3>2. j \in DOMAIN kept => Merged(kept[j], result) \in Row
        BY <2>5, <3>1 DEF Merged, GoodStore, IsStore, Row
      <3> QED
        BY <3>1, <3>2 DEF GoodStore, IsStore
    <2>7. KeptBy(merged)
      <3> SUFFICES ASSUME NEW p \in Owners, NEW i \in Jobs,
                          IsFirm(work'[p][i], now', environment'.stuck)
                   PROVE  Holds(merged, i, p, work'[p][i].reservedAt)
        BY DEF KeptBy
      <3>1. i # j
        BY <2>4
      <3>2. Holds(disk, i, p, work'[p][i].reservedAt)
        BY <2>2 DEF KeptBy
      <3> QED
        BY <3>1, <3>2 DEF Holds, Remaining
    <2> HIDE DEF merged
    <2>8. KeptBy(store) /\ GoodStore(store)
      BY <1>1, <1>2, <1>7, <2>6, <2>7, KeptMaintained, MaintainedIsGood DEF store
    <2> QED
      BY <1>4, <1>10, <2>1, <2>8, WriteStep
  <1> QED
    BY <1>11, <1>12

-----------------------------------------------------------------------------
(* The steps: edits and reads.                                             *)

\* What edits and reads find
LEMMA EditFacts ==
    ASSUME CronInv
    PROVE  /\ TypeOK /\ CopiesAreGood /\ now \in Nat /\ environment \in Environments
           /\ current \in Services /\ svc[current].phase # "new" /\ ReservedBefore
           /\ svc \in [Services -> SvcStates]
           /\ work \in [Owners -> [Jobs -> WorkRecords]]
           /\ marker \in [Jobs -> Markers]
           /\ GoodStore(disk) /\ GoodStore(Loaded(current)) /\ IsStore(Loaded(current))
           /\ edits \in Nat /\ failures \in Nat /\ stale \in BOOLEAN
  <1>1. TypeOK /\ CopiesAreGood /\ svc[current].phase # "new" /\ ReservedBefore
    BY DEF CronInv, OneService
  <1>2. GoodStore(Loaded(current))
    BY <1>1, TypeParts DEF Loaded
  <1> QED
    BY <1>1, <1>2, TypeParts DEF TypeOK, GoodStore

\* The service of the day takes up its copy and sets its timer.
LEMMA CopyTaken ==
    ASSUME CronInv, NEW armed \in BOOLEAN,
           svc' = [svc EXCEPT ![current].loaded = TRUE, ![current].timer = armed]
    PROVE  /\ SvcStep(current) /\ svc'[current].loaded
           /\ svc'[current].tick = svc[current].tick
           /\ \A t \in Services : /\ svc'[t].phase = svc[t].phase
                                  /\ svc[t].loaded => svc'[t].loaded
  <1> DEFINE state == [svc[current] EXCEPT !.loaded = TRUE, !.timer = armed]
  <1>1. /\ svc \in [Services -> SvcStates] /\ current \in Services
        /\ svc[current].phase # "new"
    BY EditFacts
  <1>2. svc[current] \in SvcStates
    BY <1>1
  <1>3. /\ state \in SvcStates /\ state.loaded /\ state.tick = svc[current].tick
        /\ state.phase = svc[current].phase /\ state.stopped = svc[current].stopped
    BY <1>2 DEF SvcStates
  <1>4. svc' = [svc EXCEPT ![current] = state]
    BY <1>1
  <1> HIDE DEF state
  <1>5. /\ svc' \in [Services -> SvcStates] /\ svc'[current] = state
        /\ \A t \in Services : t # current => svc'[t] = svc[t]
    BY <1>1, <1>3, <1>4
  <1> QED
    BY <1>1, <1>3, <1>5 DEF SvcStep

\* A section of a user
LEMMA UserSection ==
    ASSUME CronInv, NEW armed \in BOOLEAN,
           svc' = [svc EXCEPT ![current].loaded = TRUE, ![current].timer = armed],
           WorkCalms, lock = None, lock' = None,
           UNCHANGED <<now, manual, marker, generation, current, environment>>,
           edits' \in Nat
    PROVE  Section(current)
  <1>1. /\ SvcStep(current) /\ svc'[current].loaded
        /\ svc'[current].tick = svc[current].tick
        /\ \A t \in Services : /\ svc'[t].phase = svc[t].phase
                               /\ svc[t].loaded => svc'[t].loaded
    BY CopyTaken
  <1>2. current \in Services /\ marker' \in [Jobs -> Markers]
    BY EditFacts
  <1>3. StartShape'
    <2>1. \A t \in Services, j \in Jobs :
            work'[Boot(t)][j].st \in {work[Boot(t)][j].st, "none"}
      BY OwnersApart DEF WorkCalms
    <2>2. StartShape /\ lock' = lock
      BY DEF CronInv
    <2> QED
      BY <1>1, <2>1, <2>2, StartShapeKept
  <1> QED
    BY <1>1, <1>2, <1>3, OtherSection

\* An edit that leaves good rows, and the marks of the runs that it does not
\* give up
LEMMA EditStep ==
    ASSUME CronInv, NEW edited, GoodStore(edited), NEW written \in BOOLEAN,
           Edit(edited, written), WorkCalms, written => KeptBy(edited)
    PROVE  CronInv'
  <1> DEFINE store == Loaded(current)
             armed == IF written THEN Armed(current, edited) ELSE svc[current].timer
  <1>1. /\ lock = None /\ lock' = lock /\ edits' = edits + 1
        /\ mem' = [mem EXCEPT ![current] = IF written THEN edited ELSE store]
        /\ disk' = IF written THEN edited ELSE disk
        /\ failures' = IF written THEN failures ELSE failures + 1
        /\ stale' = IF written THEN FALSE ELSE stale
        /\ UNCHANGED <<now, manual, marker, generation, current, environment>>
    BY DEF Edit, Restored, Free
  <1>2. /\ TypeOK /\ CopiesAreGood /\ now \in Nat
        /\ current \in Services /\ svc \in [Services -> SvcStates]
        /\ GoodStore(disk) /\ GoodStore(store)
        /\ edits \in Nat /\ failures \in Nat /\ stale \in BOOLEAN
        /\ DOMAIN mem = Services
    BY EditFacts, TypeParts
  <1>3. armed \in BOOLEAN
    BY <1>2 DEF Armed, SvcStates
  <1>4. svc' = [svc EXCEPT ![current].loaded = TRUE, ![current].timer = armed]
    BY <1>2 DEF Edit
  <1> HIDE DEF armed, store
  <1>5. Section(current)
    <2>1. UNCHANGED <<now, manual, marker, generation, current, environment>>
      BY <1>1
    <2>2. lock = None /\ lock' = None /\ edits' \in Nat
      BY <1>1, <1>2
    <2> QED
      BY <1>3, <1>4, <2>1, <2>2, UserSection
  <1>6. /\ DOMAIN mem' = Services
        /\ mem'[current] = IF written THEN edited ELSE store
        /\ \A t \in Services : t # current => mem'[t] = mem[t]
    BY <1>1, <1>2
  <1>7. /\ GoodStore(disk') /\ \A t \in Services : GoodStore(mem'[t])
        /\ failures' \in Nat /\ stale' \in BOOLEAN
    <2>1. GoodStore(disk')
      BY <1>1, <1>2
    <2>2. \A t \in Services : GoodStore(mem'[t])
      BY <1>2, <1>6 DEF CopiesAreGood
    <2>3. failures' \in {failures, failures + 1} /\ stale' \in {stale, FALSE}
      BY <1>1
    <2>4. failures' \in Nat
      BY <1>2, <2>3
    <2>5. stale' \in BOOLEAN
      BY <1>2, <2>3
    <2> QED
      BY <2>1, <2>2, <2>4, <2>5
  <1>8. KeptBy(disk) /\ KeptBy(store)
    BY <1>1, <1>2, OldMarks DEF WorkCalms, store
  <1>9. FirmHolds'
    <2>1. KeptBy(disk') /\ KeptBy(mem'[current])
      BY <1>1, <1>6, <1>8
    <2> QED
      BY <1>1, <2>1 DEF KeptBy, FirmHolds
  <1>10. Synced'
    <2>1. CASE written
      BY <1>1, <1>6, <2>1 DEF Synced, SameDefinitions
    <2>2. CASE ~written
      <3>1. /\ disk' = disk /\ stale' = stale /\ mem'[current'] = store
            /\ store = IF svc[current].loaded THEN mem[current] ELSE disk
        BY <1>1, <1>6, <2>2 DEF store, Loaded
      <3>2. ~stale => SameDefinitions(disk, store)
        BY <3>1 DEF CronInv, Synced, SameDefinitions
      <3> QED
        BY <3>1, <3>2 DEF Synced
    <2> QED
      BY <2>1, <2>2
  <1> QED
    BY <1>2, <1>5, <1>6, <1>7, <1>9, <1>10, SectionStep

LEMMA CalmMarks ==
    ASSUME CronInv, WorkCalms, UNCHANGED <<now, environment>>
    PROVE  KeptBy(Loaded(current)) /\ KeptBy(disk)
  <1>1. now' \in Nat /\ now' >= now
    BY TypeParts DEF CronInv
  <1>2. work' \in [Owners -> [Jobs -> WorkRecords]] /\ WorkFollows
    BY DEF WorkCalms
  <1> QED
    BY <1>1, <1>2, OldMarks

\* A job is added with no mark; the marks of the others stay.
LEMMA AddStep ==
    ASSUME CronInv, NEW j \in Jobs, NEW written \in BOOLEAN, Add(j, written)
    PROVE  CronInv'
  <1> DEFINE store == Loaded(current)
             blank == [enabled |-> TRUE, at |-> now + 1, next |-> 0, running |-> None,
                       runningAt |-> 0, lastRun |-> 0, lastEnd |-> 0, status |-> "none"]
             row == [blank EXCEPT !.next = ComputeJobNextRun(j, blank, now)]
             grown == [i \in DOMAIN store \cup {j} |-> IF i = j THEN row ELSE store[i]]
             edited == MaintainedStore(grown, FALSE)
  <1>1. /\ j \notin DOMAIN store /\ Edit(edited, written)
        /\ work' = work /\ now' = now /\ environment' = environment
    BY DEF Add, Edit
  <1>2. /\ TypeOK /\ CopiesAreGood /\ now \in Nat /\ environment \in Environments
        /\ current \in Services /\ GoodStore(store) /\ IsStore(store)
    BY EditFacts
  <1>3. blank \in Row
    BY <1>2 DEF Row
  <1>4. ComputeJobNextRun(j, blank, now) \in Nat
    BY <1>2, <1>3, ComputeJobNextRunIsNatural
  <1>5. row \in Row
    <2> HIDE DEF blank
    <2> QED
      BY <1>3, <1>4 DEF Row
  <1> HIDE DEF store, row
  <1>6. IsStore(grown)
    BY <1>2, <1>5 DEF IsStore
  <1>7. WorkCalms
    BY <1>1, SameWorkCalms
  <1>8. KeptBy(store)
    BY <1>1, <1>2, <1>7, OldMarks DEF WorkCalms, store
  <1>9. KeptBy(grown)
    BY <1>1, <1>8 DEF KeptBy, Holds
  <1> HIDE DEF grown
  <1>10. KeptBy(edited) /\ GoodStore(edited)
    BY <1>1, <1>2, <1>6, <1>7, <1>9, KeptMaintained, MaintainedIsGood DEF WorkCalms
  <1> HIDE DEF edited
  <1> QED
    BY <1>1, <1>7, <1>10, EditStep

\* A job is removed and its runs are given up.
LEMMA RemoveStep ==
    ASSUME CronInv, NEW j \in Jobs, NEW written \in BOOLEAN, Remove(j, written)
    PROVE  CronInv'
  <1> DEFINE store == Loaded(current)
             left == Remaining(store, {j})
             edited == MaintainedStore(left, FALSE)
  <1>1. /\ Edit(edited, written) /\ now' = now /\ environment' = environment
        /\ work' = IF written THEN Disowned({j}) ELSE work
    BY DEF Remove, Edit
  <1>2. /\ TypeOK /\ CopiesAreGood /\ now \in Nat /\ environment \in Environments
        /\ current \in Services /\ GoodStore(store) /\ IsStore(store) /\ ReservedBefore
    BY EditFacts
  <1> HIDE DEF store
  <1>3. IsStore(left)
    BY <1>2, RemainingIsGood DEF GoodStore
  <1>4. GoodStore(edited)
    BY <1>2, <1>3, MaintainedIsGood
  <1>5. CASE written
    <2>1. /\ WorkCalms
          /\ \A o \in Owners : ~IsFirm(work'[o][j], now', environment'.stuck)
      BY <1>1, <1>2, <1>5, DisownedCalms
    <2>2. KeptBy(store)
      BY <1>1, <1>2, <2>1, CalmMarks DEF store
    <2>3. KeptBy(left)
      BY <2>1, <2>2 DEF KeptBy, Holds, Remaining
    <2> HIDE DEF left
    <2>4. KeptBy(edited)
      BY <1>1, <1>2, <1>3, <2>1, <2>3, KeptMaintained DEF WorkCalms
    <2> HIDE DEF edited
    <2> QED
      BY <1>1, <1>4, <2>1, <2>4, EditStep
  <1>6. CASE ~written
    <2>1. WorkCalms
      BY <1>1, <1>6, SameWorkCalms
    <2> HIDE DEF edited
    <2> QED
      BY <1>1, <1>4, <1>6, <2>1, EditStep
  <1> QED
    BY <1>5, <1>6

\* A job is disabled or enabled, and its runs are given up, or its time changes.
LEMMA UpdateStep ==
    ASSUME CronInv, NEW j \in Jobs, NEW patch \in {"toggle", "reschedule"},
           NEW written \in BOOLEAN, Update(j, patch, written)
    PROVE  CronInv'
  <1> DEFINE store == Loaded(current)
             asked == IF patch = "toggle" THEN [store[j] EXCEPT !.enabled = ~@]
                      ELSE [store[j] EXCEPT !.at = now + 1]
             row == Patched(j, asked)
             edited == [store EXCEPT ![j] = row]
  <1>1. /\ j \in DOMAIN store
        /\ Edit(edited, written) /\ now' = now /\ environment' = environment
        /\ work' = IF written /\ patch = "toggle" THEN Disowned({j}) ELSE work
    BY DEF Update, Edit
  <1>2. /\ TypeOK /\ CopiesAreGood /\ now \in Nat /\ environment \in Environments
        /\ current \in Services /\ GoodStore(store) /\ IsStore(store) /\ ReservedBefore
    BY EditFacts
  <1> HIDE DEF store
  <1>3. /\ asked \in Row
        /\ patch = "reschedule" => /\ asked.enabled = store[j].enabled
                                   /\ asked.running = store[j].running
                                   /\ asked.runningAt = store[j].runningAt
    <2>1. store[j] \in Row
      BY <1>1, <1>2 DEF IsStore
    <2> DEFINE toggled == ~store[j].enabled
               later == now + 1
    <2>2. toggled \in BOOLEAN /\ later \in Nat
      BY <1>2
    <2>3. asked = IF patch = "toggle" THEN [store[j] EXCEPT !.enabled = toggled]
                  ELSE [store[j] EXCEPT !.at = later]
      BY <2>1 DEF Row
    <2> HIDE DEF toggled, later, asked
    <2>4. CASE patch = "toggle"
      BY <2>1, <2>2, <2>3, <2>4 DEF Row
    <2>5. CASE patch # "toggle"
      BY <2>1, <2>2, <2>3, <2>5 DEF Row
    <2> QED
      BY <2>4, <2>5
  <1> HIDE DEF asked
  <1>4. /\ row \in Row /\ (row.enabled \/ row.next = 0)
        /\ asked.enabled => /\ row.enabled /\ row.running = asked.running
                            /\ row.runningAt = asked.runningAt
    <2>1. ComputeJobNextRun(j, asked, now) \in Nat
      BY <1>2, <1>3, ComputeJobNextRunIsNatural
    <2> QED
      BY <1>3, <2>1 DEF Patched, Row
  <1> HIDE DEF row
  <1>5. GoodStore(edited)
    BY <1>1, <1>2, <1>4 DEF GoodStore, IsStore
  <1>6. CASE written /\ patch = "toggle"
    <2>1. /\ WorkCalms
          /\ \A o \in Owners : ~IsFirm(work'[o][j], now', environment'.stuck)
      BY <1>1, <1>2, <1>6, DisownedCalms
    <2>2. KeptBy(store)
      BY <1>1, <1>2, <2>1, CalmMarks DEF store
    <2>3. KeptBy(edited)
      BY <2>1, <2>2 DEF KeptBy, Holds
    <2> HIDE DEF edited
    <2> QED
      BY <1>1, <1>5, <2>1, <2>3, EditStep
  <1>7. CASE ~(written /\ patch = "toggle")
    <2>1. WorkCalms
      BY <1>1, <1>7, SameWorkCalms
    <2>2. KeptBy(store)
      BY <1>1, <1>2, <2>1, CalmMarks DEF store
    <2>3. written => KeptBy(edited)
      BY <1>3, <1>4, <1>7, <2>2 DEF KeptBy, Holds
    <2> HIDE DEF edited
    <2> QED
      BY <1>1, <1>5, <2>1, <2>3, EditStep
  <1> QED
    BY <1>6, <1>7

LEMMA ReadStep ==
    ASSUME CronInv, NEW written \in BOOLEAN, Read(written)
    PROVE  CronInv'
  <1> DEFINE store == MaintainedStore(Loaded(current), FALSE)
  <1>1. /\ lock = None /\ lock' = lock /\ Persist(current, store, written)
        /\ svc' = [svc EXCEPT ![current].loaded = TRUE]
        /\ work' = work
        /\ UNCHANGED <<now, manual, marker, generation, current, edits, environment>>
    BY DEF Read, Free
  <1>2. /\ TypeOK /\ CopiesAreGood /\ now \in Nat /\ environment \in Environments
        /\ current \in Services /\ svc \in [Services -> SvcStates] /\ edits \in Nat
        /\ GoodStore(Loaded(current)) /\ IsStore(Loaded(current))
    BY EditFacts
  <1>3. WorkCalms
    BY <1>1, SameWorkCalms
  <1> DEFINE armed == svc[current].timer
  <1>4. armed \in BOOLEAN
    BY <1>2 DEF SvcStates
  <1>5. svc' = [svc EXCEPT ![current].loaded = TRUE, ![current].timer = armed]
    BY <1>1, <1>2 DEF SvcStates
  <1> HIDE DEF armed
  <1>6. Section(current)
    <2>1. UNCHANGED <<now, manual, marker, generation, current, environment>>
      BY <1>1
    <2>2. lock = None /\ lock' = None /\ edits' \in Nat
      BY <1>1, <1>2
    <2> QED
      BY <1>3, <1>4, <1>5, <2>1, <2>2, UserSection
  <1>7. KeptBy(store) /\ GoodStore(store)
    <2>1. KeptBy(Loaded(current))
      BY <1>1, <1>2, <1>3, OldMarks DEF WorkCalms
    <2> QED
      BY <1>1, <1>2, <1>3, <2>1, KeptMaintained, MaintainedIsGood DEF WorkCalms
  <1> HIDE DEF store
  <1> QED
    BY <1>1, <1>2, <1>6, <1>7, WriteStep

-----------------------------------------------------------------------------
(* The steps: the gateway.                                                 *)

LEMMA GatewayFacts ==
    ASSUME CronInv
    PROVE  /\ TypeOK /\ CopiesAreGood /\ now \in Nat /\ environment \in Environments
           /\ current \in Services /\ current \in Nat /\ svc[current].phase # "new"
           /\ svc \in [Services -> SvcStates]
           /\ manual \in [Manuals -> ManualRuns]
           /\ work \in [Owners -> [Jobs -> WorkRecords]]
           /\ marker \in [Jobs -> Markers]
           /\ GoodStore(disk)
           /\ edits \in Nat /\ failures \in Nat /\ stale \in BOOLEAN
           /\ generation \in Nat /\ lock \in Owners \cup {None}
  BY EditFacts, TypeParts, ServicesAreNumbers DEF TypeOK

\* A step that writes no store, begins no run and leaves the runs, the lock and
\* the time as they are.  It may stop the service of the day and start the next.
GatewayStep ==
    /\ UNCHANGED <<now, disk, mem, manual, work, lock, edits, failures, environment>>
    /\ generation' \in Nat /\ current' \in Services /\ stale' \in BOOLEAN
    /\ marker' \in [Jobs -> Markers]
    /\ \A j \in Jobs : marker'[j].by \in {marker[j].by, None}
    /\ svc' \in [Services -> SvcStates]
    /\ \A t \in Services :
         \/ /\ svc'[t].phase = svc[t].phase /\ svc'[t].tick = svc[t].tick
            /\ svc'[t].loaded = svc[t].loaded
            /\ svc[t].stopped => svc'[t].stopped
         \/ Dormant(t) /\ svc'[t] = Fresh("load")

LEMMA GatewayStepKeeps ==
    ASSUME CronInv, GatewayStep, OneService',
           \/ current' = current /\ stale' = stale /\ (svc'[current].loaded => svc[current].loaded)
           \/ ~svc'[current'].loaded
    PROVE  CronInv'
  <1>1. /\ UNCHANGED <<now, disk, mem, manual, work, lock, edits, failures, environment>>
        /\ generation' \in Nat /\ current' \in Services /\ stale' \in BOOLEAN
        /\ marker' \in [Jobs -> Markers]
        /\ \A j \in Jobs : marker'[j].by \in {marker[j].by, None}
        /\ svc' \in [Services -> SvcStates]
    BY DEF GatewayStep
  <1>2. TypeOK /\ CopiesAreGood /\ now \in Nat
    BY GatewayFacts
  <1>3. \A t \in Services :
          \/ /\ svc'[t].phase = svc[t].phase /\ svc'[t].tick = svc[t].tick
             /\ svc'[t].loaded = svc[t].loaded
             /\ svc[t].stopped => svc'[t].stopped
          \/ /\ svc[t].phase = "new" /\ svc[t].tick = "idle" /\ ~svc[t].loaded
             /\ ~svc[t].stopped
             /\ svc'[t].phase = "load" /\ svc'[t].tick = "idle" /\ ~svc'[t].loaded
    BY FreshIsState DEF GatewayStep, Dormant
  <1>4. TypeOK' /\ CopiesAreGood'
    BY <1>1, <1>2, TypeParts, TypeIsMade DEF TypeOK
  <1>5. TickShape'
    <2>1. \A t \in Services : svc'[t].tick = svc[t].tick /\ (svc[t].loaded => svc'[t].loaded)
      BY <1>3
    <2> QED
      BY <1>1, <2>1 DEF CronInv, TickShape, NoWorkOf
  <1>6. StartShape'
    BY <1>1, <1>3 DEF CronInv, StartShape, NoWorkOf
  <1>7. RunShape'
    <2>1. \A t \in Services : /\ svc[t].phase # "new" => svc'[t].phase # "new"
                              /\ svc[t].loaded => svc'[t].loaded
      BY <1>3
    <2> QED
      BY <1>1, <2>1 DEF CronInv, RunShape
  <1>8. RunWork' /\ RunMark' /\ ReservedBefore'
    BY <1>1 DEF CronInv, RunWork, RunMark, ReservedBefore
  <1>9. FirmHolds'
    BY <1>1 DEF CronInv, FirmHolds
  <1>10. Synced'
    BY <1>1 DEF CronInv, Synced
  <1>11. OneWriter'
    <2>1. NothingBegins
      BY <1>1, <1>3 DEF NothingBegins
    <2>2. WorkFollows /\ work' \in [Owners -> [Jobs -> WorkRecords]]
      BY <1>1, GatewayFacts DEF WorkFollows, Follows
    <2>3. now' \in Nat /\ now' >= now /\ environment' = environment
      BY <1>1, <1>2
    <2>4. \A p \in Owners, j \in Jobs : Capable(p, j)' => Capable(p, j)
      BY <2>1, CapsShrink DEF CronInv
    <2> QED
      BY <2>2, <2>3, <2>4, OneWriterKept
  <1> QED
    BY <1>4, <1>5, <1>6, <1>7, <1>8, <1>9, <1>10, <1>11 DEF CronInv

\* What stop() leaves of a service
LEMMA StoppedIs ==
    ASSUME CronInv
    PROVE  /\ Stopped(current) \in [Services -> SvcStates]
           /\ \A t \in Services : t # current => Stopped(current)[t] = svc[t]
           /\ Stopped(current)[current].stopped
           /\ Stopped(current)[current].phase = svc[current].phase
           /\ Stopped(current)[current].tick = svc[current].tick
           /\ Stopped(current)[current].loaded = svc[current].loaded
  <1> DEFINE state == [svc[current] EXCEPT !.stopped = TRUE, !.timer = FALSE]
  <1>1. svc \in [Services -> SvcStates] /\ current \in Services /\ svc[current] \in SvcStates
    BY GatewayFacts
  <1>2. /\ state \in SvcStates /\ state.stopped /\ state.phase = svc[current].phase
        /\ state.tick = svc[current].tick /\ state.loaded = svc[current].loaded
    BY <1>1 DEF SvcStates
  <1>3. Stopped(current) = [svc EXCEPT ![current] = state]
    BY <1>1 DEF Stopped
  <1> HIDE DEF state
  <1> QED
    BY <1>1, <1>2, <1>3

LEMMA ReloadCronStep ==
    ASSUME CronInv, ReloadCron
    PROVE  CronInv'
  <1> DEFINE next == current + 1
             old == Stopped(current)
  <1>1. /\ environment.event = "reload" /\ next \in Services
        /\ svc' = [old EXCEPT ![next] = Fresh("load")]
        /\ current' = next /\ stale' = FALSE
        /\ UNCHANGED <<now, disk, mem, manual, work, marker, generation, lock, edits,
                       failures, environment>>
    BY DEF ReloadCron
  <1>2. /\ current \in Services /\ current \in Nat /\ next # current /\ next > current
        /\ generation \in Nat /\ marker \in [Jobs -> Markers]
    BY GatewayFacts
  <1>3. /\ old \in [Services -> SvcStates]
        /\ \A t \in Services : t # current => old[t] = svc[t]
        /\ old[current].stopped
        /\ old[current].phase = svc[current].phase /\ old[current].tick = svc[current].tick
        /\ old[current].loaded = svc[current].loaded
    BY StoppedIs
  <1> HIDE DEF old
  <1>4. /\ svc' \in [Services -> SvcStates] /\ svc'[next] = Fresh("load")
        /\ \A t \in Services : t # next => svc'[t] = old[t]
    BY <1>1, <1>3, FreshIsState
  <1>5. Dormant(next)
    BY <1>1, <1>2 DEF CronInv, OneService
  <1>6. GatewayStep
    BY <1>1, <1>2, <1>3, <1>4, <1>5 DEF GatewayStep
  <1>7. OneService'
    <2>1. \A s \in Services : s > next => s > current
      BY <1>2, ServicesAreNumbers
    <2>2. \A s \in Services : /\ s # next => svc'[s].stopped \/ svc'[s] = Fresh("new")
                              /\ s > next \/ svc'[s].phase = "new" => svc'[s] = Fresh("new")
      <3> SUFFICES ASSUME NEW s \in Services
                   PROVE  /\ s # next => svc'[s].stopped \/ svc'[s] = Fresh("new")
                          /\ s > next \/ svc'[s].phase = "new" => svc'[s] = Fresh("new")
        OBVIOUS
      <3>1. CASE s = next
        BY <1>2, <1>4, <3>1, FreshIsState
      <3>2. CASE s = current
        BY <1>2, <1>3, <1>4, <3>2 DEF CronInv, OneService
      <3>3. CASE s # next /\ s # current
        BY <1>3, <1>4, <2>1, <3>3 DEF CronInv, OneService, Dormant
      <3> QED
        BY <3>1, <3>2, <3>3
    <2>3. svc'[next].phase # "new" /\ ~svc'[next].stopped
      BY <1>4, FreshIsState
    <2> QED
      BY <1>1, <2>2, <2>3 DEF OneService, Dormant
  <1>8. ~svc'[current'].loaded
    BY <1>1, <1>4, FreshIsState
  <1> QED
    BY <1>6, <1>7, <1>8, GatewayStepKeeps

LEMMA CloseServerStep ==
    ASSUME CronInv, CloseServer
    PROVE  CronInv'
  <1>1. /\ environment.event = "restart" /\ current + 1 \in Services
        /\ svc' = Stopped(current)
        /\ UNCHANGED <<now, disk, mem, manual, work, marker, generation, lock, current,
                       edits, failures, stale, environment>>
    BY DEF CloseServer
  <1>2. /\ current \in Services /\ generation \in Nat /\ stale \in BOOLEAN
        /\ marker \in [Jobs -> Markers]
    BY GatewayFacts
  <1>3. /\ svc' \in [Services -> SvcStates]
        /\ \A t \in Services : t # current => svc'[t] = svc[t]
        /\ svc'[current].stopped
        /\ svc'[current].phase = svc[current].phase /\ svc'[current].tick = svc[current].tick
        /\ svc'[current].loaded = svc[current].loaded
    BY <1>1, StoppedIs
  <1>4. GatewayStep
    BY <1>1, <1>2, <1>3 DEF GatewayStep
  <1>5. OneService'
    <2>1. \A s \in Services : /\ s # current => svc'[s].stopped \/ svc'[s] = Fresh("new")
                              /\ s > current \/ svc'[s].phase = "new" => svc'[s] = Fresh("new")
      <3> SUFFICES ASSUME NEW s \in Services
                   PROVE  /\ s # current => svc'[s].stopped \/ svc'[s] = Fresh("new")
                          /\ s > current \/ svc'[s].phase = "new" => svc'[s] = Fresh("new")
        OBVIOUS
      <3>1. CASE s = current
        <4>1. ~(s > current)
          BY <3>1, GatewayFacts
        <4>2. svc'[s].phase # "new"
          BY <1>3, <3>1, GatewayFacts
        <4> QED
          BY <3>1, <4>1, <4>2
      <3>2. CASE s # current
        BY <1>3, <3>2 DEF CronInv, OneService, Dormant
      <3> QED
        BY <3>1, <3>2
    <2>2. svc'[current].phase # "new"
      BY <1>3, GatewayFacts
    <2> QED
      BY <1>1, <2>1, <2>2 DEF OneService, Dormant
  <1> QED
    BY <1>1, <1>3, <1>4, <1>5, GatewayStepKeeps

LEMMA NoMarkerIsMarker == NoMarker \in Markers /\ NoMarker.by = None
  BY DEF NoMarker, Markers

LEMMA AdvanceGenerationStep ==
    ASSUME CronInv, AdvanceGeneration
    PROVE  CronInv'
  <1>1. /\ generation' = generation + 1
        /\ marker' = [j \in Jobs |->
             IF marker[j].generation < generation /\ j \notin environment.main
             THEN NoMarker ELSE marker[j]]
        /\ UNCHANGED <<now, disk, mem, svc, manual, work, lock, current, edits,
                       failures, stale, environment>>
    BY DEF AdvanceGeneration
  <1>2. /\ current \in Services /\ generation \in Nat /\ stale \in BOOLEAN
        /\ marker \in [Jobs -> Markers] /\ svc \in [Services -> SvcStates]
    BY GatewayFacts
  <1>3. /\ marker' \in [Jobs -> Markers]
        /\ \A j \in Jobs : marker'[j].by \in {marker[j].by, None}
    BY <1>1, <1>2, NoMarkerIsMarker
  <1>4. GatewayStep
    BY <1>1, <1>2, <1>3 DEF GatewayStep
  <1>5. OneService'
    BY <1>1 DEF CronInv, OneService, Dormant
  <1> QED
    BY <1>1, <1>4, <1>5, GatewayStepKeeps

LEMMA NextServerStep ==
    ASSUME CronInv, NextServer
    PROVE  CronInv'
  <1> DEFINE next == current + 1
  <1>1. /\ svc[current].stopped /\ generation' = generation + 1
        /\ marker' = [j \in Jobs |-> NoMarker]
        /\ svc' = [svc EXCEPT ![next] = Fresh("load")]
        /\ current' = next /\ stale' = FALSE
        /\ UNCHANGED <<now, disk, mem, manual, work, lock, edits, failures, environment>>
    BY DEF NextServer
  <1>2. /\ current \in Services /\ current \in Nat /\ next # current /\ next > current
        /\ generation \in Nat /\ svc \in [Services -> SvcStates]
    BY GatewayFacts
  <1>3. next \in Services /\ environment.event = "restart"
    BY <1>1 DEF CronInv, OneService
  <1>4. /\ svc' \in [Services -> SvcStates] /\ svc'[next] = Fresh("load")
        /\ \A t \in Services : t # next => svc'[t] = svc[t]
    BY <1>1, <1>2, <1>3, FreshIsState
  <1>5. Dormant(next)
    BY <1>2, <1>3 DEF CronInv, OneService
  <1>6. /\ marker' \in [Jobs -> Markers]
        /\ \A j \in Jobs : marker'[j].by \in {marker[j].by, None}
    BY <1>1, NoMarkerIsMarker
  <1>7. GatewayStep
    <2>1. current' \in Services /\ stale' \in BOOLEAN
      BY <1>1, <1>3
    <2>2. generation' \in Nat
      BY <1>1, <1>2
    <2>3. \A t \in Services :
            \/ /\ svc'[t].phase = svc[t].phase /\ svc'[t].tick = svc[t].tick
               /\ svc'[t].loaded = svc[t].loaded
               /\ svc[t].stopped => svc'[t].stopped
            \/ Dormant(t) /\ svc'[t] = Fresh("load")
      BY <1>4, <1>5
    <2> QED
      BY <1>1, <1>4, <1>6, <2>1, <2>2, <2>3 DEF GatewayStep
  <1>8. OneService'
    <2>1. \A s \in Services : s > next => s > current
      BY <1>2, ServicesAreNumbers
    <2>2. \A s \in Services : /\ s # next => svc'[s].stopped \/ svc'[s] = Fresh("new")
                              /\ s > next \/ svc'[s].phase = "new" => svc'[s] = Fresh("new")
      <3> SUFFICES ASSUME NEW s \in Services
                   PROVE  /\ s # next => svc'[s].stopped \/ svc'[s] = Fresh("new")
                          /\ s > next \/ svc'[s].phase = "new" => svc'[s] = Fresh("new")
        OBVIOUS
      <3>1. CASE s = next
        BY <1>2, <1>4, <3>1, FreshIsState
      <3>2. CASE s = current
        BY <1>1, <1>2, <1>4, <2>1, <3>2 DEF CronInv, OneService
      <3>3. CASE s # next /\ s # current
        BY <1>4, <2>1, <3>3 DEF CronInv, OneService, Dormant
      <3> QED
        BY <3>1, <3>2, <3>3
    <2>3. svc'[next].phase # "new" /\ ~svc'[next].stopped
      BY <1>4, FreshIsState
    <2> QED
      BY <1>1, <1>3, <2>2, <2>3 DEF OneService, Dormant
  <1>9. ~svc'[current'].loaded
    BY <1>1, <1>4, FreshIsState
  <1> QED
    BY <1>7, <1>8, <1>9, GatewayStepKeeps

\* Of a process that dies only the store remains.
LEMMA CrashStep ==
    ASSUME CronInv, Crash
    PROVE  CronInv'
  <1> DEFINE next == current + 1
             over == [NoRun EXCEPT !.phase = "done"]
  <1>1. /\ environment.event = "crash" /\ next \in Services /\ current' = next
        /\ svc' = [svc EXCEPT ![current] = Fresh("new"), ![next] = Fresh("load")]
        /\ mem' = [s \in Services |-> [j \in {} |-> {}]]
        /\ manual' = [m \in Manuals |->
             IF manual[m].phase = "idle" THEN manual[m] ELSE over]
        /\ work' = [o \in Owners |-> [j \in Jobs |-> NoWork]]
        /\ marker' = [j \in Jobs |-> NoMarker]
        /\ lock' = None /\ stale' = FALSE
        /\ UNCHANGED <<now, disk, generation, edits, failures, environment>>
    BY DEF Crash
  <1>2. /\ current \in Services /\ current \in Nat /\ next # current /\ next > current
        /\ now \in Nat /\ svc \in [Services -> SvcStates]
        /\ manual \in [Manuals -> ManualRuns] /\ TypeOK /\ CopiesAreGood
    BY GatewayFacts
  <1>3. /\ svc' \in [Services -> SvcStates] /\ svc'[next] = Fresh("load")
        /\ svc'[current] = Fresh("new")
        /\ \A t \in Services : t # next /\ t # current => svc'[t] = svc[t]
    BY <1>1, <1>2, FreshIsState
  <1>4. \A t \in Services : t # next => svc'[t] = Fresh("new")
    <2>1. \A t \in Services : t # current => svc[t] = Fresh("new")
      BY <1>1 DEF CronInv, OneService, Dormant
    <2> QED
      BY <1>3, <2>1
  <1>5. \A t \in Services : /\ svc'[t].tick = "idle" /\ svc'[t].phase \in {"new", "load"}
                            /\ ~svc'[t].stopped
    BY <1>3, <1>4, FreshIsState
  <1>6. over \in ManualRuns /\ over.phase = "done" /\ over.at = 0
    <2>1. (CHOOSE j \in Jobs : TRUE) \in Jobs
      BY CronAssumption
    <2> QED
      BY <2>1 DEF NoRun, ManualRuns
  <1> HIDE DEF over
  <1>7. /\ manual' \in [Manuals -> ManualRuns]
        /\ \A m \in Manuals : \/ manual'[m].phase = "idle" /\ manual'[m].at = manual[m].at
                              \/ manual'[m].phase = "done" /\ manual'[m].at = 0
    BY <1>1, <1>2, <1>6
  <1>8. /\ work' \in [Owners -> [Jobs -> WorkRecords]]
        /\ \A o \in Owners, j \in Jobs : work'[o][j].st = "none" /\ work'[o][j].reservedAt = 0
    BY <1>1, NoWorkIsRecord DEF NoWorkRecord
  <1>9. /\ marker' \in [Jobs -> Markers]
    BY <1>1, NoMarkerIsMarker
  <1>10. DOMAIN mem' = Services /\ \A t \in Services : GoodStore(mem'[t])
    BY <1>1 DEF GoodStore, IsStore
  <1>11. TypeOK' /\ CopiesAreGood'
    BY <1>1, <1>2, <1>3, <1>7, <1>8, <1>9, <1>10, TypeParts, TypeIsMade DEF TypeOK
  <1>12. OneService'
    <2>1. \A s \in Services : s > next => s # next
      BY <1>2
    <2>2. svc'[next].phase # "new"
      BY <1>3, FreshIsState
    <2> QED
      BY <1>1, <1>4, <1>5, <2>1, <2>2 DEF OneService, Dormant
  <1>13. TickShape' /\ StartShape'
    <2>1. \A t \in Services :
            /\ lock' # Tick(t) /\ lock' # Boot(t)
            /\ \A j \in Jobs : work'[Tick(t)][j].st = "none" /\ work'[Boot(t)][j].st = "none"
      BY <1>1, <1>8, OwnersApart
    <2>2. TickShape'
      BY <1>5, <2>1 DEF TickShape, NoWorkOf
    <2>3. StartShape'
      BY <1>5, <2>1 DEF StartShape, NoWorkOf
    <2> QED
      BY <2>2, <2>3
  <1>14. RunShape'
    <2>1. \A m \in Manuals : manual[m].at <= now
      BY DEF CronInv, RunShape
    <2> QED
      BY <1>1, <1>2, <1>7, <2>1, OwnersApart DEF RunShape
  <1>15. RunWork' /\ RunMark'
    BY <1>7, <1>8, OwnersApart DEF RunWork, RunMark
  <1>16. ReservedBefore' /\ FirmHolds' /\ OneWriter'
    BY <1>1, <1>2, <1>8 DEF ReservedBefore, FirmHolds, OneWriter, IsFirm
  <1>17. Synced'
    BY <1>1, <1>3, FreshIsState DEF Synced
  <1> QED
    BY <1>11, <1>12, <1>13, <1>14, <1>15, <1>16, <1>17 DEF CronInv

-----------------------------------------------------------------------------
(* The invariant.                                                          *)

LEMMA InitIsGood ==
    ASSUME Init PROVE CronInv
  <1>1. /\ environment \in Environments /\ now = 1
        /\ disk = [j \in environment.jobs |->
             [enabled |-> TRUE, at |-> 2, next |-> IF j \in OneShot THEN 2 ELSE NextOfAnchor(1),
              running |-> None, runningAt |-> 0, lastRun |-> 0, lastEnd |-> 0,
              status |-> "none"]]
        /\ mem = [s \in Services |->
             IF s = 1 /\ environment.started THEN disk ELSE [j \in {} |-> {}]]
        /\ svc = [s \in Services |->
             IF s # 1 THEN Fresh("new")
             ELSE IF environment.started
                  THEN [Fresh("up") EXCEPT !.loaded = TRUE, !.timer = environment.jobs # {}]
             ELSE Fresh("load")]
        /\ manual = [m \in Manuals |-> NoRun]
        /\ work = [o \in Owners |-> [j \in Jobs |-> NoWork]]
        /\ marker = [j \in Jobs |-> NoMarker]
        /\ generation = 0 /\ lock = None /\ current = 1
        /\ edits = 0 /\ failures = 0 /\ stale = FALSE
    BY DEF Init
  <1>2. /\ environment.jobs \subseteq Jobs /\ environment.until \in Nat \ {0}
        /\ environment.started \in BOOLEAN /\ environment.stuck \in Nat
    BY <1>1, CronAssumption
  <1>3. 1 \in Services
    BY CronAssumption
  <1>4. GoodStore(disk)
    <2>1. NextOfAnchor(1) \in Nat
      BY NextOfAnchorIsNatural
    <2> QED
      BY <1>1, <1>2, <2>1 DEF GoodStore, IsStore, Row
  <1>5. DOMAIN mem = Services /\ \A s \in Services : GoodStore(mem[s])
    BY <1>1, <1>4 DEF GoodStore, IsStore
  <1>6. /\ svc \in [Services -> SvcStates] /\ \A s \in Services : s # 1 => svc[s] = Fresh("new")
        /\ svc[1].tick = "idle" /\ svc[1].phase \in {"up", "load"} /\ ~svc[1].stopped
        /\ svc[1].phase = "up" => svc[1].loaded
        /\ svc[1].loaded => environment.started
    <2> DEFINE up == [Fresh("up") EXCEPT !.loaded = TRUE, !.timer = environment.jobs # {}]
    <2>1. /\ up \in SvcStates /\ up.tick = "idle" /\ up.phase = "up" /\ ~up.stopped
          /\ up.loaded
      BY DEF Fresh, SvcStates
    <2> HIDE DEF up
    <2>2. svc = [s \in Services |-> IF s # 1 THEN Fresh("new")
                                    ELSE IF environment.started THEN up ELSE Fresh("load")]
      BY <1>1 DEF up
    <2> QED
      BY <1>3, <2>1, <2>2, FreshIsState
  <1>7. \A s \in Services : /\ svc[s].tick = "idle" /\ svc[s].phase \in {"new", "load", "up"}
                            /\ svc[s].phase = "up" => svc[s].loaded
                            /\ ~svc[s].stopped
    BY <1>6, FreshIsState
  <1>8. /\ manual \in [Manuals -> ManualRuns]
        /\ \A m \in Manuals : manual[m].phase = "idle" /\ manual[m].at = 0
    <2>1. (CHOOSE j \in Jobs : TRUE) \in Jobs
      BY CronAssumption
    <2>2. NoRun \in ManualRuns /\ NoRun.phase = "idle" /\ NoRun.at = 0
      BY <2>1 DEF NoRun, ManualRuns
    <2> QED
      BY <1>1, <2>2
  <1>9. /\ work \in [Owners -> [Jobs -> WorkRecords]]
        /\ \A o \in Owners, j \in Jobs : work[o][j].st = "none" /\ work[o][j].reservedAt = 0
    BY <1>1, NoWorkIsRecord DEF NoWorkRecord
  <1>10. marker \in [Jobs -> Markers]
    BY <1>1, NoMarkerIsMarker
  <1>11. TypeOK /\ CopiesAreGood
    <2>1. now \in 1 .. environment.until
      <3> DEFINE until == environment.until
      <3>1. now = 1 /\ until \in Nat \ {0}
        BY <1>1, <1>2
      <3> HIDE DEF until
      <3>2. now \in 1 .. until
        BY <3>1
      <3> QED
        BY <3>2 DEF until
    <2>2. IsStore(disk) /\ \A j \in DOMAIN disk : disk[j].enabled \/ disk[j].next = 0
      BY <1>4 DEF GoodStore
    <2>3. \A s \in Services : IsStore(mem[s])
      BY <1>5 DEF GoodStore
    <2> QED
      BY <1>1, <1>3, <1>5, <1>6, <1>8, <1>9, <1>10, <2>1, <2>2, <2>3
         DEF TypeOK, CopiesAreGood, SvcStates, ManualRuns, WorkRecords, Markers
  <1>12. OneService
    <2>1. \A s \in Services : s > 1 => s # 1
      BY ServicesAreNumbers
    <2> QED
      BY <1>1, <1>3, <1>6, <1>7, <2>1 DEF OneService, Dormant
  <1>13. TickShape /\ StartShape
    <2>1. \A t \in Services :
            /\ lock # Tick(t) /\ lock # Boot(t)
            /\ \A j \in Jobs : work[Tick(t)][j].st = "none" /\ work[Boot(t)][j].st = "none"
      BY <1>1, <1>9, OwnersApart
    <2>2. TickShape
      BY <1>7, <2>1 DEF TickShape, NoWorkOf
    <2>3. StartShape
      BY <1>7, <2>1 DEF StartShape, NoWorkOf
    <2> QED
      BY <2>2, <2>3
  <1>14. RunShape /\ RunWork /\ RunMark
    <2>1. \A m \in Manuals : lock # Manual(m) /\ manual[m].phase = "idle" /\ manual[m].at <= now
      <3>1. now = 1 /\ lock = None
        BY <1>1
      <3> QED
        BY <1>8, <3>1, OwnersApart
    <2>2. \A m \in Manuals, j \in Jobs : work[Manual(m)][j].st = "none"
      BY <1>9, OwnersApart
    <2> QED
      BY <2>1, <2>2 DEF RunShape, RunWork, RunMark
  <1>15. ReservedBefore /\ FirmHolds /\ OneWriter
    <2>1. now = 1
      BY <1>1
    <2> QED
      BY <1>9, <2>1 DEF ReservedBefore, FirmHolds, OneWriter, IsFirm
  <1>16. Synced
    <2>1. svc[current].loaded => mem[current] = disk
      BY <1>1, <1>3, <1>6
    <2> QED
      BY <2>1 DEF Synced, SameDefinitions
  <1> QED
    BY <1>11, <1>12, <1>13, <1>14, <1>15, <1>16 DEF CronInv

LEMMA WritesAreBoolean == Writes \subseteq BOOLEAN
  BY DEF Writes

LEMMA TickStepsKeep ==
    ASSUME CronInv, NEW s \in Services, TickSteps(s) PROVE CronInv'
  <1>1. CASE TimerFires(s)
    BY <1>1, TimerFiresStep
  <1>2. ASSUME NEW written \in Writes,
               TickLoads(s, written) \/ TickReserves(s, written)
                 \/ TickReleases(s, written) \/ TickFinalizes(s, written)
        PROVE  CronInv'
    BY <1>2, WritesAreBoolean, TickLoadsStep, TickReservesStep, TickReleasesStep,
       TickFinalizesStep
  <1>3. ASSUME NEW j \in Jobs, TickExecutes(s, j) PROVE CronInv'
    BY <1>3, TickExecutesStep
  <1> QED
    BY <1>1, <1>2, <1>3 DEF TickSteps

LEMMA StartStepsKeep ==
    ASSUME CronInv, NEW s \in Services, StartSteps(s) PROVE CronInv'
  <1>1. ASSUME NEW written \in Writes,
               StartLoads(s, written) \/ StartPlans(s, written)
                 \/ StartApplies(s, written) \/ StartArms(s, written)
        PROVE  CronInv'
    BY <1>1, WritesAreBoolean, StartLoadsStep, StartPlansStep, StartAppliesStep,
       StartArmsStep
  <1>2. ASSUME NEW j \in Jobs, StartExecutes(s, j) PROVE CronInv'
    BY <1>2, StartExecutesStep
  <1> QED
    BY <1>1, <1>2 DEF StartSteps

LEMMA RunStepsKeep ==
    ASSUME CronInv, NEW m \in Manuals, RunSteps(m) PROVE CronInv'
  <1>1. CASE Preflight(m)
    BY <1>1, PreflightStep
  <1>2. ASSUME NEW written \in Writes,
               PrepareRun(m, written) \/ RunReserved(m, written) \/ FinishRun(m, written)
        PROVE  CronInv'
    BY <1>2, WritesAreBoolean, PrepareRunStep, RunReservedStep, FinishRunStep
  <1> QED
    BY <1>1, <1>2 DEF RunSteps

LEMMA UserStepsKeep ==
    ASSUME CronInv, UserSteps PROVE CronInv'
  <1>1. ASSUME NEW m \in Manuals, NEW j \in Jobs, NEW forced \in BOOLEAN,
               AskRun(m, j, forced)
        PROVE  CronInv'
    BY <1>1, AskRunStep
  <1>2. ASSUME NEW written \in Writes, NEW j \in Jobs, Add(j, written) \/ Remove(j, written)
        PROVE  CronInv'
    BY <1>2, WritesAreBoolean, AddStep, RemoveStep
  <1>3. ASSUME NEW written \in Writes, NEW j \in Jobs,
               NEW patch \in {"toggle", "reschedule"}, Update(j, patch, written)
        PROVE  CronInv'
    BY <1>3, WritesAreBoolean, UpdateStep
  <1>4. ASSUME NEW written \in Writes, Read(written) PROVE CronInv'
    BY <1>4, WritesAreBoolean, ReadStep
  <1> QED
    BY <1>1, <1>2, <1>3, <1>4 DEF UserSteps

LEMMA NextStep ==
    ASSUME CronInv, [Next]_vars PROVE CronInv'
  <1>1. ASSUME NEW o \in Owners, NEW j \in Jobs, NEW outcome \in environment.outcomes,
               ExecutionEnds(o, j, outcome)
        PROVE  CronInv'
    BY <1>1, ExecutionEndsStep
  <1>2. CASE Advance
    BY <1>2, AdvanceStep
  <1>3. ASSUME NEW s \in Services, TickSteps(s) \/ StartSteps(s) PROVE CronInv'
    BY <1>3, TickStepsKeep, StartStepsKeep
  <1>4. ASSUME NEW m \in Manuals, RunSteps(m) PROVE CronInv'
    BY <1>4, RunStepsKeep
  <1>5. CASE UserSteps
    BY <1>5, UserStepsKeep
  <1>6. CASE GatewaySteps
    BY <1>6, ReloadCronStep, CloseServerStep, AdvanceGenerationStep, NextServerStep,
       CrashStep DEF GatewaySteps
  <1>7. CASE UNCHANGED vars
    BY <1>7 DEF vars, CronInv, TypeOK, CopiesAreGood, OneService, Dormant, TickShape,
       StartShape, NoWorkOf, RunShape, RunWork, RunMark, ReservedBefore, FirmHolds,
       OneWriter, Capable, Synced
  <1> QED
    BY <1>1, <1>2, <1>3, <1>4, <1>5, <1>6, <1>7 DEF Next

\* Every reachable state of the scheduler satisfies CronInv.
THEOREM Invariance == Spec => []CronInv
  <1>1. Init => CronInv
    BY InitIsGood
  <1>2. CronInv /\ [Next]_vars => CronInv'
    BY NextStep
  <1> QED
    BY <1>1, <1>2, PTL DEF Spec

-----------------------------------------------------------------------------
(* What the store never gains.                                             *)

\* A copy that is not stale has the jobs of the store, enabled where they are.
LEMMA CopyAddsNothing ==
    ASSUME CronInv, ~stale
    PROVE  /\ NothingNew(disk, Loaded(current))
           /\ svc[current].loaded => NothingNew(disk, mem[current])
  BY SameIsNothingNew DEF CronInv, Synced, Loaded, NothingNew

LEMMA PersistAddsNothing ==
    ASSUME NEW s, NEW store, NEW written, Persist(s, store, written),
           NothingNew(disk, store)
    PROVE  NothingNew(disk, disk')
  BY DEF Persist, NothingNew

LEMMA SameStoreAddsNothing ==
    ASSUME disk' = disk PROVE NothingNew(disk, disk')
  BY DEF NothingNew

LEMMA MaintainedAddsNothing ==
    ASSUME CronInv, NEW store, IsStore(store), NothingNew(disk, store), NEW e
    PROVE  NothingNew(disk, MaintainedStore(store, e))
  <1>1. now \in Nat /\ environment \in Environments
    BY TypeParts DEF CronInv
  <1>2. NothingNew(store, MaintainedStore(store, e))
    BY <1>1, MaintainedIsGood, SameIsNothingNew
  <1> QED
    BY <1>2, NothingNewChains

LEMMA ReleasedAddsNothing ==
    ASSUME NEW store, GoodStore(store), NothingNew(disk, store), NEW js, NEW o
    PROVE  NothingNew(disk, Released(store, js, o)) /\ IsStore(Released(store, js, o))
  <1>1. NothingNew(store, Released(store, js, o)) /\ IsStore(Released(store, js, o))
    BY ReleasedIsGood, SameIsNothingNew DEF GoodStore
  <1> QED
    BY <1>1, NothingNewChains

LEMMA ReservedAddsNothing ==
    ASSUME CronInv, NEW store, GoodStore(store), NothingNew(disk, store), NEW js,
           NEW o \in Owners
    PROVE  NothingNew(disk, Reserved(store, js, o))
  <1>1. now \in Nat
    BY TypeParts DEF CronInv
  <1>2. NothingNew(store, Reserved(store, js, o))
    BY <1>1, ReservedIsGood, SameIsNothingNew
  <1> QED
    BY <1>2, NothingNewChains

LEMMA AppliedAddsNothing ==
    ASSUME CronInv, NEW store, IsStore(store), NothingNew(disk, store), NEW o \in Owners,
           NEW js \in SUBSET {j \in Jobs : work[o][j].st = "ended" /\ work'[o][j].st = "none"}
    PROVE  NothingNew(disk, Applied(store, js, o)) /\ IsStore(Applied(store, js, o))
  <1>1. \A j \in Jobs : work[o][j] \in WorkRecords
    BY TypeParts DEF CronInv
  <1> DEFINE result == Applied(store, js, o)
  <1>2. /\ IsStore(result) /\ DOMAIN result \subseteq DOMAIN store
        /\ \A j \in DOMAIN result : result[j].enabled =>
             store[j].enabled \/ (j \in js /\ work[o][j].outcome = "disabled")
    BY <1>1, AppliedIsStore
  <1> HIDE DEF result
  <1>3. \A j \in js : work[o][j].outcome = "disabled" => RetriesDisabledHeartbeat(j)
    BY DEF RetriesDisabledHeartbeat
  <1>4. NothingNew(store, result)
    BY <1>2, <1>3 DEF NothingNew
  <1>5. NothingNew(disk, result)
    BY <1>4, NothingNewChains
  <1> QED
    BY <1>2, <1>5 DEF result

\* The records of an owner that is done
LEMMA WorkIsOver ==
    ASSUME CronInv, NEW o \in Owners, work' = [work EXCEPT ![o] = [j \in Jobs |-> NoWork]]
    PROVE  \A j \in Jobs : work'[o][j].st = "none"
  BY NoWorkIsRecord, TypeParts DEF CronInv, NoWorkRecord

\* A tick works with what it has just read.
LEMMA TickAddsNothing ==
    ASSUME CronInv, NEW s \in Services, TickSteps(s)
    PROVE  NothingNew(disk, disk')
  <1>1. /\ GoodStore(disk) /\ IsStore(disk) /\ NothingNew(disk, disk) /\ Tick(s) \in Owners
    BY TypeParts, OwnersApart DEF CronInv, NothingNew
  <1>2. CASE TimerFires(s)
    BY <1>2, SameStoreAddsNothing DEF TimerFires
  <1>3. ASSUME NEW written \in Writes, TickLoads(s, written) PROVE NothingNew(disk, disk')
    <2> DEFINE due == {j \in DOMAIN disk : IsRunnable(j, disk[j])}
    <2>1. \/ Reload(s)
          \/ Persist(s, MaintainedStore(disk, TRUE), written)
          \/ Persist(s, Reserved(disk, due, Tick(s)), written)
      BY <1>3 DEF TickLoads
    <2> HIDE DEF due
    <2>2. CASE Reload(s)
      BY <2>2, SameStoreAddsNothing DEF Reload
    <2>3. CASE Persist(s, MaintainedStore(disk, TRUE), written)
      BY <1>1, <2>3, MaintainedAddsNothing, PersistAddsNothing
    <2>4. CASE Persist(s, Reserved(disk, due, Tick(s)), written)
      BY <1>1, <2>4, ReservedAddsNothing, PersistAddsNothing
    <2> QED
      BY <2>1, <2>2, <2>3, <2>4
  <1>4. ASSUME NEW written \in Writes, TickReserves(s, written) PROVE NothingNew(disk, disk')
    <2> DEFINE js == JobsIn(Tick(s), "reserved")
               released == Released(mem[s], js, Tick(s))
    <2>1. mem[s] = disk
      BY <1>4 DEF TickReserves, CronInv, TickShape
    <2>2. disk' = disk \/ Persist(s, MaintainedStore(released, FALSE), written)
      BY <1>4 DEF TickReserves
    <2> HIDE DEF js
    <2>3. NothingNew(disk, released) /\ IsStore(released)
      BY <1>1, <2>1, ReleasedAddsNothing
    <2> HIDE DEF released
    <2> QED
      BY <2>2, <2>3, SameStoreAddsNothing, MaintainedAddsNothing, PersistAddsNothing
  <1>5. ASSUME NEW written \in Writes, TickReleases(s, written) PROVE NothingNew(disk, disk')
    <2> DEFINE js == JobsIn(Tick(s), "reserved")
               released == Released(disk, js, Tick(s))
    <2>1. Persist(s, MaintainedStore(released, FALSE), written)
      BY <1>5 DEF TickReleases
    <2> HIDE DEF js
    <2>2. NothingNew(disk, released) /\ IsStore(released)
      BY <1>1, ReleasedAddsNothing
    <2> HIDE DEF released
    <2> QED
      BY <2>1, <2>2, MaintainedAddsNothing, PersistAddsNothing
  <1>6. ASSUME NEW written \in Writes, TickFinalizes(s, written) PROVE NothingNew(disk, disk')
    <2> DEFINE js == {j \in JobsIn(Tick(s), "ended") : IsCurrent(Tick(s), j)} \cap DOMAIN disk
               applied == Applied(disk, js, Tick(s))
    <2>1. disk' = disk \/ Persist(s, MaintainedStore(applied, FALSE), written)
      BY <1>6 DEF TickFinalizes, NoStoreChange
    <2>3. work' = [work EXCEPT ![Tick(s)] = [j \in Jobs |-> NoWork]]
      BY <1>6 DEF TickFinalizes
    <2>4. js \in SUBSET {j \in Jobs : /\ work[Tick(s)][j].st = "ended"
                                     /\ work'[Tick(s)][j].st = "none"}
      BY <1>1, <2>3, WorkIsOver DEF JobsIn
    <2> HIDE DEF js
    <2>2. NothingNew(disk, applied) /\ IsStore(applied)
      BY <1>1, <2>4, AppliedAddsNothing
    <2> HIDE DEF applied
    <2> QED
      BY <2>1, <2>2, SameStoreAddsNothing, MaintainedAddsNothing, PersistAddsNothing
  <1>7. ASSUME NEW j \in Jobs, TickExecutes(s, j) PROVE NothingNew(disk, disk')
    BY <1>7, SameStoreAddsNothing DEF TickExecutes
  <1> QED
    BY <1>2, <1>3, <1>4, <1>5, <1>6, <1>7 DEF TickSteps

\* A start that is not stopped is the one of the day, whose copy is not stale.
LEMMA StartAddsNothing ==
    ASSUME CronInv, ~stale, NEW s \in Services, StartSteps(s)
    PROVE  NothingNew(disk, disk')
  <1>1. /\ GoodStore(disk) /\ NothingNew(disk, disk) /\ Boot(s) \in Owners
        /\ now \in Nat
    BY TypeParts, OwnersApart DEF CronInv, NothingNew
  <1>2. ASSUME ~svc[s].stopped, svc[s].phase # "new"
        PROVE  /\ s = current
               /\ NothingNew(disk, Loaded(s)) /\ GoodStore(Loaded(s))
               /\ svc[s].loaded => NothingNew(disk, mem[s]) /\ GoodStore(mem[s])
    BY <1>1, <1>2, WhoActs, CopyAddsNothing, EditFacts, TypeParts DEF CronInv
  <1>3. ASSUME NEW written \in Writes, StartLoads(s, written) PROVE NothingNew(disk, disk')
    <2> DEFINE store == Loaded(s)
               found == {j \in DOMAIN store : store[j].running # None}
    <2>1. \/ disk' = disk
          \/ /\ ~svc[s].stopped /\ svc[s].phase = "load"
             /\ Persist(s, AfterStart(store, found), written)
      BY <1>3 DEF StartLoads, NoStoreChange, AfterStart
    <2>2. CASE disk' = disk
      BY <2>2, SameStoreAddsNothing
    <2>3. CASE /\ ~svc[s].stopped /\ svc[s].phase = "load"
               /\ Persist(s, AfterStart(store, found), written)
      <3>1. NothingNew(disk, store) /\ GoodStore(store)
        BY <1>2, <2>3
      <3> HIDE DEF store, found
      <3>2. NothingNew(disk, AfterStart(store, found))
        BY <1>1, <3>1, AfterStartIsGood, NothingNewChains
      <3> QED
        BY <2>3, <3>2, PersistAddsNothing
    <2> QED
      BY <2>1, <2>2, <2>3
  <1>4. ASSUME NEW written \in Writes, StartPlans(s, written) PROVE NothingNew(disk, disk')
    <2>1. \/ disk' = disk
          \/ /\ ~svc[s].stopped /\ svc[s].phase = "plan"
             /\ \E chosen : Persist(s, Reserved(mem[s], chosen, Boot(s)), written)
      BY <1>4 DEF StartPlans, NoStoreChange
    <2>2. CASE disk' = disk
      BY <2>2, SameStoreAddsNothing
    <2>3. CASE /\ ~svc[s].stopped /\ svc[s].phase = "plan"
               /\ \E chosen : Persist(s, Reserved(mem[s], chosen, Boot(s)), written)
      <3>1. PICK chosen : Persist(s, Reserved(mem[s], chosen, Boot(s)), written)
        BY <2>3
      <3>2. NothingNew(disk, mem[s]) /\ GoodStore(mem[s])
        BY <1>2, <2>3 DEF CronInv, StartShape
      <3> QED
        BY <1>1, <3>1, <3>2, ReservedAddsNothing, PersistAddsNothing
    <2> QED
      BY <2>1, <2>2, <2>3
  <1>5. ASSUME NEW written \in Writes, StartApplies(s, written) PROVE NothingNew(disk, disk')
    <2> DEFINE o == Boot(s)
               stopped == svc[s].stopped
               store == IF stopped THEN disk ELSE mem[s]
               released == Released(store, JobsIn(o, "reserved"), o)
               js == {j \in JobsIn(o, "ended") : ~stopped /\ IsCurrent(o, j)} \cap DOMAIN store
               later == IF stopped THEN {} ELSE svc[s].deferred
               applied == Applied(released, js, o)
               put == [j \in DOMAIN applied |->
                         IF j \in later /\ applied[j].enabled
                         THEN [applied[j] EXCEPT !.next = now + 1] ELSE applied[j]]
    <2>1. /\ disk' = disk \/ Persist(s, MaintainedStore(put, FALSE), written)
          /\ svc[s].phase = "catchup"
      BY <1>5 DEF StartApplies, NoStoreChange, Reload
    <2>2. NothingNew(disk, store) /\ GoodStore(store)
      <3>1. CASE stopped
        BY <1>1, <3>1
      <3>2. CASE ~stopped
        BY <1>2, <2>1, <3>2 DEF CronInv, StartShape
      <3> QED
        BY <3>1, <3>2
    <2> HIDE DEF store, later
    <2>3. NothingNew(disk, released) /\ IsStore(released)
      BY <2>2, ReleasedAddsNothing
    <2>6. work' = [work EXCEPT ![o] = [j \in Jobs |-> NoWork]]
      BY <1>5 DEF StartApplies
    <2>7. js \in SUBSET {j \in Jobs : work[o][j].st = "ended" /\ work'[o][j].st = "none"}
      BY <1>1, <2>6, WorkIsOver DEF JobsIn
    <2> HIDE DEF released, js
    <2>4. NothingNew(disk, applied) /\ IsStore(applied)
      BY <1>1, <2>3, <2>7, AppliedAddsNothing
    <2> HIDE DEF applied
    <2>5. NothingNew(disk, put) /\ IsStore(put)
      <3>1. \A j \in DOMAIN applied : put[j] \in Row /\ put[j].enabled = applied[j].enabled
        BY <1>1, <2>4 DEF IsStore, Row
      <3>2. DOMAIN put = DOMAIN applied /\ IsStore(put)
        BY <2>4, <3>1 DEF IsStore
      <3> HIDE DEF put
      <3> QED
        BY <2>4, <3>1, <3>2 DEF NothingNew
    <2> HIDE DEF put
    <2> QED
      BY <2>1, <2>5, SameStoreAddsNothing, MaintainedAddsNothing, PersistAddsNothing
  <1>6. ASSUME NEW written \in Writes, StartArms(s, written) PROVE NothingNew(disk, disk')
    <2>1. \/ disk' = disk
          \/ /\ ~svc[s].stopped /\ svc[s].phase = "arm"
             /\ Persist(s, MaintainedStore(mem[s], TRUE), written)
      BY <1>6 DEF StartArms, NoStoreChange
    <2>2. CASE disk' = disk
      BY <2>2, SameStoreAddsNothing
    <2>3. CASE /\ ~svc[s].stopped /\ svc[s].phase = "arm"
               /\ Persist(s, MaintainedStore(mem[s], TRUE), written)
      <3>1. NothingNew(disk, mem[s]) /\ IsStore(mem[s])
        BY <1>2, <2>3 DEF CronInv, StartShape, GoodStore
      <3> QED
        BY <2>3, <3>1, MaintainedAddsNothing, PersistAddsNothing
    <2> QED
      BY <2>1, <2>2, <2>3
  <1>7. ASSUME NEW j \in Jobs, StartExecutes(s, j) PROVE NothingNew(disk, disk')
    BY <1>7, SameStoreAddsNothing DEF StartExecutes
  <1> QED
    BY <1>3, <1>4, <1>5, <1>6, <1>7 DEF StartSteps

\* A manual run of the service of the day works with a copy that is not stale.
LEMMA RunAddsNothing ==
    ASSUME CronInv, ~stale, NEW m \in Manuals, RunSteps(m),
           ~(manual[m].phase = "running" /\ manual[m].service # current)
    PROVE  NothingNew(disk, disk')
  <1> DEFINE s == manual[m].service
             j == manual[m].job
             o == Manual(m)
  <1>1. /\ GoodStore(disk) /\ IsStore(disk) /\ NothingNew(disk, disk) /\ o \in Owners
        /\ j \in Jobs /\ current \in Services /\ GoodStore(mem[current])
        /\ work \in [Owners -> [Jobs -> WorkRecords]]
    BY TypeParts, RunFacts DEF CronInv, NothingNew
  <1>2. CASE Preflight(m)
    BY <1>2, SameStoreAddsNothing DEF Preflight
  <1>3. ASSUME NEW written \in Writes, PrepareRun(m, written) PROVE NothingNew(disk, disk')
    <2> DEFINE store == [mem[s] EXCEPT ![j].running = o, ![j].runningAt = manual[m].at]
    <2>1. \/ disk' = disk
          \/ ~svc[s].stopped /\ j \in DOMAIN mem[s] /\ Persist(s, store, written)
      BY <1>3 DEF PrepareRun, MayReserve, NoStoreChange
    <2>2. manual[m].phase = "prepare"
      BY <1>3 DEF PrepareRun
    <2>3. CASE disk' = disk
      BY <2>3, SameStoreAddsNothing
    <2>4. CASE ~svc[s].stopped /\ j \in DOMAIN mem[s] /\ Persist(s, store, written)
      <3>1. s \in Services /\ svc[s].phase # "new" /\ svc[s].loaded
        BY <2>2, RunFacts
      <3>2. s = current
        BY <2>4, <3>1, WhoActs DEF CronInv
      <3>3. NothingNew(disk, mem[s])
        BY <3>1, <3>2, CopyAddsNothing
      <3>4. \A i \in DOMAIN mem[s] : mem[s][i] \in Row
        BY <1>1, <3>2 DEF GoodStore, IsStore
      <3>5. NothingNew(mem[s], store)
        BY <2>4, <3>4 DEF NothingNew, Row
      <3> QED
        BY <2>4, <3>3, <3>5, NothingNewChains, PersistAddsNothing
    <2> QED
      BY <2>1, <2>3, <2>4
  <1>4. ASSUME NEW written \in Writes, RunReserved(m, written) PROVE NothingNew(disk, disk')
    <2>1. disk' = disk \/ Persist(s, Released(disk, {j}, o), written)
      BY <1>4 DEF RunReserved, NoStoreChange
    <2>2. NothingNew(disk, Released(disk, {j}, o))
      BY <1>1, ReleasedAddsNothing
    <2> QED
      BY <2>1, <2>2, SameStoreAddsNothing, PersistAddsNothing
  <1>5. ASSUME NEW written \in Writes, FinishRun(m, written) PROVE NothingNew(disk, disk')
    <2> DEFINE w == work[o][j]
               kept == Remaining(disk, IF Deletes(j, w) THEN {j} ELSE {})
               result == ApplyJobResult(j, mem[s][j], w, manual[m].forced)
               merged == [i \in DOMAIN kept |->
                            IF i = j THEN Merged(kept[j], result) ELSE kept[i]]
    <2>1. /\ w.st = "ended"
          /\ \/ disk' = disk
             \/ j \in DOMAIN mem[s] /\ Persist(s, MaintainedStore(merged, TRUE), written)
      BY <1>5 DEF FinishRun, NoStoreChange
    <2>2. manual[m].phase = "running"
      BY <1>1, <2>1 DEF CronInv, RunWork
    <2>3. s = current /\ svc[s].loaded
      BY <2>2, RunFacts
    <2>4. CASE disk' = disk
      BY <2>4, SameStoreAddsNothing
    <2>5. CASE j \in DOMAIN mem[s] /\ Persist(s, MaintainedStore(merged, TRUE), written)
      <3>1. mem[s][j] \in Row /\ w \in WorkRecords
        BY <1>1, <2>3, <2>5 DEF GoodStore, IsStore
      <3>2. /\ result \in Row
            /\ result.enabled => mem[s][j].enabled \/ w.outcome = "disabled"
        BY <1>1, <3>1, ApplyJobResultIsRow
      <3>7. w.outcome = "disabled" => RetriesDisabledHeartbeat(j)
        <4>1. work'[o][j].st = "none"
          <5>1. work' = [work EXCEPT ![o][j] = NoWork]
            BY <1>5 DEF FinishRun
          <5> QED
            BY <1>1, <5>1, NoWorkIsRecord DEF NoWorkRecord
        <4> QED
          BY <1>1, <2>1, <4>1 DEF RetriesDisabledHeartbeat
      <3>3. j \in DOMAIN disk => mem[s][j].enabled = disk[j].enabled
        BY <2>3 DEF CronInv, Synced, SameDefinitions
      <3>4. GoodStore(kept) /\ DOMAIN kept \subseteq DOMAIN disk
            /\ \A i \in DOMAIN kept : kept[i] = disk[i]
        BY <1>1, RemainingIsGood DEF Remaining
      <3> HIDE DEF result, kept, w, s
      <3>5. j \in DOMAIN kept =>
              /\ Merged(kept[j], result) \in Row
              /\ Merged(kept[j], result).enabled =>
                   disk[j].enabled \/ RetriesDisabledHeartbeat(j)
        BY <3>2, <3>3, <3>4, <3>7 DEF Merged, GoodStore, IsStore, Row
      <3>6. IsStore(merged) /\ NothingNew(disk, merged)
        BY <3>4, <3>5 DEF GoodStore, IsStore, NothingNew
      <3> HIDE DEF merged
      <3> QED
        BY <2>5, <3>6, MaintainedAddsNothing, PersistAddsNothing
    <2> QED
      BY <2>1, <2>4, <2>5
  <1> QED
    BY <1>2, <1>3, <1>4, <1>5 DEF RunSteps

LEMMA UserAddsNothing ==
    ASSUME CronInv, ~stale, UserSteps, edits' = edits
    PROVE  NothingNew(disk, disk')
  <1>1. edits \in Nat /\ edits # edits + 1
    BY EditFacts
  <1>2. ASSUME NEW edited, NEW written, Edit(edited, written) PROVE FALSE
    BY <1>1, <1>2 DEF Edit
  <1>3. ASSUME NEW m \in Manuals, NEW j \in Jobs, NEW forced \in BOOLEAN,
               AskRun(m, j, forced)
        PROVE  NothingNew(disk, disk')
    BY <1>3, SameStoreAddsNothing DEF AskRun
  <1>4. ASSUME NEW written \in Writes, NEW j \in Jobs, Add(j, written) \/ Remove(j, written)
        PROVE  FALSE
    BY <1>2, <1>4 DEF Add, Remove
  <1>5. ASSUME NEW written \in Writes, NEW j \in Jobs,
               NEW patch \in {"toggle", "reschedule"}, Update(j, patch, written)
        PROVE  FALSE
    BY <1>2, <1>5 DEF Update
  <1>6. ASSUME NEW written \in Writes, Read(written) PROVE NothingNew(disk, disk')
    <2>1. Persist(current, MaintainedStore(Loaded(current), FALSE), written)
      BY <1>6 DEF Read
    <2>2. NothingNew(disk, Loaded(current)) /\ IsStore(Loaded(current))
      BY CopyAddsNothing, EditFacts
    <2> QED
      BY <2>1, <2>2, MaintainedAddsNothing, PersistAddsNothing
  <1> QED
    BY <1>3, <1>4, <1>5, <1>6 DEF UserSteps

\* The action that EditsStand allows
EditsStandStep ==
    \A j \in DOMAIN disk' :
      \/ j \notin DOMAIN disk
      \/ ~disk[j].enabled /\ disk'[j].enabled /\ ~RetriesDisabledHeartbeat(j)
      => \/ edits' # edits \/ stale
         \/ \E m \in Manuals : manual[m].phase = "running" /\ manual[m].service # current

LEMMA NextStands ==
    ASSUME CronInv, [Next]_vars PROVE EditsStandStep
  <1> SUFFICES ASSUME edits' = edits, ~stale,
                      \A m \in Manuals :
                        ~(manual[m].phase = "running" /\ manual[m].service # current)
               PROVE  NothingNew(disk, disk')
    BY DEF EditsStandStep, NothingNew
  <1>1. ASSUME NEW o \in Owners, NEW j \in Jobs, NEW outcome \in environment.outcomes,
               ExecutionEnds(o, j, outcome)
        PROVE  NothingNew(disk, disk')
    BY <1>1, SameStoreAddsNothing DEF ExecutionEnds
  <1>2. CASE Advance
    BY <1>2, SameStoreAddsNothing DEF Advance
  <1>3. ASSUME NEW s \in Services, TickSteps(s) \/ StartSteps(s)
        PROVE  NothingNew(disk, disk')
    BY <1>3, TickAddsNothing, StartAddsNothing
  <1>4. ASSUME NEW m \in Manuals, RunSteps(m) PROVE NothingNew(disk, disk')
    BY <1>4, RunAddsNothing
  <1>5. CASE UserSteps
    BY <1>5, UserAddsNothing
  <1>6. CASE GatewaySteps
    <2>1. disk' = disk
      BY <1>6 DEF GatewaySteps, ReloadCron, CloseServer, AdvanceGeneration, NextServer, Crash
    <2> QED
      BY <2>1, SameStoreAddsNothing
  <1>7. CASE UNCHANGED vars
    BY <1>7, SameStoreAddsNothing DEF vars
  <1> QED
    BY <1>1, <1>2, <1>3, <1>4, <1>5, <1>6, <1>7 DEF Next

-----------------------------------------------------------------------------
(* The results.                                                            *)

\* A run that is under way and was not let go counts.
LEMMA NotLetGoIsFirm ==
    ASSUME CronInv, NEW o \in Owners, NEW j \in Jobs,
           work[o][j].st # "none", ~LetGo(o, j)
    PROVE  IsFirm(work[o][j], now, environment.stuck)
  <1>1. /\ now \in Nat /\ environment.stuck \in Nat /\ work[o][j] \in WorkRecords
    BY TypeParts DEF CronInv
  <1>2. work[o][j].reservedAt \in Nat
    BY <1>1 DEF WorkRecords
  <1> QED
    BY <1>1, <1>2 DEF LetGo, IsFirm

\* Rows, services, runs, records and markers keep their types; in the store a
\* disabled job never has a next run time.
THEOREM TypeIsOK == Spec => []TypeOK
  <1>1. CronInv => TypeOK
    BY DEF CronInv
  <1> QED
    BY <1>1, Invariance, PTL

\* Whatever ticks, startup catch-ups, manual runs, edits, failed writes, hot
\* reloads, restarts and crashes do, no job is executed twice at once, unless
\* the store was allowed to show one of the two executions as over: the running
\* mark that each reservation writes keeps the others away.
THEOREM NothingOverlaps == Spec => []NoOverlap
  <1>1. CronInv => NoOverlap
    <2> SUFFICES ASSUME CronInv, NEW j \in Jobs, NEW o \in Owners, NEW p \in Owners,
                        o # p, work[o][j].st = "executing", work[p][j].st = "executing",
                        ~LetGo(o, j), ~LetGo(p, j)
                 PROVE  FALSE
      BY DEF NoOverlap
    <2>1. /\ IsFirm(work[o][j], now, environment.stuck)
          /\ IsFirm(work[p][j], now, environment.stuck)
      BY NotLetGoIsFirm
    <2>2. disk[j].running = o /\ disk[j].running = p
      BY <2>1 DEF CronInv, FirmHolds, Holds
    <2> QED
      BY <2>2
  <1> QED
    BY <1>1, Invariance, PTL

\* The running mark of an execution that was not let go stays in the store
\* until its own outcome is recorded: no other outcome, release, catch-up or
\* maintenance clears it.
THEOREM MarksStand == Spec => []MarkStands
  <1>1. CronInv => MarkStands
    <2> SUFFICES ASSUME CronInv, NEW j \in Jobs, NEW o \in Owners,
                        work[o][j].st \in {"executing", "ended"}, ~LetGo(o, j)
                 PROVE  j \in DOMAIN disk /\ disk[j].running = o
      BY DEF MarkStands
    <2>1. IsFirm(work[o][j], now, environment.stuck)
      BY NotLetGoIsFirm
    <2> QED
      BY <2>1 DEF CronInv, FirmHolds, Holds
  <1> QED
    BY <1>1, Invariance, PTL

\* The copy that the operations of the service of the day trust has the jobs
\* and the definitions of the store, although writes fail and ticks, catch-ups
\* and manual runs end in any order.
THEOREM CopyKeepsUp == Spec => []CopyInSync
  <1>1. CronInv => CopyInSync
    BY DEF CronInv, Synced, SameDefinitions, CopyInSync
  <1> QED
    BY <1>1, Invariance, PTL

\* No outcome, catch-up or maintenance enables a job that the user disabled
\* meanwhile or brings back one that was removed, except from the old copy of a
\* manual run that outlives its service, and except for the outcome with which
\* a one-shot job of the main session is to be tried again because heartbeats
\* are disabled: that one does enable its job, as timer.ts:814 says.
THEOREM EditsAreKept == Spec => EditsStand
  <1>1. CronInv /\ [Next]_vars => [EditsStandStep]_vars
    BY NextStands
  <1>2. []CronInv /\ [][Next]_vars => [][EditsStandStep]_vars
    BY <1>1, PTL
  <1>3. Spec => [][EditsStandStep]_vars
    BY <1>2, Invariance, PTL DEF Spec
  <1> QED
    BY <1>3 DEF EditsStand, EditsStandStep
=============================================================================
