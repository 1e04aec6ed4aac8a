----------------------- MODULE CommandQueueAnswerProofs -----------------------
(***************************************************************************)
(* Theorems about what the command queue promises to those who wait: the   *)
(* callers of commands, the waiters of waitForActiveTasks, and the         *)
(* commands in a queue.  They rest on the invariant of CommandQueueProofs. *)
(***************************************************************************)
EXTENDS CommandQueueProofs

-----------------------------------------------------------------------------
(* What drainLane does, beyond what keeps the tables in agreement.         *)

\* As many commands as positions
LEMMA CountHead ==
    ASSUME NEW S, NEW s \in Seq(S), Distinct(s), NEW n \in 0 .. Len(s)
    PROVE  /\ IsFiniteSet({s[i] : i \in 1 .. n})
           /\ Cardinality({s[i] : i \in 1 .. n}) = n
<1> DEFINE T == {s[i] : i \in 1 .. n}
           f == [i \in 1 .. n |-> s[i]]
<1>1. n \in Nat /\ 1 .. n \subseteq DOMAIN s
  OBVIOUS
<1>2. f \in Bijection(1 .. n, T)
  BY <1>1 DEF Bijection, Injection, Surjection, IsInjective, Distinct
<1>3. ExistsBijection(1 .. n, T)
  BY <1>2 DEF ExistsBijection
<1>4. Cardinality(T) = n
  BY <1>1, <1>3, FS_CountingElements
<1>5. IsFiniteSet(T)
  BY <1>1, <1>3, FS_NatBijection
<1> QED BY <1>4, <1>5

\* What drainLane leaves behind when it is called for the lanes ls on the
\* tables ents, q and active
Pumped(ls, ents, q, active, limit, gen) ==
    /\ \A e \in Entries :
         \/ entry'[e] = ents[e]
         \/ /\ ents[e].status = "queued"
            /\ entry'[e] = Started(ents[e], e, gen[ents[e].lane])
    /\ \A l \in Lanes : active[l] \subseteq activeTaskIds'[l]
    /\ \A l \in Lanes : \A e \in activeTaskIds'[l] \ active[l] :
         /\ e \in Entries
         /\ ents[e].status = "queued"
         /\ \A d \in Entries :
              entry'[d].status = "queued" /\ entry'[d].lane = l
                => GoesBefore(entry'[e], entry'[d])
    /\ \A l \in Lanes :
         IF l \in ls
         THEN queue'[l] # << >> => Cardinality(activeTaskIds'[l]) >= limit[l]
         ELSE queue'[l] = q[l] /\ activeTaskIds'[l] = active[l]

\* pump() starts the first commands of the queue, until the slots or the
\* commands are used up.
LEMMA DrainStarts ==
    ASSUME NEW ls \in SUBSET Lanes, NEW ents, NEW q, NEW active,
           NEW limit \in [Lanes -> Nat], NEW gen \in [Lanes -> Nat],
           NEW next \in Nat,
           Core(ents, q, active, gen, next),
           Drain(ls, ents, q, active, limit, gen)
    PROVE  Pumped(ls, ents, q, active, limit, gen)
<1> DEFINE n == [l \in Lanes |->
                   IF l \in ls THEN Startable(q[l], active[l], limit[l]) ELSE 0]
           heads == [l \in Lanes |-> ToSet(SubSeq(q[l], 1, n[l]))]
           starts(e) == \E l \in Lanes : e \in heads[l]
<1>1. Typed(ents, q, active) /\ QueuesMatch(ents, q) /\ QueuesOrdered(ents, q)
      /\ SlotsMatch(ents, active, gen)
  BY DEF Core
<1>2. ASSUME NEW l \in Lanes
      PROVE  n[l] \in 0 .. Len(q[l])
  <2>1. q[l] \in Seq(Entries) /\ active[l] \in SUBSET Entries /\ limit[l] \in Nat
    BY <1>1 DEF Typed
  <2> QED BY <2>1, StartableInQueue
<1>3. /\ queue' = [l \in Lanes |-> SubSeq(q[l], n[l] + 1, Len(q[l]))]
      /\ activeTaskIds' = [l \in Lanes |-> active[l] \cup heads[l]]
      /\ entry' = [e \in Entries |->
                     IF starts(e) THEN Started(ents[e], e, gen[ents[e].lane])
                     ELSE ents[e]]
  BY DEF Drain
<1>n. ASSUME NEW l \in Lanes
      PROVE  n[l] = IF l \in ls THEN Startable(q[l], active[l], limit[l]) ELSE 0
  OBVIOUS
<1>h. ASSUME NEW l \in Lanes
      PROVE  heads[l] = ToSet(SubSeq(q[l], 1, n[l]))
  OBVIOUS
<1> HIDE DEF n, heads
<1>4. ASSUME NEW l \in Lanes
      PROVE  /\ heads[l] = {q[l][i] : i \in 1 .. n[l]}
             /\ queue'[l] \in Seq(Entries)
             /\ Len(queue'[l]) = Len(q[l]) - n[l]
             /\ \A i \in DOMAIN queue'[l] :
                  i + n[l] \in DOMAIN q[l] /\ queue'[l][i] = q[l][i + n[l]]
             /\ ToSet(q[l]) = heads[l] \cup ToSet(queue'[l])
             /\ heads[l] \cap ToSet(queue'[l]) = {}
  <2> DEFINE s == q[l]
             k == n[l]
             head == SubSeq(s, 1, k)
             rest == SubSeq(s, k + 1, Len(s))
  <2>1. s \in Seq(Entries) /\ Distinct(s) /\ k \in 0 .. Len(s)
    BY <1>1, <1>2 DEF Typed, QueuesMatch
  <2>2. heads[l] = ToSet(head) /\ queue'[l] = rest
    BY <1>3, <1>h
  <2> HIDE DEF s, k
  <2>3. /\ rest \in Seq(Entries)
        /\ Len(rest) = Len(s) - k
        /\ \A i \in DOMAIN rest : i + k \in DOMAIN s /\ rest[i] = s[i + k]
        /\ ToSet(head) = {s[i] : i \in 1 .. k}
        /\ ToSet(s) = ToSet(head) \cup ToSet(rest)
        /\ ToSet(head) \cap ToSet(rest) = {}
    BY <2>1, CutQueue
  <2> HIDE DEF head, rest
  <2> QED BY <2>2, <2>3 DEF s, k
<1>5. ASSUME NEW l \in Lanes, NEW e \in heads[l]
      PROVE  /\ e \in Entries
             /\ ents[e].status = "queued"
             /\ ents[e].lane = l
             /\ e \notin active[l]
             /\ \A m \in Lanes : e \notin ToSet(queue'[m])
  <2>1. e \in ToSet(q[l])
    BY <1>4
  <2>2. e \in Entries
    BY <1>1, <2>1, ToSetType DEF Typed
  <2>3. ents[e].status = "queued" /\ ents[e].lane = l
    BY <1>1, <2>1, <2>2 DEF QueuesMatch
  <2>4. e \notin active[l]
    BY <1>1, <2>2, <2>3 DEF SlotsMatch
  <2>5. ASSUME NEW m \in Lanes, e \in ToSet(queue'[m])
        PROVE  FALSE
    <3>1. e \in ToSet(q[m])
      BY <1>4, <2>5
    <3>2. m = l
      BY <1>1, <2>2, <2>3, <3>1 DEF QueuesMatch
    <3> QED BY <1>4, <1>5, <2>5, <3>2
  <2> QED BY <2>2, <2>3, <2>4, <2>5
<1>6. ASSUME NEW e \in Entries
      PROVE  \/ entry'[e] = ents[e]
             \/ /\ ents[e].status = "queued"
                /\ entry'[e] = Started(ents[e], e, gen[ents[e].lane])
  BY <1>3, <1>5
<1>7. ASSUME NEW e \in Entries
      PROVE  /\ entry'[e].priority = ents[e].priority
             /\ entry'[e].sequence = ents[e].sequence
             /\ entry'[e].lane = ents[e].lane
             /\ entry'[e].status = "queued" => ents[e].status = "queued" /\ ~starts(e)
  <2>1. ents[e] \in Entry
    BY <1>1 DEF Typed
  <2> QED BY <1>3, <1>6, <2>1 DEF Started, Entry
<1>8. ASSUME NEW l \in Lanes, NEW e \in activeTaskIds'[l] \ active[l]
      PROVE  /\ e \in Entries
             /\ ents[e].status = "queued"
             /\ \A d \in Entries :
                  entry'[d].status = "queued" /\ entry'[d].lane = l
                    => GoesBefore(entry'[e], entry'[d])
  <2>1. e \in heads[l]
    BY <1>3
  <2>2. e \in Entries /\ ents[e].status = "queued"
    BY <1>5, <2>1
  <2>3. ASSUME NEW d \in Entries, entry'[d].status = "queued", entry'[d].lane = l
        PROVE  GoesBefore(entry'[e], entry'[d])
    <3>1. ents[d].status = "queued" /\ ents[d].lane = l /\ d \notin heads[l]
      BY <1>7, <2>3
    <3>2. d \in ToSet(queue'[l])
      BY <1>1, <1>4, <3>1 DEF QueuesMatch
    <3>0. heads[l] = {q[l][i] : i \in 1 .. n[l]}
      BY <1>4
    <3>3. PICK i \in 1 .. n[l] : e = q[l][i]
      BY <2>1, <3>0
    <3>4. PICK k \in DOMAIN queue'[l] : d = queue'[l][k]
      BY <3>2 DEF ToSet
    <3>5. k + n[l] \in DOMAIN q[l] /\ d = q[l][k + n[l]]
      BY <1>4, <3>4
    <3>6. i \in DOMAIN q[l] /\ i < k + n[l]
      <4>1. q[l] \in Seq(Entries) /\ DOMAIN q[l] = 1 .. Len(q[l])
        BY <1>1 DEF Typed
      <4>2. k \in 1 .. Len(queue'[l])
        BY <1>4
      <4>3. n[l] \in 0 .. Len(q[l]) /\ Len(q[l]) \in Nat
        BY <1>2, <4>1
      <4>4. i \in 1 .. Len(q[l])
        BY <3>3, <4>3
      <4>5. k \in Nat /\ k >= 1
        BY <4>2
      <4> QED BY <3>3, <4>1, <4>3, <4>4, <4>5
    <3>7. GoesBefore(ents[e], ents[d])
      BY <1>1, <3>3, <3>5, <3>6 DEF QueuesOrdered
    <3> QED BY <1>7, <2>2, <3>7 DEF GoesBefore
  <2> QED BY <2>2, <2>3
<1>9. ASSUME NEW l \in Lanes, l \in ls, queue'[l] # << >>
      PROVE  Cardinality(activeTaskIds'[l]) >= limit[l]
  <2>1. /\ q[l] \in Seq(Entries) /\ Distinct(q[l])
        /\ active[l] \in SUBSET Entries
        /\ limit[l] \in Nat
        /\ Len(q[l]) \in Nat
        /\ n[l] \in 0 .. Len(q[l])
    BY <1>1, <1>2 DEF Typed, QueuesMatch
  <2>2. IsFiniteSet(active[l]) /\ Cardinality(active[l]) \in Nat
    BY <2>1, ConstantsAssumption, FS_Subset, FS_CardinalityType
  <2>3. IsFiniteSet(heads[l]) /\ Cardinality(heads[l]) = n[l]
    <3> DEFINE s == q[l]
               k == n[l]
               head == {s[i] : i \in 1 .. k}
    <3>1. heads[l] = head
      BY <1>4
    <3>2. s \in Seq(Entries) /\ Distinct(s) /\ k \in 0 .. Len(s)
      BY <2>1
    <3> HIDE DEF s, k
    <3>3. IsFiniteSet(head) /\ Cardinality(head) = k
      BY <3>2, CountHead
    <3> HIDE DEF head
    <3> QED BY <3>1, <3>3 DEF k
  <2>4. active[l] \cap heads[l] = {}
    BY <1>5
  <2>5. Cardinality(activeTaskIds'[l]) = Cardinality(active[l]) + n[l]
    <3>1. Cardinality(active[l] \cup heads[l])
            = Cardinality(active[l]) + Cardinality(heads[l])
                - Cardinality(active[l] \cap heads[l])
      BY <2>2, <2>3, FS_Union
    <3>2. Cardinality(active[l] \cap heads[l]) = 0
      BY <2>4, FS_EmptySet
    <3> QED BY <1>3, <2>1, <2>2, <2>3, <3>1, <3>2
  <2>6. n[l] < Len(q[l])
    <3>1. queue'[l] \in Seq(Entries) /\ Len(queue'[l]) = Len(q[l]) - n[l]
      BY <1>4
    <3>2. Len(queue'[l]) \in Nat \ {0}
      BY <1>9, <3>1, EmptySeq
    <3> QED BY <2>1, <3>1, <3>2
  <2>7. n[l] = Startable(q[l], active[l], limit[l])
    BY <1>9, <1>n
  <2> DEFINE c == Cardinality(active[l])
  <2>8. /\ c \in Nat /\ limit[l] \in Nat /\ n[l] \in Nat
        /\ n[l] < Len(q[l]) /\ Len(q[l]) \in Nat
        /\ n[l] = IF limit[l] - c <= 0 THEN 0
                  ELSE IF limit[l] - c < Len(q[l]) THEN limit[l] - c ELSE Len(q[l])
    BY <2>1, <2>2, <2>6, <2>7 DEF Startable
  <2> HIDE DEF c
  <2>9. c + n[l] >= limit[l]
    BY <2>8
  <2> QED BY <2>5, <2>9 DEF c
<1>10. ASSUME NEW l \in Lanes, l \notin ls
       PROVE  queue'[l] = q[l] /\ activeTaskIds'[l] = active[l]
  <2>1. n[l] = 0
    BY <1>10, <1>n
  <2>2. heads[l] = {}
    BY <1>4, <2>1
  <2>3. queue'[l] = SubSeq(q[l], 1, Len(q[l]))
    BY <1>3, <2>1
  <2>4. q[l] \in Seq(Entries)
    BY <1>1 DEF Typed
  <2>5. SubSeq(q[l], 1, Len(q[l])) = q[l]
    <3> DEFINE s == q[l]
    <3>1. s \in Seq(Entries)
      BY <2>4
    <3> HIDE DEF s
    <3>2. SubSeq(s, 1, Len(s)) = s
      BY <3>1
    <3> QED BY <3>2 DEF s
  <2> QED BY <1>3, <2>2, <2>3, <2>5
<1> QED BY <1>3, <1>6, <1>8, <1>9, <1>10 DEF Pumped

-----------------------------------------------------------------------------
(* The steps that pump lanes.                                              *)

\* What a step did that called drainLane for the lanes ls, after it had made
\* the tables ents, q and active: it has touched no other lane, and freed
\* slots only.
Pumps(ls, ents, q, active) ==
    /\ ls \subseteq Lanes
    /\ Pumped(ls, ents, q, active, maxConcurrent', generation')
    /\ \A l \in Lanes : active[l] \subseteq activeTaskIds[l]
    /\ \A l \in Lanes \ ls :
         /\ q[l] = queue[l]
         /\ active[l] = activeTaskIds[l]
         /\ maxConcurrent'[l] = maxConcurrent[l] \/ maxConcurrent'[l] = 0

\* enqueueCommandInLane pumps the lane of the new command.
LEMMA EnqueuePumps ==
    ASSUME IInv, NEW e \in Entries, NEW l \in Lanes, NEW p \in Priorities,
           EnqueueCommandInLane(e, l, p), ~gatewayDraining
    PROVE  /\ Pumps({l}, [entry EXCEPT ![e] = Enqueued(@, l, p, nextQueueSequence)],
                    [queue EXCEPT ![l] = EnqueueLaneEntry(
                       [entry EXCEPT ![e] = Enqueued(@, l, p, nextQueueSequence)],
                       queue[l], e)],
                    activeTaskIds)
           /\ waiter' = waiter
<1> DEFINE ents == [entry EXCEPT ![e] = Enqueued(@, l, p, nextQueueSequence)]
           q == [queue EXCEPT ![l] = EnqueueLaneEntry(ents, queue[l], e)]
<1>1. /\ Drain({l}, ents, q, activeTaskIds, maxConcurrent, generation)
      /\ maxConcurrent' = maxConcurrent /\ generation' = generation /\ waiter' = waiter
      /\ entry[e].status = "new"
  BY DEF EnqueueCommandInLane
<1>2. /\ maxConcurrent \in [Lanes -> Nat] /\ generation \in [Lanes -> Nat]
      /\ nextQueueSequence + 1 \in Nat
      /\ queue \in [Lanes -> Seq(Entries)]
  BY DEF IInv, TypeOK
<1>3. \A m \in Lanes : m # l => q[m] = queue[m]
  BY <1>2
<1> HIDE DEF ents
<1>4. Core(ents, q, activeTaskIds, generation, nextQueueSequence + 1)
  <2> HIDE DEF q
  <2> QED BY <1>1, EnqueueKeepsCore DEF ents, q
<1> HIDE DEF q
<1>5. Pumps({l}, ents, q, activeTaskIds)
  BY <1>1, <1>2, <1>3, <1>4, DrainStarts DEF Pumps
<1> QED BY <1>1, <1>5 DEF ents, q

\* setCommandLaneConcurrency pumps its lane, unless the lane is suspended.
LEMMA SetPumps ==
    ASSUME IInv, NEW l \in Lanes, NEW n \in Limits, SetCommandLaneConcurrency(l, n)
    PROVE  /\ Pumps(IF EffectiveLimit(l, n) > 0 THEN {l} ELSE {}, entry, queue, activeTaskIds)
           /\ waiter' = waiter
<1> DEFINE ls == IF EffectiveLimit(l, n) > 0 THEN {l} ELSE {}
<1>1. EffectiveLimit(l, n) \in Nat
  BY ConstantsAssumption DEF EffectiveLimit
<1>2. /\ maxConcurrent' = [maxConcurrent EXCEPT ![l] = EffectiveLimit(l, n)]
      /\ Drain(ls, entry, queue, activeTaskIds, maxConcurrent', generation)
      /\ generation' = generation /\ waiter' = waiter
  BY DEF SetCommandLaneConcurrency
<1>3. /\ maxConcurrent \in [Lanes -> Nat] /\ generation \in [Lanes -> Nat]
      /\ nextQueueSequence \in Nat
      /\ Core(entry, queue, activeTaskIds, generation, nextQueueSequence)
  BY DEF IInv, TypeOK
<1>4. maxConcurrent' \in [Lanes -> Nat]
  BY <1>1, <1>2, <1>3
<1>5. \A m \in Lanes : m \notin ls =>
        maxConcurrent'[m] = maxConcurrent[m] \/ maxConcurrent'[m] = 0
  BY <1>1, <1>2, <1>3
<1>6. ls \in SUBSET Lanes
  OBVIOUS
<1> HIDE DEF ls
<1>7. Pumps(ls, entry, queue, activeTaskIds)
  BY <1>2, <1>3, <1>4, <1>5, <1>6, DrainStarts DEF Pumps
<1> QED BY <1>2, <1>7 DEF ls

\* resetCommandLane and resetAllLanes pump the lanes they have reset.
LEMMA ResetPumps ==
    ASSUME IInv, NEW rs \in SUBSET Lanes, NEW active, NEW gen,
           active = [l \in Lanes |-> IF l \in rs THEN {} ELSE activeTaskIds[l]],
           gen = [l \in Lanes |-> IF l \in rs THEN generation[l] + 1 ELSE generation[l]],
           generation' = gen, maxConcurrent' = maxConcurrent,
           Drain(rs, entry, queue, active, maxConcurrent, gen)
    PROVE  Pumps(rs, entry, queue, active)
<1>1. gen \in [Lanes -> Nat] /\ Core(entry, queue, active, gen, nextQueueSequence)
  BY ResetKeepsCore
<1>2. maxConcurrent \in [Lanes -> Nat] /\ nextQueueSequence \in Nat
  BY DEF IInv, TypeOK
<1>3. \A l \in Lanes : /\ active[l] \subseteq activeTaskIds[l]
                       /\ l \notin rs => active[l] = activeTaskIds[l]
  OBVIOUS
<1> QED BY <1>1, <1>2, <1>3, DrainStarts DEF Pumps

\* The steps that reset lanes
LEMMA ResetsPump ==
    ASSUME IInv, ResetAllLanes \/ \E l \in Lanes : ResetCommandLane(l)
    PROVE  /\ \E rs, active : Pumps(rs, entry, queue, active)
           /\ waiter' = Notified(activeTaskIds')
<1>1. /\ activeTaskIds \in [Lanes -> SUBSET Entries]
      /\ generation \in [Lanes -> Nat]
  BY DEF IInv, TypeOK
<1>2. ASSUME NEW l \in Lanes, ResetCommandLane(l)
      PROVE  /\ \E rs, active : Pumps(rs, entry, queue, active)
             /\ waiter' = Notified(activeTaskIds')
  <2> DEFINE active == [activeTaskIds EXCEPT ![l] = {}]
             gen == [generation EXCEPT ![l] = @ + 1]
  <2>1. /\ generation' = gen /\ maxConcurrent' = maxConcurrent
        /\ Drain({l}, entry, queue, active, maxConcurrent, gen)
        /\ waiter' = Notified(activeTaskIds')
    BY <1>2 DEF ResetCommandLane
  <2>2. /\ active = [m \in Lanes |-> IF m \in {l} THEN {} ELSE activeTaskIds[m]]
        /\ gen = [m \in Lanes |-> IF m \in {l} THEN generation[m] + 1 ELSE generation[m]]
    BY <1>1
  <2> HIDE DEF active, gen
  <2>3. Pumps({l}, entry, queue, active)
    BY <2>1, <2>2, ResetPumps
  <2> QED BY <2>1, <2>3
<1>3. ASSUME ResetAllLanes
      PROVE  /\ \E rs, active : Pumps(rs, entry, queue, active)
             /\ waiter' = Notified(activeTaskIds')
  <2> DEFINE active == [l \in Lanes |-> {}]
             gen == [l \in Lanes |-> generation[l] + 1]
  <2>1. /\ generation' = gen /\ maxConcurrent' = maxConcurrent
        /\ Drain(Lanes, entry, queue, active, maxConcurrent, gen)
        /\ waiter' = Notified(activeTaskIds')
    BY <1>3 DEF ResetAllLanes
  <2>2. /\ active = [m \in Lanes |-> IF m \in Lanes THEN {} ELSE activeTaskIds[m]]
        /\ gen = [m \in Lanes |-> IF m \in Lanes THEN generation[m] + 1 ELSE generation[m]]
    OBVIOUS
  <2> HIDE DEF active, gen
  <2>3. Pumps(Lanes, entry, queue, active)
    BY <2>1, <2>2, ResetPumps
  <2> QED BY <2>1, <2>3
<1> QED BY <1>2, <1>3

\* The continuation of a command of the current generation pumps its lane.
LEMMA ContinuePumps ==
    ASSUME IInv, NEW e \in Entries, TaskContinues(e),
           entry[e].taskGeneration = generation[entry[e].lane]
    PROVE  \E active :
             /\ Pumps({entry[e].lane}, [entry EXCEPT ![e] = Continued(@)], queue, active)
             /\ waiter' = Notified(active)
<1> DEFINE ents == [entry EXCEPT ![e] = Continued(@)]
           active == [activeTaskIds EXCEPT ![entry[e].lane] = @ \ {e}]
           l == entry[e].lane
<1>1. /\ entry[e].status = "running" /\ entry[e].race # "open"
      /\ maxConcurrent' = maxConcurrent /\ generation' = generation
      /\ waiter' = Notified(active)
      /\ Drain({l}, ents, queue, active, maxConcurrent, generation)
  BY DEF TaskContinues
<1>2. /\ entry[e] \in Entry
      /\ activeTaskIds \in [Lanes -> SUBSET Entries]
      /\ maxConcurrent \in [Lanes -> Nat] /\ generation \in [Lanes -> Nat]
      /\ nextQueueSequence \in Nat
  BY DEF IInv, TypeOK
<1>3. l \in Lanes
  BY <1>2 DEF Entry
<1>4. \A m \in Lanes : /\ active[m] \subseteq activeTaskIds[m]
                       /\ m # l => active[m] = activeTaskIds[m]
  BY <1>2, <1>3
<1>5. Core(ents, queue, active, generation, nextQueueSequence)
  <2> HIDE DEF ents, active
  <2> QED BY <1>1, ContinueKeepsCore DEF ents, active
<1> HIDE DEF ents, active, l
<1>6. Pumps({l}, ents, queue, active)
  BY <1>1, <1>2, <1>3, <1>4, <1>5, DrainStarts DEF Pumps
<1> QED BY <1>1, <1>6 DEF ents, l

-----------------------------------------------------------------------------
(* Every step, one command at a time.                                      *)

\* What a handler does to a command e, before drainLane may start it
Change(e, d, new) ==
    \/ new = d
    \/ d.status = "new" /\ new = Refused(d)
    \/ /\ d.status = "new"
       /\ \E l \in Lanes, p \in Priority, n \in Nat : new = Enqueued(d, l, p, n)
    \/ d.status = "queued" /\ new = Cleared(d)
    \/ d.body = "executing" /\ new \in {Settled(d, "value"), Settled(d, "error")}
    \/ /\ d.status = "running" /\ d.race = "open" /\ d.timer # "off"
       /\ new = TimedOut(d)
    \/ /\ e \in TimedEntries
       /\ d.status \in {"queued", "running"}
       /\ new \in {Aborted(d), Released(d)}
    \/ d.status = "running" /\ d.race # "open" /\ new = Continued(d)

\* A step that starts nothing and frees no slot
Rests ==
    /\ \A l \in Lanes : queue'[l] = queue[l] \/ queue'[l] = << >>
    /\ UNCHANGED <<activeTaskIds, maxConcurrent>>
    /\ \/ waiter' = waiter
       \/ /\ entry' = entry
          /\ \E w \in Waiters :
               \/ \E timeout : WaitForActiveTasks(w, timeout)
               \/ WaitTimesOut(w)

\* Who is told of the slots that a pumping step has freed
Tells(active) ==
    \/ waiter' = waiter /\ \A l \in Lanes : active[l] = activeTaskIds[l]
    \/ waiter' = Notified(activeTaskIds')
    \/ waiter' = Notified(active)

Step ==
    \E ents :
      /\ \A e \in Entries : Change(e, entry[e], ents[e])
      /\ \/ (\A e \in Entries : entry'[e] = ents[e]) /\ Rests
         \/ \E ls, q, active :
              Pumps(ls, ents, q, active) /\ Tells(active)

\* A step that changes one command only, and pumps nothing
LEMMA OneChange ==
    ASSUME IInv, NEW e \in Entries, NEW new,
           Change(e, entry[e], new), entry' = [entry EXCEPT ![e] = new],
           UNCHANGED <<queue, activeTaskIds, maxConcurrent, waiter>>
    PROVE  Step
<1>1. entry \in [Entries -> Entry]
  BY DEF IInv, TypeOK
<1> DEFINE ents == [entry EXCEPT ![e] = new]
<1>2. ASSUME NEW d \in Entries
      PROVE  Change(d, entry[d], ents[d])
  <2>1. CASE d = e
    BY <1>1, <2>1
  <2>2. CASE d # e
    <3>1. ents[d] = entry[d]
      BY <1>1, <2>2
    <3> QED BY <3>1 DEF Change
  <2> QED BY <2>1, <2>2
<1>3. Rests
  BY DEF Rests
<1>4. \A d \in Entries : entry'[d] = ents[d]
  OBVIOUS
<1> HIDE DEF ents
<1> QED BY <1>2, <1>3, <1>4 DEF Step

\* A step that changes no command and pumps the lanes ls
LEMMA OnlyPumps ==
    ASSUME NEW ls \in SUBSET Lanes, NEW active,
           Pumps(ls, entry, queue, active), Tells(active)
    PROVE  Step
<1>1. \A e \in Entries : Change(e, entry[e], entry[e])
  BY DEF Change
<1> QED BY <1>1 DEF Step

\* A step that changes one command and pumps the lanes ls
LEMMA ChangePumps ==
    ASSUME IInv, NEW e \in Entries, NEW new, NEW ls \in SUBSET Lanes, NEW q, NEW active,
           Change(e, entry[e], new),
           Pumps(ls, [entry EXCEPT ![e] = new], q, active), Tells(active)
    PROVE  Step
<1>1. entry \in [Entries -> Entry]
  BY DEF IInv, TypeOK
<1> DEFINE ents == [entry EXCEPT ![e] = new]
<1>2. ASSUME NEW d \in Entries
      PROVE  Change(d, entry[d], ents[d])
  <2>1. CASE d = e
    BY <1>1, <2>1
  <2>2. CASE d # e
    <3>1. ents[d] = entry[d]
      BY <1>1, <2>2
    <3> QED BY <3>1 DEF Change
  <2> QED BY <2>1, <2>2
<1>3. Pumps(ls, ents, q, active)
  OBVIOUS
<1> HIDE DEF ents
<1> QED BY <1>2, <1>3 DEF Step

\* Every step of the queue is of one of these forms.
LEMMA EveryStep ==
    ASSUME IInv, Next
    PROVE  Step
<1>a. /\ entry \in [Entries -> Entry]
      /\ queue \in [Lanes -> Seq(Entries)]
      /\ nextQueueSequence \in Nat
  BY DEF IInv, TypeOK
<1>1. ASSUME NEW e \in Entries, NEW l \in Lanes, NEW p \in Priorities,
             EnqueueCommandInLane(e, l, p)
      PROVE  Step
  <2>1. entry[e].status = "new"
    BY <1>1 DEF EnqueueCommandInLane
  <2>2. CASE gatewayDraining
    <3> DEFINE new == Refused(entry[e])
    <3>1. /\ entry' = [entry EXCEPT ![e] = new]
          /\ UNCHANGED <<queue, activeTaskIds, maxConcurrent, waiter>>
      BY <1>1, <2>2 DEF EnqueueCommandInLane
    <3>2. Change(e, entry[e], new)
      BY <2>1 DEF Change
    <3> HIDE DEF new
    <3> QED BY <3>1, <3>2, OneChange
  <2>3. CASE ~gatewayDraining
    <3> DEFINE new == Enqueued(entry[e], l, p, nextQueueSequence)
               ents == [entry EXCEPT ![e] = new]
               q == [queue EXCEPT ![l] = EnqueueLaneEntry(ents, queue[l], e)]
    <3>1. p \in Priority
      BY ConstantsAssumption DEF Priority, Background, Foreground
    <3>2. Change(e, entry[e], new)
      BY <1>a, <2>1, <3>1 DEF Change
    <3>3. /\ Pumps({l}, [entry EXCEPT ![e] = Enqueued(@, l, p, nextQueueSequence)],
                    [queue EXCEPT ![l] = EnqueueLaneEntry(
                       [entry EXCEPT ![e] = Enqueued(@, l, p, nextQueueSequence)],
                       queue[l], e)],
                    activeTaskIds)
           /\ waiter' = waiter
      BY <1>1, <2>3, EnqueuePumps
    <3>4. Tells(activeTaskIds)
      BY <3>3 DEF Tells
    <3>5. Pumps({l}, ents, q, activeTaskIds)
      BY <3>3
    <3> HIDE DEF new, q
    <3> QED BY <3>2, <3>4, <3>5, ChangePumps
  <2> QED BY <2>2, <2>3
<1>2. ASSUME NEW l \in Lanes, NEW n \in Limits, SetCommandLaneConcurrency(l, n)
      PROVE  Step
  <2> DEFINE ls == IF EffectiveLimit(l, n) > 0 THEN {l} ELSE {}
  <2>1. Pumps(ls, entry, queue, activeTaskIds) /\ waiter' = waiter
    BY <1>2, SetPumps
  <2>2. Tells(activeTaskIds)
    BY <2>1 DEF Tells
  <2>3. ls \in SUBSET Lanes
    OBVIOUS
  <2> HIDE DEF ls
  <2> QED BY <2>1, <2>2, <2>3, OnlyPumps
<1>3. ASSUME NEW l \in Lanes, ClearCommandLane(l)
      PROVE  Step
  <2> DEFINE ents == [e \in Entries |->
                        IF e \in ToSet(queue[l]) THEN Cleared(entry[e]) ELSE entry[e]]
  <2>1. /\ entry' = ents
        /\ queue' = [queue EXCEPT ![l] = << >>]
        /\ UNCHANGED <<activeTaskIds, maxConcurrent, waiter>>
    BY <1>3 DEF ClearCommandLane
  <2>2. \A e \in Entries : e \in ToSet(queue[l]) => entry[e].status = "queued"
    BY DEF IInv, Core, QueuesMatch
  <2>3. \A e \in Entries : Change(e, entry[e], ents[e])
    BY <2>2 DEF Change
  <2>4. Rests
    BY <1>a, <2>1 DEF Rests
  <2> HIDE DEF ents
  <2> QED BY <2>1, <2>3, <2>4 DEF Step
<1>4. ASSUME ResetAllLanes \/ \E l \in Lanes : ResetCommandLane(l)
      PROVE  Step
  <2>1. PICK rs, active : Pumps(rs, entry, queue, active)
    BY <1>4, ResetsPump
  <2>2. Tells(active)
    BY <1>4, ResetsPump DEF Tells
  <2>3. rs \in SUBSET Lanes
    BY <2>1 DEF Pumps
  <2> QED BY <2>1, <2>2, <2>3, OnlyPumps
<1>5. ASSUME MarkGatewayDraining
             \/ \E w \in Waiters :
                  \/ \E timeout \in {"never", "now", "later"} : WaitForActiveTasks(w, timeout)
                  \/ WaitTimesOut(w)
      PROVE  Step
  <2>1. UNCHANGED <<entry, queue, activeTaskIds, maxConcurrent>>
    BY <1>5 DEF MarkGatewayDraining, WaitForActiveTasks, WaitTimesOut
  <2>2. waiter' = waiter \/ \E w \in Waiters :
                  \/ \E timeout : WaitForActiveTasks(w, timeout)
                  \/ WaitTimesOut(w)
    BY <1>5 DEF MarkGatewayDraining
  <2>3. Rests
    BY <2>1, <2>2 DEF Rests
  <2>4. \A e \in Entries : Change(e, entry[e], entry[e]) /\ entry'[e] = entry[e]
    BY <2>1 DEF Change
  <2> QED BY <2>3, <2>4 DEF Step
<1>6. ASSUME NEW e \in Entries, NEW outcome \in {"value", "error"}, TaskSettles(e, outcome)
      PROVE  Step
  <2> DEFINE new == Settled(entry[e], outcome)
  <2>1. /\ entry[e].body = "executing"
        /\ entry' = [entry EXCEPT ![e] = new]
        /\ UNCHANGED <<queue, activeTaskIds, maxConcurrent, waiter>>
    BY <1>6 DEF TaskSettles
  <2>2. Change(e, entry[e], new)
    BY <2>1 DEF Change
  <2> HIDE DEF new
  <2> QED BY <2>1, <2>2, OneChange
<1>7. ASSUME NEW e \in Entries, TaskTimesOut(e)
      PROVE  Step
  <2> DEFINE new == TimedOut(entry[e])
  <2>1. /\ entry[e].status = "running" /\ entry[e].race = "open" /\ entry[e].timer # "off"
        /\ entry' = [entry EXCEPT ![e] = new]
        /\ UNCHANGED <<queue, activeTaskIds, maxConcurrent, waiter>>
    BY <1>7 DEF TaskTimesOut
  <2>2. Change(e, entry[e], new)
    BY <2>1 DEF Change
  <2> HIDE DEF new
  <2> QED BY <2>1, <2>2, OneChange
<1>8. ASSUME NEW e \in Entries, AbortTask(e) \/ ReleaseTask(e)
      PROVE  Step
  <2>1. PICK new \in {Aborted(entry[e]), Released(entry[e])} :
          entry' = [entry EXCEPT ![e] = new]
    BY <1>8 DEF AbortTask, ReleaseTask
  <2>2. /\ e \in TimedEntries /\ entry[e].status \in {"queued", "running"}
        /\ UNCHANGED <<queue, activeTaskIds, maxConcurrent, waiter>>
    BY <1>8 DEF AbortTask, ReleaseTask
  <2>3. Change(e, entry[e], new)
    BY <2>2 DEF Change
  <2> QED BY <2>1, <2>2, <2>3, OneChange
<1>9. ASSUME NEW e \in Entries, TaskContinues(e)
      PROVE  Step
  <2> DEFINE new == Continued(entry[e])
             l == entry[e].lane
  <2>1. entry[e].status = "running" /\ entry[e].race # "open"
    BY <1>9 DEF TaskContinues
  <2>2. Change(e, entry[e], new)
    BY <2>1 DEF Change
  <2>3. CASE entry[e].taskGeneration = generation[l]
    <3>1. PICK active :
             /\ Pumps({entry[e].lane}, [entry EXCEPT ![e] = Continued(@)], queue, active)
             /\ waiter' = Notified(active)
      BY <1>9, <2>3, ContinuePumps
    <3>2. Pumps({l}, [entry EXCEPT ![e] = new], queue, active) /\ Tells(active)
      BY <3>1 DEF Tells
    <3>3. {l} \in SUBSET Lanes
      BY <1>a DEF Entry
    <3> HIDE DEF new, l
    <3> QED BY <2>2, <3>2, <3>3, ChangePumps
  <2>4. CASE entry[e].taskGeneration # generation[l]
    <3>1. /\ entry' = [entry EXCEPT ![e] = new]
          /\ UNCHANGED <<queue, activeTaskIds, maxConcurrent, waiter>>
      BY <1>9, <2>4 DEF TaskContinues
    <3> HIDE DEF new
    <3> QED BY <2>2, <3>1, OneChange
  <2> QED BY <2>3, <2>4
<1> QED BY <1>1, <1>2, <1>3, <1>4, <1>5, <1>6, <1>7, <1>8, <1>9 DEF Next

-----------------------------------------------------------------------------
(* What a caller is told.                                                  *)

\* What is known of one command: it is untouched until it starts, its caller
\* is told what the race or clearCommandLane decided, and only a command
\* with a timer can time out.
EntrySound(e, d) ==
    /\ d.status \in {"new", "queued"} =>
         d.body = "idle" /\ d.race = "open" /\ d.timer = "off"
    /\ d.status = "new" => d.answer \in {"none", "refused"}
    /\ d.status = "left" => d.answer \in {"cleared", "value", "error", "timeout"}
    /\ d.status = "left" /\ d.answer = "cleared" => d.body = "idle"
    /\ d.race \in {"value", "error"} \/ d.answer \in {"value", "error"} =>
         d.body = "finished"
    /\ d.race = "timeout" \/ d.timer # "off" \/ d.answer = "timeout" =>
         e \in TimedEntries

EntriesSound(ents) == \A e \in Entries : EntrySound(e, ents[e])

\* No handler breaks that, nor takes a command back into a queue.
LEMMA ChangeSound ==
    ASSUME NEW e \in Entries, NEW d \in Entry, NEW new,
           EntrySound(e, d), d.answer = "pending" <=> d.status \in {"queued", "running"},
           Change(e, d, new)
    PROVE  /\ new \in Entry
           /\ EntrySound(e, new)
           /\ new.status = "queued" => d.status \in {"new", "queued"}
           /\ new.status = "queued" /\ d.status = "queued" => new.lane = d.lane
           /\ d.status \in {"running", "left"} => new.status \in {"running", "left"}
<1> USE DEF Entry, EntrySound, Status, Timer, Race, Body, Answer
<1>1. CASE new = d
  BY <1>1
<1>2. CASE d.status = "new" /\ new = Refused(d)
  BY <1>2 DEF Refused
<1>3. CASE d.status = "new"
           /\ \E l \in Lanes, p \in Priority, n \in Nat : new = Enqueued(d, l, p, n)
  <2>1. PICK l \in Lanes, p \in Priority, n \in Nat : new = Enqueued(d, l, p, n)
    BY <1>3
  <2> QED BY <1>3, <2>1 DEF Enqueued
<1>4. CASE d.status = "queued" /\ new = Cleared(d)
  BY <1>4 DEF Cleared
<1>5. CASE d.body = "executing" /\ new \in {Settled(d, "value"), Settled(d, "error")}
  <2>1. CASE new = Settled(d, "value")
    BY <1>5, <2>1 DEF Settled
  <2>2. CASE new = Settled(d, "error")
    BY <1>5, <2>2 DEF Settled
  <2> QED BY <1>5, <2>1, <2>2
<1>6. CASE /\ d.status = "running" /\ d.race = "open" /\ d.timer # "off"
           /\ new = TimedOut(d)
  BY <1>6 DEF TimedOut
<1>7. CASE /\ e \in TimedEntries
           /\ d.status \in {"queued", "running"}
           /\ new \in {Aborted(d), Released(d)}
  BY <1>7 DEF Aborted, Released
<1>8. CASE d.status = "running" /\ d.race # "open" /\ new = Continued(d)
  BY <1>8 DEF Continued
<1> QED BY <1>1, <1>2, <1>3, <1>4, <1>5, <1>6, <1>7, <1>8 DEF Change

\* pump() starts a command that was untouched.
LEMMA StartSound ==
    ASSUME NEW e \in Entries, NEW d \in Entry, NEW gen \in Nat,
           EntrySound(e, d), d.status = "queued", d.answer = "pending"
    PROVE  /\ EntrySound(e, Started(d, e, gen))
           /\ Started(d, e, gen).status = "running"
BY DEF Entry, EntrySound, Started, Status, Timer, Race, Body, Answer

\* What a step does to every command
LEMMA StepChanges ==
    ASSUME IInv, EntriesSound(entry), IInv', NEW ents,
           \A e \in Entries : Change(e, entry[e], ents[e]),
           \/ \A e \in Entries : entry'[e] = ents[e]
           \/ \E ls, q, active : Pumps(ls, ents, q, active),
           NEW e \in Entries
    PROVE  /\ EntrySound(e, entry'[e])
           /\ ents[e].status = "queued" => entry[e].status \in {"new", "queued"}
           /\ entry[e].status = "queued" /\ entry'[e].status = "queued" =>
                entry'[e].lane = entry[e].lane
           /\ entry[e].status \in {"running", "left"} =>
                entry'[e].status \in {"running", "left"}
<1>1. /\ entry[e] \in Entry
      /\ entry[e].answer = "pending" <=> entry[e].status \in {"queued", "running"}
      /\ EntrySound(e, entry[e])
  BY DEF IInv, TypeOK, Core, EntriesMatch, EntriesSound
<1>2. /\ entry'[e] \in Entry
      /\ entry'[e].answer = "pending" <=> entry'[e].status \in {"queued", "running"}
      /\ generation' \in [Lanes -> Nat]
  BY DEF IInv, TypeOK, Core, EntriesMatch
<1> DEFINE d == entry[e]
           new == ents[e]
<1>3. /\ new \in Entry
      /\ EntrySound(e, new)
      /\ new.status = "queued" => d.status \in {"new", "queued"}
      /\ new.status = "queued" /\ d.status = "queued" => new.lane = d.lane
      /\ d.status \in {"running", "left"} => new.status \in {"running", "left"}
  <2>1. d \in Entry /\ EntrySound(e, d) /\ Change(e, d, new)
        /\ (d.answer = "pending" <=> d.status \in {"queued", "running"})
    BY <1>1
  <2> HIDE DEF d, new
  <2> QED BY <2>1, ChangeSound
<1>4. \/ entry'[e] = new
      \/ /\ new.status = "queued"
         /\ entry'[e] = Started(new, e, generation'[new.lane])
  BY DEF Pumps, Pumped
<1>5. CASE entry'[e] = new
  BY <1>3, <1>5
<1>6. CASE /\ new.status = "queued"
           /\ entry'[e] = Started(new, e, generation'[new.lane])
  <2>1. generation'[new.lane] \in Nat
    BY <1>2, <1>3 DEF Entry
  <2>2. entry'[e].status = "running" /\ entry'[e].answer = new.answer
    <3> HIDE DEF new
    <3> QED BY <1>3, <1>6 DEF Started, Entry
  <2>3. new.answer = "pending"
    BY <1>2, <2>2
  <2>4. EntrySound(e, Started(new, e, generation'[new.lane]))
    <3> HIDE DEF new
    <3> QED BY <1>3, <1>6, <2>1, <2>3, StartSound
  <2> QED BY <1>3, <1>6, <2>2, <2>4
<1> QED BY <1>4, <1>5, <1>6

\* Where the commands that take a slot come from
LEMMA StepStarts ==
    ASSUME IInv, EntriesSound(entry), IInv', Step,
           NEW l \in Lanes, NEW e \in activeTaskIds'[l] \ activeTaskIds[l]
    PROVE  /\ e \in Entries
           /\ entry[e].status \in {"new", "queued"}
           /\ \A d \in Entries :
                entry'[d].status = "queued" /\ entry'[d].lane = l
                  => GoesBefore(entry'[e], entry'[d])
<1>1. PICK ents :
        /\ \A d \in Entries : Change(d, entry[d], ents[d])
        /\ \E ls, q, active : Pumps(ls, ents, q, active)
  BY DEF Step, Rests
<1>2. PICK ls, q, active : Pumps(ls, ents, q, active)
  BY <1>1
<1>3. e \in activeTaskIds'[l] \ active[l]
  BY <1>2 DEF Pumps
<1>4. /\ e \in Entries
      /\ ents[e].status = "queued"
      /\ \A d \in Entries :
           entry'[d].status = "queued" /\ entry'[d].lane = l
             => GoesBefore(entry'[e], entry'[d])
  BY <1>2, <1>3 DEF Pumps, Pumped
<1>5. entry[e].status \in {"new", "queued"}
  BY <1>1, <1>4, StepChanges
<1> QED BY <1>4, <1>5

\* What every step leaves of the commands
LEMMA StepKeepsSound ==
    ASSUME IInv, EntriesSound(entry), IInv', Step
    PROVE  /\ EntriesSound(entry')
           /\ \A e \in Entries :
                /\ entry[e].status = "queued" /\ entry'[e].status = "queued" =>
                     entry'[e].lane = entry[e].lane
                /\ entry[e].status \in {"running", "left"} =>
                     entry'[e].status \in {"running", "left"}
<1>1. PICK ents :
        /\ \A d \in Entries : Change(d, entry[d], ents[d])
        /\ \/ \A d \in Entries : entry'[d] = ents[d]
           \/ \E ls, q, active : Pumps(ls, ents, q, active)
  BY DEF Step
<1> QED BY <1>1, StepChanges DEF EntriesSound

-----------------------------------------------------------------------------
(* Who waits for the tasks.                                                *)

WaitersSound ==
    /\ WaiterWatchesActive
    /\ DrainedForGood
    /\ \A w \in Waiters : waiter[w].state # "idle" =>
         \A e \in waiter[w].ids : entry[e].status \in {"running", "left"}

\* A promise that Notified leaves alone still watches a task of active; one
\* that it resolves watches none.
LEMMA NotifiedWaits ==
    ASSUME NEW active, waiter \in [Waiters -> Waiter], NEW w \in Waiters
    PROVE  LET v == Notified(active)[w]
           IN  /\ v.ids = waiter[w].ids
               /\ v.state = "idle" <=> waiter[w].state = "idle"
               /\ v.state = "waiting" => \E l \in Lanes : v.ids \cap active[l] # {}
               /\ v.state = "drained" =>
                    \/ waiter[w].state = "drained"
                    \/ \A l \in Lanes : v.ids \cap active[l] = {}
BY DEF Notified, Waiter

\* Slots that are given to fresh commands disturb no promise.
LEMMA PumpKeepsWaiters ==
    ASSUME IInv, EntriesSound(entry), IInv', Step, WaitersSound,
           NEW ls \in SUBSET Lanes, NEW ents, NEW q, NEW active,
           \A e \in Entries : Change(e, entry[e], ents[e]),
           Pumps(ls, ents, q, active), Tells(active)
    PROVE  WaitersSound'
<1>1. waiter \in [Waiters -> Waiter]
  BY DEF IInv, TypeOK
<1>2. \A l \in Lanes : active[l] \subseteq activeTaskIds[l]
                       /\ active[l] \subseteq activeTaskIds'[l]
  BY DEF Pumps, Pumped
<1>3. ASSUME NEW w \in Waiters
      PROVE  /\ waiter'[w].ids = waiter[w].ids
             /\ waiter'[w].state = "idle" <=> waiter[w].state = "idle"
             /\ waiter'[w].state = "waiting" =>
                  \E l \in Lanes : waiter'[w].ids \cap activeTaskIds'[l] # {}
             /\ waiter'[w].state = "drained" =>
                  \/ waiter[w].state = "drained"
                  \/ \A l \in Lanes : waiter'[w].ids \cap active[l] = {}
  <2>1. CASE waiter' = waiter /\ \A l \in Lanes : active[l] = activeTaskIds[l]
    BY <1>2, <2>1 DEF WaitersSound, WaiterWatchesActive
  <2>2. CASE waiter' = Notified(activeTaskIds')
    <3>1. LET v == waiter'[w]
          IN  /\ v.ids = waiter[w].ids
              /\ v.state = "idle" <=> waiter[w].state = "idle"
              /\ v.state = "waiting" =>
                   \E l \in Lanes : v.ids \cap activeTaskIds'[l] # {}
              /\ v.state = "drained" =>
                    \/ waiter[w].state = "drained"
                    \/ \A l \in Lanes : v.ids \cap activeTaskIds'[l] = {}
      BY <1>1, <2>2, NotifiedWaits
    <3> QED BY <1>2, <3>1
  <2>3. CASE waiter' = Notified(active)
    <3>1. LET v == waiter'[w]
          IN  /\ v.ids = waiter[w].ids
              /\ v.state = "idle" <=> waiter[w].state = "idle"
              /\ v.state = "waiting" => \E l \in Lanes : v.ids \cap active[l] # {}
              /\ v.state = "drained" =>
                    \/ waiter[w].state = "drained"
                    \/ \A l \in Lanes : v.ids \cap active[l] = {}
      BY <1>1, <2>3, NotifiedWaits
    <3> QED BY <1>2, <3>1
  <2> QED BY <2>1, <2>2, <2>3 DEF Tells
<1>4. ASSUME NEW w \in Waiters, waiter'[w].state # "idle", NEW e \in waiter'[w].ids
      PROVE  e \in Entries /\ entry[e].status \in {"running", "left"}
  BY <1>1, <1>3, <1>4 DEF WaitersSound, Waiter
<1>5. WaiterWatchesActive'
  BY <1>3 DEF WaiterWatchesActive
<1>6. DrainedForGood'
  <2> SUFFICES ASSUME NEW w \in Waiters, waiter'[w].state = "drained",
                      NEW l \in Lanes, NEW e \in waiter'[w].ids,
                      e \in activeTaskIds'[l]
               PROVE  FALSE
    BY DEF DrainedForGood
  <2>1. entry[e].status \in {"running", "left"}
    BY <1>4
  <2>2. e \in activeTaskIds[l]
    BY <2>1, StepStarts
  <2>3. waiter[w].state # "drained"
    BY <1>3, <2>2 DEF WaitersSound, DrainedForGood
  <2>4. e \in activeTaskIds'[l] \ active[l]
    BY <1>3, <2>3
  <2>5. e \in Entries /\ ents[e].status = "queued"
    BY <2>4 DEF Pumps, Pumped
  <2>6. entry[e].status \in {"new", "queued"}
    BY <2>5, StepChanges
  <2> QED BY <2>1, <2>6
<1>7. \A w \in Waiters : waiter'[w].state # "idle" =>
         \A e \in waiter'[w].ids : entry'[e].status \in {"running", "left"}
  BY <1>4, StepKeepsSound
<1> QED BY <1>5, <1>6, <1>7 DEF WaitersSound

\* A new call of waitForActiveTasks, or the timer of one
LEMMA RestKeepsWaiters ==
    ASSUME IInv, EntriesSound(entry), IInv', Step, WaitersSound, Rests
    PROVE  WaitersSound'
<1>1. /\ waiter \in [Waiters -> Waiter]
      /\ activeTaskIds' = activeTaskIds
      /\ activeTaskIds \in [Lanes -> SUBSET Entries]
  BY DEF IInv, TypeOK, Rests
<1>2. \A e \in Entries : entry[e].status \in {"running", "left"} =>
                           entry'[e].status \in {"running", "left"}
  BY StepKeepsSound
<1>3. CASE waiter' = waiter
  BY <1>1, <1>2, <1>3 DEF WaitersSound, WaiterWatchesActive, DrainedForGood, Waiter
<1>4. CASE /\ entry' = entry
           /\ \E w \in Waiters : \E timeout : WaitForActiveTasks(w, timeout)
  <2>a. PICK w \in Waiters : \E timeout : WaitForActiveTasks(w, timeout)
    BY <1>4
  <2>1. PICK timeout : WaitForActiveTasks(w, timeout)
    BY <2>a
  <2> DEFINE ids == UNION {activeTaskIds[l] : l \in Lanes}
  <2>2. /\ \A v \in Waiters : v # w => waiter'[v] = waiter[v]
        /\ waiter'[w].ids = ids
        /\ waiter'[w].state = IF ids = {} THEN "drained"
                              ELSE IF timeout = "now" THEN "timedOut" ELSE "waiting"
    BY <1>1, <2>1 DEF WaitForActiveTasks
  <2>3. \A e \in ids : e \in Entries /\ entry[e].status = "running"
    BY <1>1 DEF IInv, Core, SlotsMatch
  <2>4. ids # {} => \E l \in Lanes : ids \cap activeTaskIds[l] # {}
    OBVIOUS
  <2>5. ids = {} => \A l \in Lanes : ids \cap activeTaskIds[l] = {}
    OBVIOUS
  <2> HIDE DEF ids
  <2>6. ASSUME NEW v \in Waiters
        PROVE  /\ waiter'[v].state = "waiting" =>
                    \E l \in Lanes : waiter'[v].ids \cap activeTaskIds'[l] # {}
               /\ waiter'[v].state = "drained" =>
                    \A l \in Lanes : waiter'[v].ids \cap activeTaskIds'[l] = {}
               /\ waiter'[v].state # "idle" =>
                    \A e \in waiter'[v].ids : entry'[e].status \in {"running", "left"}
    <3>1. CASE v = w
      BY <1>1, <1>4, <2>2, <2>3, <2>4, <2>5, <3>1
    <3>2. CASE v # w
      BY <1>1, <1>4, <2>2, <3>2 DEF WaitersSound, WaiterWatchesActive, DrainedForGood
    <3> QED BY <3>1, <3>2
  <2> QED BY <2>6 DEF WaitersSound, WaiterWatchesActive, DrainedForGood
<1>5. CASE entry' = entry /\ \E w \in Waiters : WaitTimesOut(w)
  <2>1. PICK w \in Waiters : WaitTimesOut(w)
    BY <1>5
  <2>2. \A v \in Waiters :
          /\ waiter'[v].ids = waiter[v].ids
          /\ waiter'[v].state = IF v = w THEN "timedOut" ELSE waiter[v].state
          /\ v = w => waiter[v].state = "waiting"
    BY <1>1, <2>1 DEF WaitTimesOut, Waiter
  <2> QED BY <1>1, <1>5, <2>2 DEF WaitersSound, WaiterWatchesActive, DrainedForGood
<1> QED BY <1>3, <1>4, <1>5 DEF Rests

-----------------------------------------------------------------------------
(* The theorems.                                                           *)

AnswerInv == /\ IInv
             /\ EntriesSound(entry)
             /\ WaitersSound
             /\ WorkConserving

\* Nobody has called yet.
LEMMA InitAnswerInv == Init => AnswerInv
<1> SUFFICES ASSUME Init PROVE AnswerInv
  OBVIOUS
<1>1. IInv
  BY InitIInv
<1>2. EntriesSound(entry)
  BY DEF Init, Fresh, EntriesSound, EntrySound
<1>3. WaitersSound
  BY DEF Init, WaitersSound, WaiterWatchesActive, DrainedForGood
<1>4. WorkConserving
  BY DEF Init, WorkConserving
<1> QED BY <1>1, <1>2, <1>3, <1>4 DEF AnswerInv

\* Every step that frees slots, adds some, or adds commands has pumped the
\* lanes concerned.
LEMMA StepKeepsWork ==
    ASSUME IInv, IInv', Step, WorkConserving
    PROVE  WorkConserving'
<1>1. SUFFICES ASSUME NEW l \in Lanes, queue'[l] # << >>
               PROVE  Cardinality(activeTaskIds'[l]) >= maxConcurrent'[l]
  BY DEF WorkConserving
<1>2. CASE Rests
  <2>1. queue'[l] = queue[l]
    BY <1>1, <1>2 DEF Rests
  <2> QED BY <1>1, <1>2, <2>1 DEF Rests, WorkConserving
<1>3. CASE \E ls, ents, q, active : Pumps(ls, ents, q, active)
  <2>1. PICK ls, ents, q, active : Pumps(ls, ents, q, active)
    BY <1>3
  <2>2. CASE l \in ls
    BY <1>1, <2>1, <2>2 DEF Pumps, Pumped
  <2>3. CASE l \notin ls
    <3>1. /\ queue'[l] = queue[l]
          /\ activeTaskIds'[l] = activeTaskIds[l]
          /\ maxConcurrent'[l] = maxConcurrent[l] \/ maxConcurrent'[l] = 0
      BY <2>1, <2>3 DEF Pumps, Pumped
    <3>2. Cardinality(activeTaskIds[l]) >= maxConcurrent[l]
      BY <1>1, <3>1 DEF WorkConserving
    <3>3. Cardinality(activeTaskIds[l]) \in Nat
      <4>1. activeTaskIds[l] \in SUBSET Entries
        BY DEF IInv, TypeOK
      <4> QED BY <4>1, ConstantsAssumption, FS_Subset, FS_CardinalityType
    <3> QED BY <3>1, <3>2, <3>3
  <2> QED BY <2>2, <2>3
<1> QED BY <1>2, <1>3 DEF Step

\* The inductive step of all the theorems
LEMMA NextAnswerInv == AnswerInv /\ [Next]_vars => AnswerInv'
<1> SUFFICES ASSUME AnswerInv, [Next]_vars
             PROVE  AnswerInv'
  OBVIOUS
<1>1. IInv'
  BY NextIInv DEF AnswerInv
<1>2. CASE UNCHANGED vars
  BY <1>1, <1>2 DEF AnswerInv, vars, EntriesSound, WaitersSound,
       WaiterWatchesActive, DrainedForGood, WorkConserving
<1>3. CASE Next
  <2>1. Step
    BY <1>3, EveryStep DEF AnswerInv
  <2>2. EntriesSound(entry)'
    BY <1>1, <2>1, StepKeepsSound DEF AnswerInv, EntriesSound
  <2>3. WaitersSound'
    <3>1. CASE Rests
      BY <1>1, <2>1, <3>1, RestKeepsWaiters DEF AnswerInv
    <3>2. CASE \E ents :
                 /\ \A e \in Entries : Change(e, entry[e], ents[e])
                 /\ \E ls, q, active :
                      Pumps(ls, ents, q, active) /\ Tells(active)
      <4>1. PICK ents, ls, q, active :
              /\ \A e \in Entries : Change(e, entry[e], ents[e])
              /\ Pumps(ls, ents, q, active) /\ Tells(active)
        BY <3>2
      <4>2. ls \in SUBSET Lanes
        BY <4>1 DEF Pumps
      <4> QED BY <1>1, <2>1, <4>1, <4>2, PumpKeepsWaiters DEF AnswerInv
    <3> QED BY <2>1, <3>1, <3>2 DEF Step
  <2>4. WorkConserving'
    BY <1>1, <2>1, StepKeepsWork DEF AnswerInv
  <2> QED BY <1>1, <2>2, <2>3, <2>4 DEF AnswerInv
<1> QED BY <1>2, <1>3

\* No command waits while its lane has a free slot.
THEOREM LanesWorkAlways == Spec => []WorkConserving
<1>1. AnswerInv => WorkConserving
  BY DEF AnswerInv
<1> QED BY InitAnswerInv, NextAnswerInv, <1>1, PTL DEF Spec

\* A pending waitForActiveTasks watches a task that still holds a slot.
THEOREM WaitersWatchAlways == Spec => []WaiterWatchesActive
<1>1. AnswerInv => WaiterWatchesActive
  BY DEF AnswerInv, WaitersSound
<1> QED BY InitAnswerInv, NextAnswerInv, <1>1, PTL DEF Spec

\* Once waitForActiveTasks has answered drained, its tasks hold no slot.
THEOREM DrainedAlways == Spec => []DrainedForGood
<1>1. AnswerInv => DrainedForGood
  BY DEF AnswerInv, WaitersSound
<1> QED BY InitAnswerInv, NextAnswerInv, <1>1, PTL DEF Spec

\* Callers are told what happened to their commands.
THEOREM AnswersTrue == Spec => []AnswerMatchesExecution
<1>1. AnswerInv => AnswerMatchesExecution
  <2> SUFFICES ASSUME AnswerInv, NEW e \in Entries
               PROVE  /\ entry[e].answer \in {"none", "cleared", "refused"} =>
                           entry[e].body = "idle"
                      /\ entry[e].answer \in {"value", "error"} =>
                           entry[e].body = "finished"
                      /\ entry[e].answer = "timeout" => e \in TimedEntries
                      /\ (entry[e].body = "executing"
                            /\ e \notin activeTaskIds[entry[e].lane]) =>
                           \/ entry[e].answer = "timeout"
                           \/ entry[e].taskGeneration < generation[entry[e].lane]
    BY DEF AnswerMatchesExecution
  <2> DEFINE d == entry[e]
             l == d.lane
  <2>1. /\ d \in Entry
        /\ d.answer = "pending" <=> d.status \in {"queued", "running"}
        /\ d.status = "running" => d.taskGeneration <= generation[l]
        /\ l \in Lanes => (e \in activeTaskIds[l] <=>
             d.status = "running" /\ d.taskGeneration = generation[l])
        /\ generation \in [Lanes -> Nat]
        /\ EntrySound(e, d)
    BY DEF AnswerInv, IInv, TypeOK, Core, EntriesMatch, SlotsMatch, EntriesSound
  <2>2. /\ l \in Lanes /\ d.taskGeneration \in Nat
        /\ d.status \in Status /\ d.answer \in Answer
    BY <2>1 DEF Entry
  <2>3. generation[l] \in Nat
    BY <2>1, <2>2
  <2> DEFINE g == generation[l]
  <2> HIDE DEF d, l, g
  <2>4. ASSUME d.body = "executing", e \notin activeTaskIds[l]
        PROVE  d.answer = "timeout" \/ d.taskGeneration < generation[l]
    <3>1. CASE d.status = "running"
      BY <2>1, <2>2, <2>3, <2>4, <3>1
    <3>2. CASE d.status # "running"
      BY <2>1, <2>2, <2>4, <3>2 DEF EntrySound, Status
    <3> QED BY <3>1, <3>2
  <2>5. d.answer \in {"none", "cleared", "refused"} => d.body = "idle"
    BY <2>1, <2>2 DEF EntrySound, Status, Answer
  <2>6. /\ d.answer \in {"value", "error"} => d.body = "finished"
        /\ d.answer = "timeout" => e \in TimedEntries
    BY <2>1 DEF EntrySound
  <2> QED BY <2>4, <2>5, <2>6 DEF d, l
<1> QED BY InitAnswerInv, NextAnswerInv, <1>1, PTL DEF Spec

\* A command starts only when none that goes before it still waits.
THEOREM StartsAlwaysInOrder == Spec => StartsInOrder
<1> DEFINE InOrder ==
      \A l \in Lanes : \A e \in activeTaskIds'[l] \ activeTaskIds[l] :
         \A d \in Entries :
           entry[d].status = "queued" /\ entry[d].lane = l
             /\ entry'[d].status = "queued"
           => GoesBefore(entry'[e], entry'[d])
<1>1. AnswerInv /\ [Next]_vars => [InOrder]_vars
  <2> SUFFICES ASSUME AnswerInv, Next
               PROVE  InOrder
    OBVIOUS
  <2>1. IInv' /\ Step
    BY NextIInv, EveryStep DEF AnswerInv
  <2> SUFFICES ASSUME NEW l \in Lanes, NEW e \in activeTaskIds'[l] \ activeTaskIds[l],
                      NEW d \in Entries,
                      entry[d].status = "queued", entry[d].lane = l,
                      entry'[d].status = "queued"
               PROVE  GoesBefore(entry'[e], entry'[d])
    OBVIOUS
  <2>2. entry'[d].lane = l
    BY <2>1, StepKeepsSound DEF AnswerInv
  <2> QED BY <2>1, <2>2, StepStarts DEF AnswerInv
<1> QED BY InitAnswerInv, NextAnswerInv, <1>1, PTL DEF Spec, StartsInOrder
=============================================================================
