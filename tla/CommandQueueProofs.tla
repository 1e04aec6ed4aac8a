------------------------- MODULE CommandQueueProofs -------------------------
(***************************************************************************)
(* Theorems about CommandQueue and their proofs.                           *)
(***************************************************************************)
EXTENDS CommandQueue, SequenceTheorems, FiniteSetTheorems,
        WellFoundedInduction, TLAPS

-----------------------------------------------------------------------------
(* Sequences without repetition.                                           *)

Distinct(s) == \A i, j \in DOMAIN s : s[i] = s[j] => i = j

\* The commands of a queue are what stands at its positions.
LEMMA ToSetOfSeq ==
    ASSUME NEW S, NEW s \in Seq(S)
    PROVE  /\ DOMAIN s = 1 .. Len(s)
           /\ ToSet(s) = {s[i] : i \in 1 .. Len(s)}
BY DEF ToSet

LEMMA ToSetType ==
    ASSUME NEW S, NEW s \in Seq(S)
    PROVE  ToSet(s) \in SUBSET S
BY ToSetOfSeq

\* Cutting a queue after its first n commands, which is what pump() does:
\* both parts are typed, keep the order of the queue and share no command.
LEMMA CutQueue ==
    ASSUME NEW S, NEW s \in Seq(S), NEW n \in 0 .. Len(s)
    PROVE  LET head == SubSeq(s, 1, n)
               rest == SubSeq(s, n + 1, Len(s))
           IN  /\ head \in Seq(S)
               /\ rest \in Seq(S)
               /\ Len(rest) = Len(s) - n
               /\ \A i \in DOMAIN rest : i + n \in DOMAIN s /\ rest[i] = s[i + n]
               /\ ToSet(head) = {s[i] : i \in 1 .. n}
               /\ ToSet(s) = ToSet(head) \cup ToSet(rest)
               /\ Distinct(s) => Distinct(rest) /\ ToSet(head) \cap ToSet(rest) = {}
<1> DEFINE head == SubSeq(s, 1, n)
           rest == SubSeq(s, n + 1, Len(s))
<1>1. /\ head \in Seq(S)
      /\ Len(head) = n
      /\ \A i \in 1 .. n : head[i] = s[i]
  OBVIOUS
<1>2. /\ rest \in Seq(S)
      /\ Len(rest) = Len(s) - n
      /\ \A i \in 1 .. (Len(s) - n) : rest[i] = s[i + n]
  OBVIOUS
<1> HIDE DEF head, rest
<1>3. ToSet(head) = {s[i] : i \in 1 .. n}
  BY <1>1, ToSetOfSeq
<1>4. ToSet(rest) = {s[i] : i \in (n + 1) .. Len(s)}
  <2>1. ToSet(rest) = {rest[i] : i \in 1 .. (Len(s) - n)}
    BY <1>2, ToSetOfSeq
  <2>2. ASSUME NEW i \in (n + 1) .. Len(s)
        PROVE  s[i] \in ToSet(rest)
    <3>1. i - n \in 1 .. (Len(s) - n) /\ rest[i - n] = s[i]
      BY <1>2
    <3> QED BY <3>1, <2>1
  <2>3. ASSUME NEW i \in 1 .. (Len(s) - n)
        PROVE  rest[i] \in {s[j] : j \in (n + 1) .. Len(s)}
    <3>1. i + n \in (n + 1) .. Len(s) /\ rest[i] = s[i + n]
      BY <1>2
    <3> QED BY <3>1
  <2>4. ToSet(rest) \subseteq {s[j] : j \in (n + 1) .. Len(s)}
    BY <2>1, <2>3
  <2>5. {s[j] : j \in (n + 1) .. Len(s)} \subseteq ToSet(rest)
    BY <2>2
  <2> QED BY <2>4, <2>5
<1>5. ToSet(s) = ToSet(head) \cup ToSet(rest)
  BY <1>3, <1>4, ToSetOfSeq
<1>6. Distinct(s) => Distinct(rest) /\ ToSet(head) \cap ToSet(rest) = {}
  <2> SUFFICES ASSUME Distinct(s)
               PROVE  Distinct(rest) /\ ToSet(head) \cap ToSet(rest) = {}
    OBVIOUS
  <2>1. Distinct(rest)
    <3>1. DOMAIN rest = 1 .. (Len(s) - n) /\ DOMAIN s = 1 .. Len(s)
      BY <1>2
    <3>2. SUFFICES ASSUME NEW i \in 1 .. (Len(s) - n), NEW j \in 1 .. (Len(s) - n),
                          rest[i] = rest[j]
                   PROVE  i = j
      BY <3>1 DEF Distinct
    <3>3. i + n \in DOMAIN s /\ j + n \in DOMAIN s /\ s[i + n] = s[j + n]
      BY <1>2, <3>1, <3>2
    <3> QED BY <3>3 DEF Distinct
  <2>2. ToSet(head) \cap ToSet(rest) = {}
    BY <1>3, <1>4, ToSetOfSeq DEF Distinct
  <2> QED BY <2>1, <2>2
<1> QED BY <1>1, <1>2, <1>3, <1>5, <1>6 DEF head, rest

\* t is s with x put in at position i.
IsPut(t, s, i, x, S) ==
    /\ t \in Seq(S)
    /\ Len(t) = Len(s) + 1
    /\ \A j \in DOMAIN t : t[j] = IF j < i THEN s[j]
                                  ELSE IF j = i THEN x ELSE s[j - 1]
    /\ ToSet(t) = ToSet(s) \cup {x}
    /\ Distinct(s) /\ x \notin ToSet(s) => Distinct(t)

\* Putting a command into a queue at position i, which is what
\* enqueueLaneEntry does.
LEMMA PutIntoQueue ==
    ASSUME NEW S, NEW s \in Seq(S), NEW x \in S, NEW i \in 1 .. (Len(s) + 1)
    PROVE  IsPut(SubSeq(s, 1, i - 1) \o <<x>> \o SubSeq(s, i, Len(s)), s, i, x, S)
<1> DEFINE a == SubSeq(s, 1, i - 1)
           b == SubSeq(s, i, Len(s))
           t == a \o <<x>> \o b
<1>1. /\ a \in Seq(S)
      /\ Len(a) = i - 1
      /\ \A j \in 1 .. (i - 1) : a[j] = s[j]
  OBVIOUS
<1>2. /\ b \in Seq(S)
      /\ Len(b) = Len(s) - i + 1
      /\ \A j \in 1 .. (Len(s) - i + 1) : b[j] = s[j + i - 1]
  OBVIOUS
<1> HIDE DEF a, b
<1>a. /\ a \o <<x>> \in Seq(S)
      /\ Len(a \o <<x>>) = i
      /\ \A j \in 1 .. i : (a \o <<x>>)[j] = IF j < i THEN s[j] ELSE x
  BY <1>1
<1> DEFINE ax == a \o <<x>>
<1> HIDE DEF ax
<1>b. /\ ax \in Seq(S)
      /\ Len(ax) = i
      /\ \A j \in 1 .. i : ax[j] = IF j < i THEN s[j] ELSE x
  BY <1>a DEF ax
<1>c. /\ ax \o b \in Seq(S)
      /\ Len(ax \o b) = Len(s) + 1
      /\ \A j \in 1 .. (Len(s) + 1) :
           (ax \o b)[j] = IF j <= i THEN ax[j] ELSE b[j - i]
  <2>1. /\ ax \o b \in Seq(S)
        /\ Len(ax \o b) = Len(ax) + Len(b)
        /\ \A j \in 1 .. Len(ax) + Len(b) :
             (ax \o b)[j] = IF j <= Len(ax) THEN ax[j] ELSE b[j - Len(ax)]
    BY <1>b, <1>2, ConcatProperties
  <2>2. Len(ax) = i /\ Len(ax) + Len(b) = Len(s) + 1
    BY <1>b, <1>2
  <2> QED BY <2>1, <2>2
<1>3. /\ t \in Seq(S)
      /\ Len(t) = Len(s) + 1
      /\ \A j \in 1 .. (Len(s) + 1) : t[j] = IF j < i THEN s[j]
                                             ELSE IF j = i THEN x ELSE s[j - 1]
  <2>1. t = ax \o b
    BY DEF t, ax
  <2>2. ASSUME NEW j \in 1 .. (Len(s) + 1)
        PROVE  (ax \o b)[j] = IF j < i THEN s[j]
                               ELSE IF j = i THEN x ELSE s[j - 1]
    <3>1. CASE j <= i
      <4>1. (ax \o b)[j] = ax[j] /\ j \in 1 .. i
        BY <3>1, <1>c
      <4> QED BY <4>1, <3>1, <1>b
    <3>2. CASE i < j
      <4>a. Len(s) \in Nat /\ i \in Int /\ j \in Int
        OBVIOUS
      <4>b. j - i \in 1 .. (Len(s) - i + 1) /\ (j - i) + i - 1 = j - 1
        BY <3>2, <4>a
      <4>1. j - i \in 1 .. (Len(s) - i + 1) /\ b[j - i] = s[j - 1]
        BY <4>b, <1>2
      <4>2. (ax \o b)[j] = b[j - i]
        BY <3>2, <1>c
      <4>3. ~(j < i) /\ j # i
        BY <3>2
      <4> QED BY <4>1, <4>2, <4>3
    <3>3. j <= i \/ i < j
      OBVIOUS
    <3> HIDE DEF ax
    <3> QED BY ONLY <3>1, <3>2, <3>3
  <2> HIDE DEF t
  <2> QED BY <2>1, <2>2, <1>c
<1> HIDE DEF t
<1>d. /\ DOMAIN t = 1 .. (Len(s) + 1)
      /\ ToSet(t) = {t[j] : j \in 1 .. (Len(s) + 1)}
      /\ DOMAIN s = 1 .. Len(s)
      /\ ToSet(s) = {s[j] : j \in 1 .. Len(s)}
  BY <1>3, ToSetOfSeq
<1>4. ToSet(t) = ToSet(s) \cup {x}
  <2>1. ToSet(t) \subseteq ToSet(s) \cup {x}
    <3> SUFFICES ASSUME NEW j \in 1 .. (Len(s) + 1)
                 PROVE  t[j] \in ToSet(s) \cup {x}
      BY <1>d
    <3>1. CASE j < i
      BY <3>1, <1>3, <1>d
    <3>2. CASE j = i
      BY <3>2, <1>3
    <3>3. CASE j > i
      <4>1. j - 1 \in 1 .. Len(s) /\ t[j] = s[j - 1]
        BY <3>3, <1>3
      <4> QED BY <4>1, <1>d
    <3> QED BY <3>1, <3>2, <3>3
  <2>2. t[i] = x /\ i \in 1 .. (Len(s) + 1)
    BY <1>3
  <2>3. ASSUME NEW k \in 1 .. Len(s)
        PROVE  s[k] \in ToSet(t)
    <3>1. CASE k < i
      BY <3>1, <1>3, <1>d
    <3>2. CASE k >= i
      <4>1. k + 1 \in 1 .. (Len(s) + 1) /\ t[k + 1] = s[k]
        BY <3>2, <1>3
      <4> QED BY <4>1, <1>d
    <3> QED BY <3>1, <3>2
  <2> QED BY <2>1, <2>2, <2>3, <1>d
<1>5. Distinct(s) /\ x \notin ToSet(s) => Distinct(t)
  <2> SUFFICES ASSUME Distinct(s), x \notin ToSet(s),
                      NEW j \in 1 .. (Len(s) + 1), NEW k \in 1 .. (Len(s) + 1),
                      t[j] = t[k]
               PROVE  j = k
    BY <1>d DEF Distinct
  <2>1. \A m \in 1 .. Len(s) : s[m] # x
    BY <1>d
  <2>2. \A m, o \in 1 .. Len(s) : s[m] = s[o] => m = o
    BY <1>d DEF Distinct
  <2> DEFINE old(m) == IF m < i THEN m ELSE m - 1
  <2>3. \A m \in 1 .. (Len(s) + 1) :
          m # i => old(m) \in 1 .. Len(s) /\ t[m] = s[old(m)]
    BY <1>3
  <2>4. t[i] = x /\ i \in 1 .. (Len(s) + 1)
    BY <1>3
  <2>5. CASE j = i \/ k = i
    BY <2>1, <2>3, <2>4, <2>5
  <2>6. CASE j # i /\ k # i
    <3>1. old(j) = old(k)
      BY <2>2, <2>3, <2>6
    <3> QED BY <3>1, <2>6
  <2> QED BY <2>5, <2>6
<1>6. IsPut(t, s, i, x, S)
  BY <1>3, <1>4, <1>5, <1>d DEF IsPut
<1> QED BY <1>6 DEF t, a, b

\* A non-empty set of natural numbers has a least element.
LEMMA LeastNatural ==
    ASSUME NEW I \in SUBSET Nat, I # {}
    PROVE  /\ Min(I) \in I
           /\ \A k \in I : Min(I) <= k
<1> DEFINE T == {1 .. k : k \in I}
           R == StrictSubsetOrdering(Nat)
<1>1. T \subseteq FiniteSubsetsOf(Nat) /\ T # {}
  <2> SUFFICES ASSUME NEW k \in I
               PROVE  1 .. k \in SUBSET Nat /\ IsFiniteSet(1 .. k)
    BY DEF FiniteSubsetsOf
  <2> QED BY FS_Interval
<1>2. IsWellFoundedOn(R, FiniteSubsetsOf(Nat))
  BY FS_StrictSubsetOrderingWellFounded
<1>3. PICK t \in T : \A u \in T : ~(<<u, t>> \in R)
  BY <1>1, <1>2, WFMin
<1>4. PICK m \in I : t = 1 .. m
  BY <1>3
<1>5. ASSUME NEW k \in I, k < m
      PROVE  FALSE
  <2>1. 1 .. k \subseteq 1 .. m /\ m \in 1 .. m /\ m \notin 1 .. k
    BY <1>5
  <2>2. <<1 .. k, 1 .. m>> \in R
    BY <2>1 DEF StrictSubsetOrdering
  <2> QED BY <1>3, <1>4, <2>2
<1>6. \A k \in I : m <= k
  BY <1>5
<1> QED BY <1>6 DEF Min

-----------------------------------------------------------------------------
(* The inductive invariant, about the tables a handler works on.           *)

\* Every queue holds the waiting commands of its lane, each once.
QueuesMatch(ents, q) ==
    /\ \A l \in Lanes : Distinct(q[l])
    /\ \A l \in Lanes, e \in Entries :
         e \in ToSet(q[l]) <=> ents[e].status = "queued" /\ ents[e].lane = l

QueuesOrdered(ents, q) ==
    \A l \in Lanes : \A i, j \in DOMAIN q[l] :
      i < j => GoesBefore(ents[q[l][i]], ents[q[l][j]])

SlotsMatch(ents, active, gen) ==
    \A l \in Lanes, e \in Entries :
      e \in active[l] <=> /\ ents[e].status = "running"
                          /\ ents[e].lane = l
                          /\ ents[e].taskGeneration = gen[l]

EntriesMatch(ents, gen, next) ==
    \A e \in Entries :
      /\ ents[e].answer = "pending" <=> ents[e].status \in {"queued", "running"}
      /\ ents[e].status = "running" => ents[e].taskGeneration <= gen[ents[e].lane]
      /\ ents[e].status = "queued" => ents[e].sequence < next

Typed(ents, q, active) ==
    /\ ents \in [Entries -> Entry]
    /\ q \in [Lanes -> Seq(Entries)]
    /\ active \in [Lanes -> SUBSET Entries]

Core(ents, q, active, gen, next) ==
    /\ Typed(ents, q, active)
    /\ QueuesMatch(ents, q)
    /\ QueuesOrdered(ents, q)
    /\ SlotsMatch(ents, active, gen)
    /\ EntriesMatch(ents, gen, next)

IInv == /\ TypeOK
        /\ Core(entry, queue, activeTaskIds, generation, nextQueueSequence)

\* pump() starts as many commands as there are free slots, and no more than
\* are queued.
LEMMA StartableInQueue ==
    ASSUME NEW q \in Seq(Entries), NEW active \in SUBSET Entries, NEW limit \in Nat
    PROVE  Startable(q, active, limit) \in 0 .. Len(q)
<1>1. Cardinality(active) \in Nat
  BY ConstantsAssumption, FS_Subset, FS_CardinalityType
<1>2. Len(q) \in Nat
  OBVIOUS
<1> QED BY <1>1, <1>2 DEF Startable

\* What drainLane leaves behind, for whatever tables it is called on.
LEMMA DrainKeepsCore ==
    ASSUME NEW ls \in SUBSET Lanes, NEW ents, NEW q, NEW active,
           NEW limit \in [Lanes -> Nat], NEW gen \in [Lanes -> Nat],
           NEW next \in Nat,
           Core(ents, q, active, gen, next),
           Drain(ls, ents, q, active, limit, gen)
    PROVE  Core(entry', queue', activeTaskIds', gen, next)
<1> DEFINE n == [l \in Lanes |->
                   IF l \in ls THEN Startable(q[l], active[l], limit[l]) ELSE 0]
           heads == [l \in Lanes |-> ToSet(SubSeq(q[l], 1, n[l]))]
           rests == [l \in Lanes |-> SubSeq(q[l], n[l] + 1, Len(q[l]))]
           starts(e) == \E l \in Lanes : e \in heads[l]
<1>1. Typed(ents, q, active) /\ QueuesMatch(ents, q) /\ QueuesOrdered(ents, q)
      /\ SlotsMatch(ents, active, gen) /\ EntriesMatch(ents, gen, next)
  BY DEF Core
<1>2. ASSUME NEW l \in Lanes
      PROVE  n[l] \in 0 .. Len(q[l])
  <2>1. q[l] \in Seq(Entries) /\ active[l] \in SUBSET Entries /\ limit[l] \in Nat
    BY <1>1 DEF Typed
  <2> QED BY <2>1, StartableInQueue
<1> HIDE DEF n
<1>3. ASSUME NEW l \in Lanes
      PROVE  /\ heads[l] \in SUBSET Entries
             /\ rests[l] \in Seq(Entries)
             /\ \A i \in DOMAIN rests[l] :
                  i + n[l] \in DOMAIN q[l] /\ rests[l][i] = q[l][i + n[l]]
             /\ DOMAIN rests[l] \subseteq Nat
             /\ ToSet(q[l]) = heads[l] \cup ToSet(rests[l])
             /\ Distinct(rests[l])
             /\ heads[l] \cap ToSet(rests[l]) = {}
  <2>1. q[l] \in Seq(Entries) /\ Distinct(q[l]) /\ n[l] \in 0 .. Len(q[l])
    BY <1>1, <1>2 DEF Typed, QueuesMatch
  <2> DEFINE s == q[l]
             k == n[l]
             head == SubSeq(s, 1, k)
             rest == SubSeq(s, k + 1, Len(s))
  <2>2. /\ heads[l] = ToSet(head)
        /\ rests[l] = rest
    OBVIOUS
  <2> HIDE DEF s, k, heads, rests
  <2>3. s \in Seq(Entries) /\ Distinct(s) /\ k \in 0 .. Len(s)
    BY <2>1 DEF s, k
  <2>4. /\ head \in Seq(Entries)
        /\ rest \in Seq(Entries)
        /\ \A i \in DOMAIN rest : i + k \in DOMAIN s /\ rest[i] = s[i + k]
        /\ ToSet(s) = ToSet(head) \cup ToSet(rest)
        /\ Distinct(rest)
        /\ ToSet(head) \cap ToSet(rest) = {}
    BY <2>3, CutQueue
  <2> HIDE DEF head, rest
  <2>5. ToSet(head) \in SUBSET Entries
    BY <2>4, ToSetType
  <2>6. DOMAIN rest \subseteq Nat
    BY <2>4
  <2> QED BY <2>2, <2>4, <2>5, <2>6 DEF s, k
<1>4. /\ queue' = rests
      /\ activeTaskIds' = [l \in Lanes |-> active[l] \cup heads[l]]
      /\ entry' = [e \in Entries |->
                     IF starts(e) THEN Started(ents[e], e, gen[ents[e].lane])
                     ELSE ents[e]]
  BY DEF Drain, n
<1> HIDE DEF heads, rests
<1>5. ASSUME NEW e \in Entries, NEW l \in Lanes
      PROVE  e \in heads[l] <=> /\ ents[e].status = "queued"
                                /\ ents[e].lane = l
                                /\ e \notin ToSet(rests[l])
  BY <1>1, <1>3 DEF QueuesMatch
<1>6. ASSUME NEW e \in Entries, starts(e)
      PROVE  /\ e \in heads[ents[e].lane]
             /\ ents[e].status = "queued"
             /\ ents[e].lane \in Lanes
             /\ entry'[e] \in Entry
             /\ entry'[e].status = "running"
             /\ entry'[e].lane = ents[e].lane
             /\ entry'[e].taskGeneration = gen[ents[e].lane]
             /\ entry'[e].priority = ents[e].priority
             /\ entry'[e].sequence = ents[e].sequence
             /\ entry'[e].answer = ents[e].answer
  <2>1. e \in heads[ents[e].lane] /\ ents[e].status = "queued" /\ ents[e].lane \in Lanes
    BY <1>5, <1>6
  <2>2. entry'[e] = Started(ents[e], e, gen[ents[e].lane])
    BY <1>4, <1>6
  <2>3. ents[e] \in Entry /\ gen[ents[e].lane] \in Nat
    BY <1>1, <2>1 DEF Typed
  <2> QED BY <2>1, <2>2, <2>3 DEF Started, Entry, Status, Timer, Race, Body
<1>7. ASSUME NEW e \in Entries, ~starts(e)
      PROVE  entry'[e] = ents[e]
  BY <1>4, <1>7
<1>8. Typed(entry', queue', activeTaskIds')
  <2>1. entry' \in [Entries -> Entry]
    BY <1>1, <1>4, <1>6, <1>7 DEF Typed
  <2>2. queue' \in [Lanes -> Seq(Entries)]
    BY <1>3, <1>4 DEF rests
  <2>3. activeTaskIds' \in [Lanes -> SUBSET Entries]
    BY <1>1, <1>3, <1>4 DEF Typed
  <2> QED BY <2>1, <2>2, <2>3 DEF Typed
<1>9. QueuesMatch(entry', queue')
  <2>1. ASSUME NEW l \in Lanes
        PROVE  Distinct(queue'[l])
    BY <1>3, <1>4
  <2>2. ASSUME NEW l \in Lanes, NEW e \in Entries
        PROVE  e \in ToSet(queue'[l]) <=> entry'[e].status = "queued" /\ entry'[e].lane = l
    <3>1. CASE starts(e)
      <4>1. e \notin ToSet(rests[l])
        BY <1>1, <1>3, <1>5, <1>6, <3>1 DEF QueuesMatch
      <4> QED BY <4>1, <1>4, <1>6, <3>1
    <3>2. CASE ~starts(e)
      BY <1>1, <1>3, <1>4, <1>5, <1>7, <3>2 DEF QueuesMatch
    <3> QED BY <3>1, <3>2
  <2> QED BY <2>1, <2>2 DEF QueuesMatch
<1>10. QueuesOrdered(entry', queue')
  <2> SUFFICES ASSUME NEW l \in Lanes, NEW i \in DOMAIN rests[l], NEW j \in DOMAIN rests[l],
                      i < j
               PROVE  GoesBefore(entry'[rests[l][i]], entry'[rests[l][j]])
    BY <1>4 DEF QueuesOrdered
  <2>1. /\ i + n[l] \in DOMAIN q[l] /\ rests[l][i] = q[l][i + n[l]]
        /\ j + n[l] \in DOMAIN q[l] /\ rests[l][j] = q[l][j + n[l]]
        /\ i + n[l] < j + n[l]
    BY <1>2, <1>3
  <2>2. GoesBefore(ents[rests[l][i]], ents[rests[l][j]])
    BY <1>1, <2>1 DEF QueuesOrdered
  <2>3. ASSUME NEW k \in DOMAIN rests[l]
        PROVE  entry'[rests[l][k]] = ents[rests[l][k]]
    <3>1. rests[l][k] \in ToSet(rests[l]) /\ rests[l][k] \in Entries
      BY <1>3 DEF ToSet
    <3>a. rests[l][k] \in ToSet(q[l])
      BY <1>3, <3>1
    <3>b. ents[rests[l][k]].lane = l
      BY <1>1, <3>1, <3>a DEF QueuesMatch
    <3>2. ~starts(rests[l][k])
      BY <1>5, <3>1, <3>b
    <3> QED BY <1>7, <3>1, <3>2
  <2> QED BY <2>2, <2>3
<1>11. SlotsMatch(entry', activeTaskIds', gen)
  <2> SUFFICES ASSUME NEW l \in Lanes, NEW e \in Entries
               PROVE  e \in activeTaskIds'[l] <=> /\ entry'[e].status = "running"
                                                  /\ entry'[e].lane = l
                                                  /\ entry'[e].taskGeneration = gen[l]
    BY DEF SlotsMatch
  <2>1. e \in activeTaskIds'[l] <=> e \in active[l] \/ e \in heads[l]
    BY <1>4
  <2>2. CASE starts(e)
    BY <1>1, <1>5, <1>6, <2>1, <2>2 DEF SlotsMatch
  <2>3. CASE ~starts(e)
    BY <1>1, <1>7, <2>1, <2>3 DEF SlotsMatch
  <2> QED BY <2>2, <2>3
<1>12. EntriesMatch(entry', gen, next)
  <2> SUFFICES ASSUME NEW e \in Entries
               PROVE  /\ entry'[e].answer = "pending"
                           <=> entry'[e].status \in {"queued", "running"}
                      /\ entry'[e].status = "running"
                           => entry'[e].taskGeneration <= gen[entry'[e].lane]
                      /\ entry'[e].status = "queued" => entry'[e].sequence < next
    BY DEF EntriesMatch
  <2>1. CASE starts(e)
    BY <1>1, <1>6, <2>1 DEF EntriesMatch
  <2>2. CASE ~starts(e)
    BY <1>1, <1>7, <2>2 DEF EntriesMatch
  <2> QED BY <2>1, <2>2
<1> QED BY <1>8, <1>9, <1>10, <1>11, <1>12 DEF Core

\* Where enqueueLaneEntry puts a command: behind all that do not yield to it,
\* in front of the first that does.
LEMMA EnqueuePlace ==
    ASSUME NEW ents, NEW q \in Seq(Entries), NEW e \in Entries
    PROVE  \E i \in 1 .. (Len(q) + 1) :
             /\ EnqueueLaneEntry(ents, q, e)
                  = SubSeq(q, 1, i - 1) \o <<e>> \o SubSeq(q, i, Len(q))
             /\ \A j \in 1 .. (i - 1) : ~YieldsTo(ents[q[j]], ents[e])
             /\ i \in 1 .. Len(q) => YieldsTo(ents[q[i]], ents[e])
<1> DEFINE I == {i \in 1 .. Len(q) : YieldsTo(ents[q[i]], ents[e])}
           at == IF I # {} THEN Min(I) ELSE 0
<1>1. SelectInSeq(q, LAMBDA d : YieldsTo(ents[d], ents[e])) = at
  BY DEF SelectInSeq
<1>2. EnqueueLaneEntry(ents, q, e)
        = IF at = 0 THEN Append(q, e) ELSE InsertAt(q, at, e)
  BY <1>1 DEF EnqueueLaneEntry
<1>3. CASE I = {}
  <2>1. EnqueueLaneEntry(ents, q, e) = Append(q, e)
    BY <1>2, <1>3
  <2>2. SubSeq(q, 1, (Len(q) + 1) - 1) = q
    OBVIOUS
  <2>3. SubSeq(q, Len(q) + 1, Len(q)) = <<>>
    BY SubSeqEmpty
  <2>4. Append(q, e) = q \o <<e>> \o <<>>
    <3>1. q \o <<e>> \in Seq(Entries)
      OBVIOUS
    <3> QED BY <3>1, ConcatEmptySeq
  <2>5. \A j \in 1 .. Len(q) : ~YieldsTo(ents[q[j]], ents[e])
    BY <1>3
  <2> WITNESS Len(q) + 1 \in 1 .. (Len(q) + 1)
  <2> QED BY <2>1, <2>2, <2>3, <2>4, <2>5
<1>4. CASE I # {}
  <2>a. at = Min(I) /\ I \in SUBSET Nat
    BY <1>4
  <2>b. (at \in I => at \in 1 .. Len(q) /\ YieldsTo(ents[q[at]], ents[e]))
    OBVIOUS
  <2>1. at \in I /\ \A k \in I : at <= k
    <3> HIDE DEF I, at
    <3> QED BY <1>4, <2>a, LeastNatural
  <2>2. at \in 1 .. Len(q) /\ YieldsTo(ents[q[at]], ents[e])
    BY <2>1, <2>b
  <2>3. \A j \in 1 .. (at - 1) : ~YieldsTo(ents[q[j]], ents[e])
    <3> SUFFICES ASSUME NEW j \in 1 .. (at - 1), YieldsTo(ents[q[j]], ents[e])
                 PROVE  FALSE
      OBVIOUS
    <3>1. j \in I
      <4> HIDE DEF at
      <4> QED BY <2>2
    <3> HIDE DEF at, I
    <3> QED BY <2>1, <2>2, <3>1
  <2>4. EnqueueLaneEntry(ents, q, e)
          = SubSeq(q, 1, at - 1) \o <<e>> \o SubSeq(q, at, Len(q))
    <3> HIDE DEF at
    <3> QED BY <1>2, <2>2 DEF InsertAt
  <2> HIDE DEF at, I
  <2>5. at \in 1 .. (Len(q) + 1)
    BY <2>2
  <2> WITNESS at \in 1 .. (Len(q) + 1)
  <2> QED BY <2>2, <2>3, <2>4
<1> QED BY <1>3, <1>4

LEMMA EnqueuedEntry ==
    ASSUME NEW d \in Entry, NEW l \in Lanes, NEW p \in Priority, NEW n \in Nat
    PROVE  /\ Enqueued(d, l, p, n) \in Entry
           /\ Enqueued(d, l, p, n).status = "queued"
           /\ Enqueued(d, l, p, n).lane = l
           /\ Enqueued(d, l, p, n).priority = p
           /\ Enqueued(d, l, p, n).sequence = n
           /\ Enqueued(d, l, p, n).answer = "pending"
<1> USE DEF Enqueued
<1>1. /\ Enqueued(d, l, p, n).status \in Status
      /\ Enqueued(d, l, p, n).answer \in Answer
  BY DEF Entry, Status, Answer
<1> QED BY <1>1 DEF Entry

\* Adding a command to a queue keeps the tables in agreement.
LEMMA EnqueueKeepsCore ==
    ASSUME NEW e \in Entries, NEW l \in Lanes, NEW p \in Priorities,
           IInv, entry[e].status = "new",
           NEW ents, NEW q,
           ents = [entry EXCEPT ![e] = Enqueued(@, l, p, nextQueueSequence)],
           q = [queue EXCEPT ![l] = EnqueueLaneEntry(ents, queue[l], e)]
    PROVE  Core(ents, q, activeTaskIds, generation, nextQueueSequence + 1)
<1> DEFINE s == queue[l]
           t == q[l]
<1>1. /\ Typed(entry, queue, activeTaskIds)
      /\ QueuesMatch(entry, queue)
      /\ QueuesOrdered(entry, queue)
      /\ SlotsMatch(entry, activeTaskIds, generation)
      /\ EntriesMatch(entry, generation, nextQueueSequence)
      /\ nextQueueSequence \in Nat
      /\ p \in Priority
  BY ConstantsAssumption DEF IInv, Core, TypeOK, Priority, Background, Foreground
<1>2. /\ ents \in [Entries -> Entry]
      /\ ents[e].status = "queued"
      /\ ents[e].lane = l
      /\ ents[e].priority = p
      /\ ents[e].answer = "pending"
      /\ ents[e].sequence = nextQueueSequence
      /\ \A d \in Entries : d # e => ents[d] = entry[d]
  <2>1. entry[e] \in Entry
    BY <1>1 DEF Typed
  <2>2. ents[e] = Enqueued(entry[e], l, p, nextQueueSequence)
    BY <1>1 DEF Typed
  <2> DEFINE x == Enqueued(entry[e], l, p, nextQueueSequence)
  <2>3. /\ x \in Entry
        /\ x.status = "queued" /\ x.lane = l /\ x.priority = p
        /\ x.sequence = nextQueueSequence /\ x.answer = "pending"
    <3>1. nextQueueSequence \in Nat
      BY <1>1
    <3>2. p \in Priority
      BY <1>1
    <3>3. x \in Entry
      BY <2>1, <3>1, <3>2, EnqueuedEntry
    <3>4. x.status = "queued"
      BY <2>1, <3>1, <3>2, EnqueuedEntry
    <3>5. x.sequence = nextQueueSequence
      BY <2>1, <3>1, <3>2, EnqueuedEntry
    <3>6. x.lane = l /\ x.priority = p /\ x.answer = "pending"
      BY <2>1, <3>1, <3>2, EnqueuedEntry
    <3> QED BY <3>3, <3>4, <3>5, <3>6
  <2> HIDE DEF x
  <2>4. ents[e] = x
    BY <2>2 DEF x
  <2>5. /\ ents \in [Entries -> Entry]
        /\ \A d \in Entries : d # e => ents[d] = entry[d]
    BY <1>1, <2>3, <2>4 DEF Typed
  <2> QED BY <2>3, <2>4, <2>5
<1>3. s \in Seq(Entries) /\ Distinct(s) /\ e \notin ToSet(s)
  BY <1>1 DEF Typed, QueuesMatch
<1>4. t = EnqueueLaneEntry(ents, s, e) /\ \A m \in Lanes : m # l => q[m] = queue[m]
  BY <1>1 DEF Typed
<1> HIDE DEF s, t
<1>5. PICK i \in 1 .. (Len(s) + 1) :
             /\ t = SubSeq(s, 1, i - 1) \o <<e>> \o SubSeq(s, i, Len(s))
             /\ \A j \in 1 .. (i - 1) : ~YieldsTo(ents[s[j]], ents[e])
             /\ i \in 1 .. Len(s) => YieldsTo(ents[s[i]], ents[e])
  BY <1>3, <1>4, EnqueuePlace
<1>6. /\ t \in Seq(Entries)
      /\ Len(t) = Len(s) + 1
      /\ \A j \in DOMAIN t : t[j] = IF j < i THEN s[j]
                                    ELSE IF j = i THEN e ELSE s[j - 1]
      /\ ToSet(t) = ToSet(s) \cup {e}
      /\ Distinct(t)
  <2>1. IsPut(t, s, i, e, Entries)
    BY <1>3, <1>5, PutIntoQueue
  <2> QED BY <2>1, <1>3 DEF IsPut
<1>7. Typed(ents, q, activeTaskIds)
  BY <1>1, <1>2, <1>4, <1>6 DEF Typed, t
<1>8. QueuesMatch(ents, q)
  <2>1. ASSUME NEW m \in Lanes
        PROVE  Distinct(q[m])
    BY <1>1, <1>4, <1>6 DEF QueuesMatch, t
  <2>2. ASSUME NEW m \in Lanes, NEW d \in Entries
        PROVE  d \in ToSet(q[m]) <=> ents[d].status = "queued" /\ ents[d].lane = m
    <3>1. CASE m = l
      <4>1. d \in ToSet(q[m]) <=> d \in ToSet(queue[m]) \/ d = e
        BY <1>6, <3>1 DEF t, s
      <4> QED BY <1>1, <1>2, <3>1, <4>1 DEF QueuesMatch
    <3>2. CASE m # l
      BY <1>1, <1>2, <1>4, <3>2 DEF QueuesMatch
    <3> QED BY <3>1, <3>2
  <2> QED BY <2>1, <2>2 DEF QueuesMatch
<1>9. QueuesOrdered(ents, q)
  <2>1. ASSUME NEW m \in Lanes, m # l, NEW j \in DOMAIN q[m], NEW k \in DOMAIN q[m], j < k
        PROVE  GoesBefore(ents[q[m][j]], ents[q[m][k]])
    <3>1. q[m] = queue[m] /\ queue[m] \in Seq(Entries)
      BY <1>1, <1>4, <2>1 DEF Typed
    <3>2. ASSUME NEW o \in DOMAIN q[m]
          PROVE  ents[q[m][o]] = entry[q[m][o]]
      <4>1. q[m][o] \in ToSet(queue[m]) /\ q[m][o] \in Entries
        <5>1. o \in 1 .. Len(queue[m])
          BY <3>1
        <5> QED BY <3>1, <5>1, ToSetOfSeq
      <4> QED BY <1>1, <1>2, <4>1 DEF QueuesMatch
    <3> QED BY <1>1, <2>1, <3>1, <3>2 DEF QueuesOrdered
  <2>2. ASSUME NEW j \in DOMAIN t, NEW k \in DOMAIN t, j < k
        PROVE  GoesBefore(ents[t[j]], ents[t[k]])
    <3>1. DOMAIN t = 1 .. (Len(s) + 1) /\ DOMAIN s = 1 .. Len(s) /\ Len(s) \in Nat
      BY <1>3, <1>6
    <3>2. ASSUME NEW m \in 1 .. Len(s)
          PROVE  /\ ents[s[m]] = entry[s[m]]
                 /\ ents[s[m]] \in Entry
                 /\ ents[s[m]].sequence < nextQueueSequence
      <4>1. s[m] \in ToSet(s) /\ s[m] \in Entries
        BY <1>3, ToSetOfSeq
      <4>2. entry[s[m]].status = "queued" /\ s[m] # e
        BY <1>1, <1>3, <4>1 DEF QueuesMatch, s
      <4> QED BY <1>1, <1>2, <4>1, <4>2 DEF EntriesMatch
    <3>3. ASSUME NEW m \in 1 .. Len(s), NEW o \in 1 .. Len(s), m < o
          PROVE  GoesBefore(ents[s[m]], ents[s[o]])
      BY <1>1, <3>1, <3>2, <3>3 DEF QueuesOrdered, s
    <3>4. ents[e] \in Entry /\ ents[e].priority = p /\ ents[e].sequence = nextQueueSequence
      BY <1>2
    <3>5. ASSUME NEW m \in 1 .. (i - 1)
          PROVE  GoesBefore(ents[s[m]], ents[e])
      <4>1. m \in 1 .. Len(s) /\ ~YieldsTo(ents[s[m]], ents[e])
        BY <1>5, <3>1
      <4> QED BY <1>1, <3>2, <3>4, <4>1 DEF YieldsTo, GoesBefore, Entry, Priority, Background, Foreground
    <3>6. ASSUME NEW m \in i .. Len(s)
          PROVE  GoesBefore(ents[e], ents[s[m]])
      <4>1. i \in 1 .. Len(s) /\ m \in 1 .. Len(s) /\ YieldsTo(ents[s[i]], ents[e])
        BY <1>5, <3>1
      <4>2. ents[s[i]].priority < p
        BY <1>1, <3>2, <3>4, <4>1 DEF YieldsTo, Entry, Priority, Background, Foreground
      <4>3. ents[s[m]].priority \in Int /\ ents[s[i]].priority \in Int
        BY <3>2, <4>1 DEF Entry, Priority, Background, Foreground
      <4>4. ents[s[m]].priority <= ents[s[i]].priority
        <5>1. CASE m = i
          BY <5>1, <4>3
        <5>2. CASE i < m
          <6>1. GoesBefore(ents[s[i]], ents[s[m]])
            BY <3>3, <4>1, <5>2
          <6> QED BY <6>1, <4>3 DEF GoesBefore
        <5> QED BY <5>1, <5>2
      <4> QED BY <1>1, <3>4, <4>2, <4>3, <4>4 DEF GoesBefore, Priority, Background, Foreground
    <3>7. CASE k < i
      <4>1. j \in 1 .. Len(s) /\ k \in 1 .. Len(s) /\ t[j] = s[j] /\ t[k] = s[k]
        BY <1>6, <2>2, <3>1, <3>7
      <4> QED BY <2>2, <3>3, <4>1
    <3>8. CASE k = i
      <4>1. j \in 1 .. (i - 1) /\ t[j] = s[j] /\ t[k] = e
        BY <1>6, <2>2, <3>1, <3>8
      <4> QED BY <3>5, <4>1
    <3>9. CASE i < k /\ j = i
      <4>1. k - 1 \in i .. Len(s) /\ t[k] = s[k - 1] /\ t[j] = e
        BY <1>6, <2>2, <3>1, <3>9
      <4> QED BY <3>6, <4>1
    <3>10. CASE i < k /\ j < i
      <4>1. /\ j \in 1 .. Len(s) /\ k - 1 \in 1 .. Len(s) /\ j < k - 1
            /\ t[j] = s[j] /\ t[k] = s[k - 1]
        BY <1>6, <2>2, <3>1, <3>10
      <4> QED BY <3>3, <4>1
    <3>11. CASE i < k /\ i < j
      <4>1. /\ j - 1 \in 1 .. Len(s) /\ k - 1 \in 1 .. Len(s) /\ j - 1 < k - 1
            /\ t[j] = s[j - 1] /\ t[k] = s[k - 1]
        BY <1>6, <2>2, <3>1, <3>11
      <4> QED BY <3>3, <4>1
    <3> QED BY <3>1, <3>7, <3>8, <3>9, <3>10, <3>11
  <2> QED BY <2>1, <2>2 DEF QueuesOrdered, t
<1>10. SlotsMatch(ents, activeTaskIds, generation)
  BY <1>1, <1>2 DEF SlotsMatch
<1>11. EntriesMatch(ents, generation, nextQueueSequence + 1)
  <2> SUFFICES ASSUME NEW d \in Entries
               PROVE  /\ ents[d].answer = "pending" <=> ents[d].status \in {"queued", "running"}
                      /\ ents[d].status = "running"
                           => ents[d].taskGeneration <= generation[ents[d].lane]
                      /\ ents[d].status = "queued" => ents[d].sequence < nextQueueSequence + 1
    BY DEF EntriesMatch
  <2>1. CASE d = e
    BY <1>1, <1>2, <2>1
  <2>2. CASE d # e
    <3>1. ents[d] = entry[d] /\ entry[d] \in Entry
      BY <1>1, <1>2, <2>2 DEF Typed
    <3> QED BY <1>1, <3>1 DEF EntriesMatch, Entry
  <2> QED BY <2>1, <2>2
<1> QED BY <1>7, <1>8, <1>9, <1>10, <1>11 DEF Core

\* x is d but for its race, its timer and what a refused caller is told.
SameSchedule(d, x) ==
    /\ x \in Entry
    /\ x.status = d.status
    /\ x.lane = d.lane
    /\ x.priority = d.priority
    /\ x.sequence = d.sequence
    /\ x.taskGeneration = d.taskGeneration
    /\ x.answer = "pending" <=> d.answer = "pending"

\* Steps that change commands in this way keep the tables in agreement.
LEMMA SameScheduleKeepsCore ==
    ASSUME NEW ents, NEW new, NEW q, NEW active, NEW gen, NEW next,
           Core(ents, q, active, gen, next),
           new \in [Entries -> Entry],
           \A d \in Entries : SameSchedule(ents[d], new[d])
    PROVE  Core(new, q, active, gen, next)
<1>a. \A d \in Entries : /\ new[d].status = ents[d].status
                         /\ new[d].lane = ents[d].lane
                         /\ new[d].priority = ents[d].priority
                         /\ new[d].sequence = ents[d].sequence
                         /\ new[d].taskGeneration = ents[d].taskGeneration
  BY DEF SameSchedule
<1>b. \A d \in Entries : new[d].answer = "pending" <=> ents[d].answer = "pending"
  BY DEF SameSchedule
<1>1. Typed(new, q, active)
  BY DEF Core, Typed
<1>2. QueuesMatch(new, q)
  BY <1>a DEF Core, QueuesMatch
<1>3. QueuesOrdered(new, q)
  <2> SUFFICES ASSUME NEW l \in Lanes, NEW i \in DOMAIN q[l], NEW j \in DOMAIN q[l], i < j
               PROVE  GoesBefore(new[q[l][i]], new[q[l][j]])
    BY DEF QueuesOrdered
  <2>1. q[l][i] \in Entries /\ q[l][j] \in Entries
    BY DEF Core, Typed
  <2>2. GoesBefore(ents[q[l][i]], ents[q[l][j]])
    BY DEF Core, QueuesOrdered
  <2> QED BY <1>a, <2>1, <2>2 DEF GoesBefore
<1>4. SlotsMatch(new, active, gen)
  BY <1>a DEF Core, SlotsMatch
<1>5. EntriesMatch(new, gen, next)
  BY <1>a, <1>b DEF Core, EntriesMatch
<1> QED BY <1>1, <1>2, <1>3, <1>4, <1>5 DEF Core

\* A step that changes one command in this way.
LEMMA RaceStepKeepsCore ==
    ASSUME NEW e \in Entries, NEW x, IInv, SameSchedule(entry[e], x),
           entry' = [entry EXCEPT ![e] = x],
           UNCHANGED <<queue, activeTaskIds, generation, nextQueueSequence>>
    PROVE  Core(entry, queue, activeTaskIds, generation, nextQueueSequence)'
<1>1. Core(entry, queue, activeTaskIds, generation, nextQueueSequence)
      /\ entry \in [Entries -> Entry]
  BY DEF IInv, TypeOK
<1>2. entry' \in [Entries -> Entry]
  BY <1>1 DEF SameSchedule
<1>3. ASSUME NEW d \in Entries
      PROVE  SameSchedule(entry[d], entry'[d])
  <2>1. CASE d = e
    BY <1>1, <2>1
  <2>2. CASE d # e
    <3>1. entry'[d] = entry[d] /\ entry[d] \in Entry
      BY <1>1, <2>2
    <3> QED BY <3>1 DEF SameSchedule
  <2> QED BY <2>1, <2>2
<1>4. Core(entry', queue, activeTaskIds, generation, nextQueueSequence)
  BY <1>1, <1>2, <1>3, SameScheduleKeepsCore
<1> QED BY <1>4

\* These are such changes.
LEMMA RaceSteps ==
    ASSUME NEW d \in Entry
    PROVE  /\ d.answer = "none" => SameSchedule(d, Refused(d))
           /\ \A outcome \in {"value", "error"} : SameSchedule(d, Settled(d, outcome))
           /\ SameSchedule(d, TimedOut(d))
           /\ SameSchedule(d, Aborted(d))
           /\ SameSchedule(d, Released(d))
<1>1. ASSUME d.answer = "none"
      PROVE  SameSchedule(d, Refused(d))
  <2>1. "refused" \in Answer
    BY DEF Answer
  <2>2. Refused(d) \in Entry
    BY <2>1 DEF Refused, Entry
  <2> QED BY <1>1, <2>2 DEF SameSchedule, Refused, Entry
<1>2. ASSUME NEW outcome \in {"value", "error"}
      PROVE  SameSchedule(d, Settled(d, outcome))
  <2>1. "finished" \in Body /\ (IF d.race = "open" THEN outcome ELSE d.race) \in Race
    BY DEF Body, Race, Entry
  <2>2. Settled(d, outcome) \in Entry
    BY <2>1 DEF Settled, Entry
  <2> QED BY <2>2 DEF SameSchedule, Settled, Entry
<1>3. SameSchedule(d, TimedOut(d))
  <2>1. "timeout" \in Race
    BY DEF Race
  <2>2. TimedOut(d) \in Entry
    BY <2>1 DEF TimedOut, Entry
  <2> QED BY <2>2 DEF SameSchedule, TimedOut, Entry
<1>4. SameSchedule(d, Aborted(d))
  <2>1. (IF d.timer = "progress" THEN "grace" ELSE d.timer) \in Timer
    BY DEF Timer, Entry
  <2>2. Aborted(d) \in Entry
    BY <2>1 DEF Aborted, Entry
  <2> QED BY <2>2 DEF SameSchedule, Aborted, Entry
<1>5. SameSchedule(d, Released(d))
  <2>1. (IF d.timer \in {"progress", "grace"} /\ d.race = "open"
         THEN "timeout" ELSE d.race) \in Race
    BY DEF Race, Entry
  <2>2. Released(d) \in Entry
    BY <2>1 DEF Released, Entry
  <2> QED BY <2>2 DEF SameSchedule, Released, Entry
<1> QED BY <1>1, <1>2, <1>3, <1>4, <1>5

\* Resetting the lanes rs: their running commands become strays of an older
\* generation.
LEMMA ResetKeepsCore ==
    ASSUME NEW rs \in SUBSET Lanes, IInv,
           NEW active, NEW gen,
           active = [l \in Lanes |-> IF l \in rs THEN {} ELSE activeTaskIds[l]],
           gen = [l \in Lanes |-> IF l \in rs THEN generation[l] + 1 ELSE generation[l]]
    PROVE  /\ gen \in [Lanes -> Nat]
           /\ Core(entry, queue, active, gen, nextQueueSequence)
<1>1. /\ Typed(entry, queue, activeTaskIds)
      /\ QueuesMatch(entry, queue)
      /\ QueuesOrdered(entry, queue)
      /\ SlotsMatch(entry, activeTaskIds, generation)
      /\ EntriesMatch(entry, generation, nextQueueSequence)
      /\ generation \in [Lanes -> Nat]
  BY DEF IInv, Core, TypeOK
<1>2. gen \in [Lanes -> Nat]
  BY <1>1
<1>3. Typed(entry, queue, active)
  BY <1>1 DEF Typed
<1>4. ASSUME NEW e \in Entries
      PROVE  entry[e].lane \in Lanes /\ entry[e].taskGeneration \in Nat
  <2>1. entry[e] \in Entry
    BY <1>1 DEF Typed
  <2> QED BY <2>1 DEF Entry
<1>5. SlotsMatch(entry, active, gen)
  <2> SUFFICES ASSUME NEW l \in Lanes, NEW e \in Entries
               PROVE  e \in active[l] <=> /\ entry[e].status = "running"
                                          /\ entry[e].lane = l
                                          /\ entry[e].taskGeneration = gen[l]
    BY DEF SlotsMatch
  <2>1. CASE l \in rs
    <3>1. active[l] = {} /\ gen[l] = generation[l] + 1
      BY <2>1
    <3>2. entry[e].status = "running" /\ entry[e].lane = l
            => entry[e].taskGeneration <= generation[l]
      BY <1>1 DEF EntriesMatch
    <3> QED BY <1>1, <1>4, <3>1, <3>2
  <2>2. CASE l \notin rs
    BY <1>1, <2>2 DEF SlotsMatch
  <2> QED BY <2>1, <2>2
<1>6. EntriesMatch(entry, gen, nextQueueSequence)
  <2> SUFFICES ASSUME NEW e \in Entries, entry[e].status = "running"
               PROVE  entry[e].taskGeneration <= gen[entry[e].lane]
    BY <1>1 DEF EntriesMatch
  <2>1. entry[e].taskGeneration <= generation[entry[e].lane]
    BY <1>1 DEF EntriesMatch
  <2>2. gen[entry[e].lane] = generation[entry[e].lane]
          \/ gen[entry[e].lane] = generation[entry[e].lane] + 1
    BY <1>4
  <2>3. generation[entry[e].lane] \in Nat
    BY <1>1, <1>4
  <2> QED BY <1>4, <2>1, <2>2, <2>3
<1> QED BY <1>1, <1>2, <1>3, <1>5, <1>6 DEF Core

LEMMA ContinuedEntry ==
    ASSUME NEW d \in Entry, d.race # "open"
    PROVE  /\ Continued(d) \in Entry
           /\ Continued(d).status = "left"
           /\ Continued(d).answer # "pending"
<1>1. d.race \in {"value", "error", "timeout"}
  BY DEF Entry, Race
<1>2. d.race \in Answer /\ "left" \in Status
  BY <1>1 DEF Answer, Status
<1>3. Continued(d) \in Entry
  BY <1>2 DEF Continued, Entry
<1>4. Continued(d).status = "left" /\ Continued(d).answer = d.race
  BY DEF Continued, Entry
<1> QED BY <1>1, <1>3, <1>4

\* The continuation of a command, before it pumps the lane.
LEMMA ContinueKeepsCore ==
    ASSUME NEW e \in Entries, IInv,
           entry[e].status = "running", entry[e].race # "open",
           NEW ents, NEW active,
           ents = [entry EXCEPT ![e] = Continued(@)],
           active = [activeTaskIds EXCEPT ![entry[e].lane] = @ \ {e}]
    PROVE  Core(ents, queue, active, generation, nextQueueSequence)
<1>1. /\ Typed(entry, queue, activeTaskIds)
      /\ QueuesMatch(entry, queue)
      /\ QueuesOrdered(entry, queue)
      /\ SlotsMatch(entry, activeTaskIds, generation)
      /\ EntriesMatch(entry, generation, nextQueueSequence)
  BY DEF IInv, Core
<1>2. entry[e] \in Entry /\ entry[e].lane \in Lanes
  BY <1>1 DEF Typed, Entry
<1>3. /\ ents[e] = Continued(entry[e])
      /\ \A d \in Entries : d # e => ents[d] = entry[d]
  BY <1>1 DEF Typed
<1>4. /\ ents[e] \in Entry
      /\ ents[e].status = "left"
      /\ ents[e].answer # "pending"
  BY <1>2, <1>3, ContinuedEntry
<1>5. Typed(ents, queue, active)
  <2>1. ents \in [Entries -> Entry]
    BY <1>1, <1>3, <1>4 DEF Typed
  <2>2. active \in [Lanes -> SUBSET Entries]
    BY <1>1, <1>2 DEF Typed
  <2> QED BY <1>1, <2>1, <2>2 DEF Typed
<1>6. ASSUME NEW l \in Lanes
      PROVE  e \notin ToSet(queue[l])
  BY <1>1 DEF QueuesMatch
<1>7. QueuesMatch(ents, queue)
  <2>1. ASSUME NEW l \in Lanes, NEW d \in Entries
        PROVE  d \in ToSet(queue[l]) <=> ents[d].status = "queued" /\ ents[d].lane = l
    <3>1. CASE d = e
      BY <1>4, <1>6, <3>1
    <3>2. CASE d # e
      BY <1>1, <1>3, <3>2 DEF QueuesMatch
    <3> QED BY <3>1, <3>2
  <2> QED BY <1>1, <2>1 DEF QueuesMatch
<1>8. QueuesOrdered(ents, queue)
  <2> SUFFICES ASSUME NEW l \in Lanes, NEW i \in DOMAIN queue[l], NEW j \in DOMAIN queue[l],
                      i < j
               PROVE  GoesBefore(ents[queue[l][i]], ents[queue[l][j]])
    BY DEF QueuesOrdered
  <2>1. ASSUME NEW k \in DOMAIN queue[l]
        PROVE  ents[queue[l][k]] = entry[queue[l][k]]
    <3>1. queue[l][k] \in ToSet(queue[l])
      BY DEF ToSet
    <3>2. queue[l][k] \in Entries
      BY <1>1 DEF Typed
    <3> QED BY <1>3, <1>6, <3>1, <3>2
  <2> QED BY <1>1, <2>1 DEF QueuesOrdered
<1>9. SlotsMatch(ents, active, generation)
  <2> SUFFICES ASSUME NEW l \in Lanes, NEW d \in Entries
               PROVE  d \in active[l] <=> /\ ents[d].status = "running"
                                          /\ ents[d].lane = l
                                          /\ ents[d].taskGeneration = generation[l]
    BY DEF SlotsMatch
  <2>1. d \in active[l] <=> d \in activeTaskIds[l] /\ ~(l = entry[e].lane /\ d = e)
    BY <1>1, <1>2 DEF Typed
  <2>2. CASE d = e
    BY <1>1, <1>4, <2>1, <2>2 DEF SlotsMatch
  <2>3. CASE d # e
    BY <1>1, <1>3, <2>1, <2>3 DEF SlotsMatch
  <2> QED BY <2>2, <2>3
<1>10. EntriesMatch(ents, generation, nextQueueSequence)
  <2> SUFFICES ASSUME NEW d \in Entries
               PROVE  /\ ents[d].answer = "pending" <=> ents[d].status \in {"queued", "running"}
                      /\ ents[d].status = "running"
                           => ents[d].taskGeneration <= generation[ents[d].lane]
                      /\ ents[d].status = "queued" => ents[d].sequence < nextQueueSequence
    BY DEF EntriesMatch
  <2>1. CASE d = e
    BY <1>4, <2>1
  <2>2. CASE d # e
    BY <1>1, <1>3, <2>2 DEF EntriesMatch
  <2> QED BY <2>1, <2>2
<1> QED BY <1>5, <1>7, <1>8, <1>9, <1>10 DEF Core

LEMMA ClearedEntry ==
    ASSUME NEW d \in Entry
    PROVE  /\ Cleared(d) \in Entry
           /\ Cleared(d).status = "left"
           /\ Cleared(d).answer = "cleared"
<1>1. "left" \in Status /\ "cleared" \in Answer
  BY DEF Status, Answer
<1>2. Cleared(d) \in Entry
  BY <1>1 DEF Cleared, Entry
<1> QED BY <1>2 DEF Cleared, Entry

\* Clearing a lane takes its waiting commands out of the tables.
LEMMA ClearKeepsCore ==
    ASSUME NEW l \in Lanes, IInv, ClearCommandLane(l)
    PROVE  Core(entry, queue, activeTaskIds, generation, nextQueueSequence)'
<1>1. /\ Typed(entry, queue, activeTaskIds)
      /\ QueuesMatch(entry, queue)
      /\ QueuesOrdered(entry, queue)
      /\ SlotsMatch(entry, activeTaskIds, generation)
      /\ EntriesMatch(entry, generation, nextQueueSequence)
  BY DEF IInv, Core
<1>2. /\ queue' = [queue EXCEPT ![l] = <<>>]
      /\ entry' = [e \in Entries |-> IF e \in ToSet(queue[l]) THEN Cleared(entry[e])
                                     ELSE entry[e]]
      /\ UNCHANGED <<activeTaskIds, generation, nextQueueSequence>>
  BY DEF ClearCommandLane
<1>3. /\ queue'[l] = <<>>
      /\ \A m \in Lanes : m # l => queue'[m] = queue[m]
      /\ queue' \in [Lanes -> Seq(Entries)]
  BY <1>1, <1>2, EmptySeq DEF Typed
<1>4. ASSUME NEW e \in Entries
      PROVE  IF entry[e].status = "queued" /\ entry[e].lane = l
             THEN /\ entry'[e] \in Entry
                  /\ entry'[e].status = "left"
                  /\ entry'[e].answer = "cleared"
             ELSE entry'[e] = entry[e]
  <2>1. e \in ToSet(queue[l]) <=> entry[e].status = "queued" /\ entry[e].lane = l
    BY <1>1 DEF QueuesMatch
  <2>2. entry[e] \in Entry
    BY <1>1 DEF Typed
  <2>3. CASE e \in ToSet(queue[l])
    <3>1. entry'[e] = Cleared(entry[e])
      BY <1>2, <2>3
    <3> QED BY <2>1, <2>2, <2>3, <3>1, ClearedEntry
  <2>4. CASE e \notin ToSet(queue[l])
    BY <1>2, <2>1, <2>4
  <2> QED BY <2>3, <2>4
<1>5. Typed(entry', queue', activeTaskIds')
  <2>1. \A e \in Entries : entry'[e] \in Entry
    BY <1>1, <1>4 DEF Typed
  <2>2. entry' \in [Entries -> Entry]
    BY <1>2, <2>1
  <2> QED BY <1>1, <1>2, <1>3, <2>2 DEF Typed
<1>6. QueuesMatch(entry', queue')
  <2>1. ASSUME NEW m \in Lanes
        PROVE  Distinct(queue'[m])
    BY <1>1, <1>3 DEF QueuesMatch, Distinct
  <2>2. ASSUME NEW m \in Lanes, NEW e \in Entries
        PROVE  e \in ToSet(queue'[m]) <=> entry'[e].status = "queued" /\ entry'[e].lane = m
    <3>1. CASE m = l
      <4>1. e \notin ToSet(queue'[m])
        BY <1>3, <3>1 DEF ToSet
      <4> QED BY <1>4, <3>1, <4>1
    <3>2. CASE m # l
      <4>1. queue'[m] = queue[m]
        BY <1>3, <3>2
      <4> QED BY <1>1, <1>4, <3>2, <4>1 DEF QueuesMatch
    <3> QED BY <3>1, <3>2
  <2> QED BY <2>1, <2>2 DEF QueuesMatch
<1>7. QueuesOrdered(entry', queue')
  <2> SUFFICES ASSUME NEW m \in Lanes, NEW i \in DOMAIN queue'[m], NEW j \in DOMAIN queue'[m],
                      i < j
               PROVE  GoesBefore(entry'[queue'[m][i]], entry'[queue'[m][j]])
    BY DEF QueuesOrdered
  <2>1. m # l /\ queue'[m] = queue[m]
    BY <1>3
  <2>2. ASSUME NEW k \in DOMAIN queue[m]
        PROVE  entry'[queue[m][k]] = entry[queue[m][k]]
    <3>1. queue[m][k] \in ToSet(queue[m]) /\ queue[m][k] \in Entries
      BY <1>1 DEF Typed, ToSet
    <3>2. entry[queue[m][k]].lane = m
      BY <1>1, <3>1 DEF QueuesMatch
    <3> QED BY <1>4, <2>1, <3>1, <3>2
  <2> QED BY <1>1, <2>1, <2>2 DEF QueuesOrdered
<1>8. SlotsMatch(entry', activeTaskIds', generation')
  <2> SUFFICES ASSUME NEW m \in Lanes, NEW e \in Entries
               PROVE  e \in activeTaskIds'[m] <=> /\ entry'[e].status = "running"
                                                  /\ entry'[e].lane = m
                                                  /\ entry'[e].taskGeneration = generation'[m]
    BY DEF SlotsMatch
  <2> QED BY <1>1, <1>2, <1>4 DEF SlotsMatch
<1>9. EntriesMatch(entry', generation', nextQueueSequence')
  <2> SUFFICES ASSUME NEW e \in Entries
               PROVE  /\ entry'[e].answer = "pending"
                           <=> entry'[e].status \in {"queued", "running"}
                      /\ entry'[e].status = "running"
                           => entry'[e].taskGeneration <= generation'[entry'[e].lane]
                      /\ entry'[e].status = "queued" => entry'[e].sequence < nextQueueSequence'
    BY DEF EntriesMatch
  <2> QED BY <1>1, <1>2, <1>4 DEF EntriesMatch
<1> QED BY <1>5, <1>6, <1>7, <1>8, <1>9 DEF Core

-----------------------------------------------------------------------------
(* The theorems.                                                           *)

\* Resolving waiters keeps their type.
LEMMA NotifiedType ==
    ASSUME waiter \in [Waiters -> Waiter], NEW active
    PROVE  Notified(active) \in [Waiters -> Waiter]
<1> SUFFICES ASSUME NEW w \in Waiters
             PROVE  [waiter[w] EXCEPT !.state = "drained"] \in Waiter
  BY DEF Notified
<1>1. waiter[w] \in Waiter
  OBVIOUS
<1> QED BY <1>1 DEF Waiter

\* The invariant holds initially.
LEMMA InitIInv == Init => IInv
<1> SUFFICES ASSUME Init
             PROVE  IInv
  OBVIOUS
<1>1. Fresh \in Entry
  BY ConstantsAssumption
     DEF Fresh, Entry, Status, Priority, Normal, Background, Foreground, Timer,
         Race, Body, Answer
<1>2. TypeOK
  <2>1. entry \in [Entries -> Entry]
    BY <1>1 DEF Init
  <2>2. waiter \in [Waiters -> Waiter]
    BY DEF Init, Waiter
  <2>3. queue \in [Lanes -> Seq(Entries)] /\ activeTaskIds \in [Lanes -> SUBSET Entries]
    BY EmptySeq DEF Init
  <2>4. maxConcurrent \in [Lanes -> Nat] /\ generation \in [Lanes -> Nat]
    BY DEF Init
  <2>5. nextQueueSequence \in Nat \ {0}
    BY DEF Init
  <2>6. gatewayDraining \in BOOLEAN
    BY DEF Init
  <2> QED BY <2>1, <2>2, <2>3, <2>4, <2>5, <2>6 DEF TypeOK
<1>3. \A e \in Entries : entry[e].status = "new" /\ entry[e].answer = "none"
  BY DEF Init, Fresh
<1>4. \A l \in Lanes : queue[l] = <<>> /\ activeTaskIds[l] = {}
  BY DEF Init
<1>5. ToSet(<<>>) = {} /\ DOMAIN <<>> = {}
  BY DEF ToSet
<1>6. QueuesMatch(entry, queue) /\ QueuesOrdered(entry, queue)
  BY <1>3, <1>4, <1>5 DEF QueuesMatch, QueuesOrdered, Distinct
<1>7. SlotsMatch(entry, activeTaskIds, generation)
      /\ EntriesMatch(entry, generation, nextQueueSequence)
  BY <1>3, <1>4 DEF SlotsMatch, EntriesMatch
<1> QED BY <1>2, <1>6, <1>7 DEF IInv, Core, Typed, TypeOK

\* What the steps have to show: the tables agree and the rest is typed.
LEMMA IInvFrom ==
    ASSUME Core(entry, queue, activeTaskIds, generation, nextQueueSequence)',
           maxConcurrent' \in [Lanes -> Nat],
           generation' \in [Lanes -> Nat],
           gatewayDraining' \in BOOLEAN,
           nextQueueSequence' \in Nat \ {0},
           waiter' \in [Waiters -> Waiter]
    PROVE  IInv'
BY DEF IInv, TypeOK, Core, Typed

\* Every step keeps the invariant.
LEMMA NextIInv == IInv /\ [Next]_vars => IInv'
<1> SUFFICES ASSUME IInv, [Next]_vars
             PROVE  IInv'
  OBVIOUS
<1> USE IInvFrom
<1>a. /\ Core(entry, queue, activeTaskIds, generation, nextQueueSequence)
      /\ entry \in [Entries -> Entry]
      /\ maxConcurrent \in [Lanes -> Nat]
      /\ generation \in [Lanes -> Nat]
      /\ gatewayDraining \in BOOLEAN
      /\ nextQueueSequence \in Nat \ {0}
      /\ waiter \in [Waiters -> Waiter]
  BY DEF IInv, TypeOK
<1>1. ASSUME NEW e \in Entries, NEW l \in Lanes, NEW p \in Priorities,
             EnqueueCommandInLane(e, l, p)
      PROVE  IInv'
  <2> USE <1>1 DEF EnqueueCommandInLane
  <2>1. CASE gatewayDraining
    <3>1. SameSchedule(entry[e], Refused(entry[e]))
      BY <1>a, RaceSteps
    <3> QED BY <1>a, <2>1, <3>1, RaceStepKeepsCore
  <2>2. CASE ~gatewayDraining
    <3> DEFINE ents == [entry EXCEPT ![e] = Enqueued(@, l, p, nextQueueSequence)]
               q == [queue EXCEPT ![l] = EnqueueLaneEntry(ents, queue[l], e)]
    <3>1. Drain({l}, ents, q, activeTaskIds, maxConcurrent, generation)
      BY <2>2
    <3>2. nextQueueSequence' = nextQueueSequence + 1
      BY <2>2
    <3> HIDE DEF ents
    <3>3. Core(ents, q, activeTaskIds, generation, nextQueueSequence + 1)
      <4> HIDE DEF q
      <4> QED BY EnqueueKeepsCore DEF ents, q
    <3> HIDE DEF q
    <3>4. Core(entry', queue', activeTaskIds', generation, nextQueueSequence + 1)
      BY <1>a, <3>1, <3>3, DrainKeepsCore
    <3> QED BY <1>a, <3>2, <3>4
  <2> QED BY <2>1, <2>2
<1>2. ASSUME NEW l \in Lanes, NEW n \in Limits, SetCommandLaneConcurrency(l, n)
      PROVE  IInv'
  <2> DEFINE ls == IF EffectiveLimit(l, n) > 0 THEN {l} ELSE {}
  <2>1. EffectiveLimit(l, n) \in Nat
    BY ConstantsAssumption DEF EffectiveLimit
  <2>2. /\ maxConcurrent' = [maxConcurrent EXCEPT ![l] = EffectiveLimit(l, n)]
        /\ Drain(ls, entry, queue, activeTaskIds, maxConcurrent', generation)
        /\ UNCHANGED <<generation, gatewayDraining, nextQueueSequence, waiter>>
    BY <1>2 DEF SetCommandLaneConcurrency
  <2>3. maxConcurrent' \in [Lanes -> Nat]
    BY <1>a, <2>1, <2>2
  <2>4. ls \in SUBSET Lanes
    OBVIOUS
  <2> HIDE DEF ls
  <2>5. Core(entry', queue', activeTaskIds', generation, nextQueueSequence)
    BY <1>a, <2>2, <2>3, <2>4, DrainKeepsCore
  <2> QED BY <1>a, <2>2, <2>3, <2>5
<1>3. ASSUME NEW l \in Lanes, ClearCommandLane(l)
      PROVE  IInv'
  <2>1. Core(entry, queue, activeTaskIds, generation, nextQueueSequence)'
    BY <1>3, ClearKeepsCore
  <2> QED BY <1>a, <1>3, <2>1 DEF ClearCommandLane
<1>4. ASSUME NEW l \in Lanes, ResetCommandLane(l)
      PROVE  IInv'
  <2> DEFINE active == [activeTaskIds EXCEPT ![l] = {}]
             gen == [generation EXCEPT ![l] = @ + 1]
  <2>1. /\ generation' = gen
        /\ Drain({l}, entry, queue, active, maxConcurrent, gen)
        /\ waiter' = Notified(activeTaskIds')
        /\ UNCHANGED <<maxConcurrent, gatewayDraining, nextQueueSequence>>
    BY <1>4 DEF ResetCommandLane
  <2>2. /\ active = [m \in Lanes |-> IF m \in {l} THEN {} ELSE activeTaskIds[m]]
        /\ gen = [m \in Lanes |-> IF m \in {l} THEN generation[m] + 1 ELSE generation[m]]
    BY <1>a DEF Core, Typed
  <2> HIDE DEF active, gen
  <2>3. gen \in [Lanes -> Nat] /\ Core(entry, queue, active, gen, nextQueueSequence)
    BY <2>2, ResetKeepsCore
  <2>4. Core(entry', queue', activeTaskIds', gen, nextQueueSequence)
    BY <1>a, <2>1, <2>3, DrainKeepsCore
  <2>5. waiter' \in [Waiters -> Waiter]
    BY <1>a, <2>1, NotifiedType
  <2> QED BY <1>a, <2>1, <2>3, <2>4, <2>5
<1>5. ASSUME ResetAllLanes
      PROVE  IInv'
  <2> DEFINE active == [l \in Lanes |-> {}]
             gen == [l \in Lanes |-> generation[l] + 1]
  <2>1. /\ generation' = gen
        /\ gatewayDraining' = FALSE
        /\ Drain(Lanes, entry, queue, active, maxConcurrent, gen)
        /\ waiter' = Notified(activeTaskIds')
        /\ UNCHANGED <<maxConcurrent, nextQueueSequence>>
    BY <1>5 DEF ResetAllLanes
  <2>2. /\ active = [m \in Lanes |-> IF m \in Lanes THEN {} ELSE activeTaskIds[m]]
        /\ gen = [m \in Lanes |-> IF m \in Lanes THEN generation[m] + 1 ELSE generation[m]]
    OBVIOUS
  <2> HIDE DEF active, gen
  <2>3. gen \in [Lanes -> Nat] /\ Core(entry, queue, active, gen, nextQueueSequence)
    BY <2>2, ResetKeepsCore
  <2>4. Core(entry', queue', activeTaskIds', gen, nextQueueSequence)
    BY <1>a, <2>1, <2>3, DrainKeepsCore
  <2>5. waiter' \in [Waiters -> Waiter]
    BY <1>a, <2>1, NotifiedType
  <2>6. gatewayDraining' \in BOOLEAN
    BY <2>1
  <2> QED BY <1>a, <2>1, <2>3, <2>4, <2>5, <2>6
<1>6. ASSUME MarkGatewayDraining
      PROVE  IInv'
  <2>1. gatewayDraining' \in BOOLEAN
    BY <1>6 DEF MarkGatewayDraining
  <2> QED BY <1>6, <1>a, <2>1 DEF MarkGatewayDraining
<1>7. ASSUME NEW w \in Waiters, NEW timeout \in {"never", "now", "later"},
             WaitForActiveTasks(w, timeout)
      PROVE  IInv'
  <2> DEFINE ids == UNION {activeTaskIds[l] : l \in Lanes}
             new == [ids |-> ids, timed |-> timeout = "later",
                     state |-> IF ids = {} THEN "drained"
                               ELSE IF timeout = "now" THEN "timedOut"
                               ELSE "waiting"]
  <2>1. waiter' = [waiter EXCEPT ![w] = new]
    BY <1>7 DEF WaitForActiveTasks
  <2>2. ids \in SUBSET Entries
    BY <1>a DEF Core, Typed
  <2> HIDE DEF ids
  <2>3. new \in Waiter
    BY <2>2 DEF Waiter
  <2> HIDE DEF new
  <2>4. waiter' \in [Waiters -> Waiter]
    BY <1>a, <2>1, <2>3
  <2> QED BY <1>7, <1>a, <2>4 DEF WaitForActiveTasks
<1>8. ASSUME NEW e \in Entries, NEW outcome \in {"value", "error"},
             TaskSettles(e, outcome)
      PROVE  IInv'
  <2>1. SameSchedule(entry[e], Settled(entry[e], outcome))
    BY <1>a, RaceSteps
  <2> QED BY <1>8, <1>a, <2>1, RaceStepKeepsCore DEF TaskSettles
<1>9. ASSUME NEW e \in Entries, TaskTimesOut(e)
      PROVE  IInv'
  <2>1. SameSchedule(entry[e], TimedOut(entry[e]))
    BY <1>a, RaceSteps
  <2> QED BY <1>9, <1>a, <2>1, RaceStepKeepsCore DEF TaskTimesOut
<1>10. ASSUME NEW e \in Entries, AbortTask(e)
       PROVE  IInv'
  <2>1. SameSchedule(entry[e], Aborted(entry[e]))
    BY <1>a, RaceSteps
  <2> QED BY <1>10, <1>a, <2>1, RaceStepKeepsCore DEF AbortTask
<1>11. ASSUME NEW e \in Entries, ReleaseTask(e)
       PROVE  IInv'
  <2>1. SameSchedule(entry[e], Released(entry[e]))
    BY <1>a, RaceSteps
  <2> QED BY <1>11, <1>a, <2>1, RaceStepKeepsCore DEF ReleaseTask
<1>12. ASSUME NEW e \in Entries, TaskContinues(e)
       PROVE  IInv'
  <2> DEFINE l == entry[e].lane
             ents == [entry EXCEPT ![e] = Continued(@)]
             active == [activeTaskIds EXCEPT ![entry[e].lane] = @ \ {e}]
  <2>1. /\ entry[e].status = "running"
        /\ entry[e].race # "open"
        /\ UNCHANGED <<maxConcurrent, generation, gatewayDraining, nextQueueSequence>>
    BY <1>12 DEF TaskContinues
  <2>2. Core(ents, queue, active, generation, nextQueueSequence)
    <3> HIDE DEF ents, active
    <3> QED BY <2>1, ContinueKeepsCore DEF ents, active
  <2>3. l \in Lanes
    BY <1>a DEF Entry
  <2>4. CASE entry[e].taskGeneration = generation[l]
    <3>1. /\ waiter' = Notified(active)
          /\ Drain({l}, ents, queue, active, maxConcurrent, generation)
      BY <1>12, <2>4 DEF TaskContinues
    <3> HIDE DEF ents, active, l
    <3>2. Core(entry', queue', activeTaskIds', generation, nextQueueSequence)
      BY <1>a, <2>2, <2>3, <3>1, DrainKeepsCore
    <3>3. waiter' \in [Waiters -> Waiter]
      BY <1>a, <3>1, NotifiedType
    <3> QED BY <1>a, <2>1, <3>2, <3>3
  <2>5. CASE entry[e].taskGeneration # generation[l]
    <3>1. /\ entry' = ents
          /\ UNCHANGED <<queue, activeTaskIds, waiter>>
      BY <1>12, <2>5 DEF TaskContinues
    <3>2. e \notin activeTaskIds[l]
      BY <1>a, <2>3, <2>5 DEF Core, SlotsMatch
    <3>3. active = activeTaskIds
      BY <1>a, <2>3, <3>2 DEF Core, Typed
    <3> HIDE DEF ents, active, l
    <3> QED BY <1>a, <2>1, <2>2, <3>1, <3>3
  <2> QED BY <2>4, <2>5
<1>13. ASSUME NEW w \in Waiters, WaitTimesOut(w)
       PROVE  IInv'
  <2>1. waiter' = [waiter EXCEPT ![w].state = "timedOut"]
    BY <1>13 DEF WaitTimesOut
  <2>2. [waiter[w] EXCEPT !.state = "timedOut"] \in Waiter
    BY <1>a DEF Waiter
  <2>3. waiter' \in [Waiters -> Waiter]
    BY <1>a, <2>1, <2>2
  <2> QED BY <1>13, <1>a, <2>3 DEF WaitTimesOut
<1>14. CASE UNCHANGED vars
  BY <1>14, <1>a DEF vars
<1> QED BY <1>1, <1>2, <1>3, <1>4, <1>5, <1>6, <1>7, <1>8, <1>9, <1>10, <1>11,
           <1>12, <1>13, <1>14 DEF Next

\* Type correctness: every handler leaves well-formed tables.
THEOREM TypeCorrect == Spec => []TypeOK
<1>1. IInv => TypeOK
  BY DEF IInv
<1> QED BY InitIInv, NextIInv, <1>1, PTL DEF Spec

\* The slots of a lane are the runs of its current generation, whatever is
\* reset, cleared, resized or timed out meanwhile.
THEOREM SlotsMatchRunsAlways == Spec => []SlotsMatchRuns
<1>1. IInv => SlotsMatchRuns
  <2> SUFFICES ASSUME IInv, NEW l \in Lanes
               PROVE  activeTaskIds[l] = {e \in Entries :
                            /\ entry[e].status = "running"
                            /\ entry[e].lane = l
                            /\ entry[e].taskGeneration = generation[l]}
    BY DEF SlotsMatchRuns
  <2>1. activeTaskIds[l] \in SUBSET Entries
    BY DEF IInv, Core, Typed
  <2> QED BY <2>1 DEF IInv, Core, SlotsMatch
<1> QED BY InitIInv, NextIInv, <1>1, PTL DEF Spec

\* Every accepted command is in its lane's queue, once, or has started, and
\* its caller waits for exactly that long.
THEOREM NoCommandLostEver == Spec => []NoCommandLost
<1>1. IInv => NoCommandLost
  BY DEF IInv, Core, QueuesMatch, EntriesMatch, Distinct, NoCommandLost
<1> QED BY InitIInv, NextIInv, <1>1, PTL DEF Spec

\* Queues are always in the order that the enqueue options promise.
THEOREM QueueAlwaysOrdered == Spec => []QueueOrdered
<1>1. IInv => QueueOrdered
  BY DEF IInv, Core, QueuesOrdered, QueueOrdered
<1> QED BY InitIInv, NextIInv, <1>1, PTL DEF Spec
=============================================================================
