------------------------- MODULE HeartbeatWakeProofs -------------------------
(***************************************************************************)
(* Theorems about HeartbeatWake and their proofs.                          *)
(***************************************************************************)
EXTENDS HeartbeatWake, SequenceTheorems, FiniteSetTheorems, TLAPS

-----------------------------------------------------------------------------
(* Induction.  The induction theorems of the library are about operators;  *)
(* here they are needed for sets of numbers.                               *)

\* A non-empty set of natural numbers has a least element.
LEMMA LeastNatural ==
    ASSUME NEW I \in SUBSET Nat, I # {}
    PROVE  \E m \in I : \A k \in I : m <= k
<1> DEFINE T == {1 .. k : k \in I}
           R == StrictSubsetOrdering(Nat)
<1>1. T \subseteq FiniteSubsetsOf(Nat) /\ T # {}
  <2> SUFFICES ASSUME NEW k \in I
               PROVE  1 .. k \in SUBSET Nat /\ IsFiniteSet(1 .. k)
    BY DEF FiniteSubsetsOf
  <2> QED BY FS_Interval
<1>2. IsWellFoundedOn(R, FiniteSubsetsOf(Nat))
  BY FS_StrictSubsetOrderingWellFounded
<1>3. PICK t \in T : \A u \in T : ~(<<u, t>> \in R)
  BY <1>1, <1>2, WFMin
<1>4. PICK m \in I : t = 1 .. m
  BY <1>3
<1>5. ASSUME NEW k \in I, k < m
      PROVE  FALSE
  <2>1. 1 .. k \subseteq 1 .. m /\ m \in 1 .. m /\ m \notin 1 .. k
    BY <1>5
  <2>2. <<1 .. k, 1 .. m>> \in R
    BY <2>1 DEF StrictSubsetOrdering
  <2> QED BY <1>3, <1>4, <2>2
<1> QED BY <1>5

\* A set that has 0 and, with a number below n, the next one, has all of
\* 0 .. n.
LEMMA SetInduction ==
    ASSUME NEW n \in Nat, NEW G, 0 \in G,
           \A k \in 0 .. n - 1 : k \in G => k + 1 \in G
    PROVE  \A k \in 0 .. n : k \in G
<1> SUFFICES ASSUME 0 .. n \subseteq G => FALSE
             PROVE  FALSE
  OBVIOUS
<1> DEFINE I == {k \in 0 .. n : k \notin G}
<1>1. I \in SUBSET Nat /\ I # {}
  OBVIOUS
<1>2. PICK m \in I : \A k \in I : m <= k
  BY <1>1, LeastNatural
<1>3. m # 0 /\ m - 1 \in 0 .. n - 1
  BY <1>2
<1>4. m - 1 \in G
  BY <1>2, <1>3
<1> QED BY <1>2, <1>3, <1>4

-----------------------------------------------------------------------------
(* What the fold of HandlerThrows computes.                                *)

\* g is the recursive function by which FoldLeft is defined, on the sets of
\* positions up to k.
FoldsTo(g, q, ws, k) ==
    g = [s \in SUBSET (1 .. k) |->
           IF s = {} THEN q ELSE QueuePending(g[s \ {Max(s)}], ws[Max(s)])]

\* The largest of a set of positions
LEMMA MaxOfPositions ==
    ASSUME NEW k \in Nat, NEW s \in SUBSET (1 .. k), k \in s
    PROVE  Max(s) = k
<1>1. \A y \in s : y \in Nat /\ k >= y
  OBVIOUS
<1>2. \A x \in s : (\A y \in s : x >= y) => x = k
  BY <1>1
<1> QED BY <1>1, <1>2 DEF Max

LEMMA MaxPosition ==
    ASSUME NEW k \in Nat, NEW s \in SUBSET (1 .. k), s # {}
    PROVE  Max(s) \in s
<1> DEFINE I == {j \in 0 .. k : k - j \in s}
<1>1. PICK i \in s : TRUE
  OBVIOUS
<1>2. k - i \in I
  BY <1>1
<1>a. I \in SUBSET Nat
  OBVIOUS
<1>b. I # {}
  BY <1>2
<1>3. PICK m \in I : \A j \in I : m <= j
  BY <1>a, <1>b, LeastNatural
<1>4. \A y \in s : k - m >= y
  <2> SUFFICES ASSUME NEW y \in s
               PROVE  k - m >= y
    OBVIOUS
  <2>1. y \in 1 .. k
    OBVIOUS
  <2>2. k - y \in I
    BY <2>1
  <2>3. m \in 0 .. k /\ m <= k - y
    BY <2>2, <1>3
  <2> QED BY <2>1, <2>3
<1> QED BY <1>3, <1>4 DEF Max

LEMMA FoldsToExists ==
    ASSUME NEW n \in Nat, NEW q, NEW ws
    PROVE  \E g : FoldsTo(g, q, ws, n)
<1> DEFINE G == {k \in 0 .. n : \E g : FoldsTo(g, q, ws, k)}
<1>1. 0 \in G
  <2> DEFINE g == [s \in SUBSET (1 .. 0) |-> q]
  <2>1. \A s \in SUBSET (1 .. 0) : s = {}
    OBVIOUS
  <2>2. FoldsTo(g, q, ws, 0)
    BY <2>1 DEF FoldsTo
  <2> QED BY <2>2
<1>2. ASSUME NEW k \in 0 .. n - 1, k \in G
      PROVE  k + 1 \in G
  <2>1. PICK g : FoldsTo(g, q, ws, k)
    BY <1>2
  <2> DEFINE h == [s \in SUBSET (1 .. k + 1) |->
                     IF k + 1 \in s THEN QueuePending(g[s \ {k + 1}], ws[k + 1])
                     ELSE g[s]]
  <2>2. ASSUME NEW s \in SUBSET (1 .. k + 1)
        PROVE  h[s] = IF s = {} THEN q ELSE QueuePending(h[s \ {Max(s)}], ws[Max(s)])
    <3>1. CASE k + 1 \in s
      <4>1. Max(s) = k + 1
        BY <3>1, MaxOfPositions
      <4>2. s \ {k + 1} \in SUBSET (1 .. k + 1) /\ k + 1 \notin s \ {k + 1}
        OBVIOUS
      <4>3. h[s \ {k + 1}] = g[s \ {k + 1}]
        BY <4>2
      <4> QED BY <3>1, <4>1, <4>3
    <3>2. CASE k + 1 \notin s
      <4>1. s \in SUBSET (1 .. k)
        BY <3>2
      <4>2. g[s] = IF s = {} THEN q ELSE QueuePending(g[s \ {Max(s)}], ws[Max(s)])
        BY <4>1, <2>1 DEF FoldsTo
      <4>3. CASE s = {}
        BY <4>2, <4>3
      <4>4. CASE s # {}
        <5>1. Max(s) \in s
          BY <4>1, <4>4, MaxPosition
        <5>2. s \ {Max(s)} \in SUBSET (1 .. k + 1) /\ k + 1 \notin s \ {Max(s)}
          BY <3>2
        <5>3. h[s \ {Max(s)}] = g[s \ {Max(s)}]
          BY <5>2
        <5> QED BY <3>2, <4>2, <4>4, <5>3
      <4> QED BY <4>3, <4>4
    <3> QED BY <3>1, <3>2
  <2>3. FoldsTo(h, q, ws, k + 1)
    <3> DEFINE e(s) == IF s = {} THEN q ELSE QueuePending(h[s \ {Max(s)}], ws[Max(s)])
    <3>1. h = [s \in SUBSET (1 .. k + 1) |-> h[s]]
      OBVIOUS
    <3>2. \A s \in SUBSET (1 .. k + 1) : h[s] = e(s)
      BY <2>2
    <3> HIDE DEF h
    <3>3. h = [s \in SUBSET (1 .. k + 1) |-> e(s)]
      BY <3>1, <3>2
    <3> QED BY <3>3 DEF FoldsTo
  <2> QED BY <2>3
<1> HIDE DEF G
<1>3. \A k \in 0 .. n : k \in G
  BY <1>1, <1>2, SetInduction
<1> QED BY <1>3 DEF G

\* h[k] is what is pending once the first k of the n wakes ws were queued.
QueuesTo(h, q, ws, n) ==
    /\ h[0] = q
    /\ \A k \in 1 .. n : h[k] = QueuePending(h[k - 1], ws[k])

\* The fold queues the wakes one after the other.
LEMMA FoldLeftSteps ==
    ASSUME NEW q, NEW ws, NEW n \in Nat, DOMAIN ws = 1 .. n
    PROVE  \E h : QueuesTo(h, q, ws, n) /\ QueueAll(q, ws) = h[n]
<1> DEFINE g == CHOOSE f : FoldsTo(f, q, ws, n)
           h == [k \in 0 .. n |-> g[1 .. k]]
<1>1. FoldsTo(g, q, ws, n)
  BY FoldsToExists
<1>2. QueueAll(q, ws) = g[1 .. n]
  BY DEF FoldsTo, QueueAll, FoldLeft, MapThenFoldSet, Max
<1> HIDE DEF g
<1>3. h[0] = q
  <2>1. 1 .. 0 = {} /\ {} \in SUBSET (1 .. n) /\ 0 \in 0 .. n
    OBVIOUS
  <2>2. g[{}] = q
    BY <2>1, <1>1 DEF FoldsTo
  <2> QED BY <2>1, <2>2
<1>4. ASSUME NEW k \in 1 .. n
      PROVE  h[k] = QueuePending(h[k - 1], ws[k])
  <2>1. 1 .. k \in SUBSET (1 .. n) /\ k \in 1 .. k
    OBVIOUS
  <2>a. (1 .. k) \ {k} = 1 .. k - 1
    OBVIOUS
  <2>b. k \in 0 .. n /\ k - 1 \in 0 .. n
    OBVIOUS
  <2>2. Max(1 .. k) = k
    BY <2>1, MaxOfPositions
  <2>3. g[1 .. k] = QueuePending(g[(1 .. k) \ {Max(1 .. k)}], ws[Max(1 .. k)])
    BY <2>1, <1>1 DEF FoldsTo
  <2>4. g[1 .. k] = QueuePending(g[1 .. k - 1], ws[k])
    BY <2>a, <2>2, <2>3
  <2> QED BY <2>b, <2>4
<1>5. h[n] = g[1 .. n]
  OBVIOUS
<1> HIDE DEF h
<1>6. QueuesTo(h, q, ws, n)
  BY <1>3, <1>4 DEF QueuesTo
<1> QED BY <1>2, <1>5, <1>6

-----------------------------------------------------------------------------
(* Wakes and what they are as urgent as.                                   *)

\* A wake of w's target that is as urgent as w stands in q.
Serves(q, w) == \E i \in DOMAIN q : q[i].target = w.target /\ Priority(q[i]) >= Priority(w)

LEMMA PriorityType ==
    ASSUME NEW w \in Wake
    PROVE  Priority(w) \in 1 .. 3
<1>1. w.intent \in {"manual", "immediate", "event", "scheduled"}
  BY WakeAssumption DEF Wake
<1> QED BY <1>1 DEF Priority

\* A wake that was queued is served by what is pending then, and so is
\* whatever was served before.
LEMMA QueuePendingServes ==
    ASSUME NEW q \in Seq(Wake), NEW w \in Wake
    PROVE  /\ QueuePending(q, w) \in Seq(Wake)
           /\ Serves(QueuePending(q, w), w)
           /\ \A v \in Wake : Serves(q, v) => Serves(QueuePending(q, w), v)
<1> DEFINE p == QueuePending(q, w)
<1>0. \A v \in Wake : Priority(v) \in 1 .. 3
  BY PriorityType
<1>1. CASE w.target \notin TargetsOf(q)
  <2>1. p = Append(q, w)
    BY <1>1 DEF QueuePending
  <2>2. p \in Seq(Wake) /\ Len(p) = Len(q) + 1 /\ p[Len(q) + 1] = w
    BY <2>1
  <2>3. \A i \in 1 .. Len(q) : p[i] = q[i]
    BY <2>1
  <2>4. DOMAIN q = 1 .. Len(q) /\ DOMAIN p = 1 .. Len(q) + 1
    BY <2>2
  <2>5. Serves(p, w)
    BY <2>2, <2>4, <1>0 DEF Serves
  <2>6. \A v \in Wake : Serves(q, v) => Serves(p, v)
    BY <2>3, <2>4 DEF Serves
  <2> QED BY <2>2, <2>5, <2>6
<1>2. CASE w.target \in TargetsOf(q)
  <2> DEFINE e(j) == IF q[j].target = w.target /\ Priority(w) >= Priority(q[j]) THEN w ELSE q[j]
  <2>1. p = [i \in 1 .. Len(q) |-> e(i)]
    BY <1>2 DEF QueuePending
  <2>2. \A i \in 1 .. Len(q) : q[i] \in Wake /\ e(i) \in Wake
    OBVIOUS
  <2>3. p \in Seq(Wake) /\ DOMAIN p = 1 .. Len(q)
    BY <2>1, <2>2
  <2>4. \A i \in 1 .. Len(q) : /\ p[i].target = q[i].target
                               /\ Priority(p[i]) >= Priority(q[i])
                               /\ q[i].target = w.target => Priority(p[i]) >= Priority(w)
    <3> SUFFICES ASSUME NEW i \in 1 .. Len(q)
                 PROVE  /\ p[i].target = q[i].target
                        /\ Priority(p[i]) >= Priority(q[i])
                        /\ q[i].target = w.target => Priority(p[i]) >= Priority(w)
      OBVIOUS
    <3>1. p[i] = e(i) /\ q[i] \in Wake
      BY <2>1, <2>2
    <3>2. Priority(q[i]) \in 1 .. 3 /\ Priority(w) \in 1 .. 3
      BY <3>1, <1>0
    <3> HIDE DEF p
    <3> QED BY <3>1, <3>2
  <2>5. PICK i \in 1 .. Len(q) : q[i].target = w.target
    BY <1>2 DEF TargetsOf
  <2>6. \A j \in 1 .. Len(q) : p[j] \in Wake /\ q[j] \in Wake
    BY <2>2, <2>3
  <2> HIDE DEF p
  <2>7. Serves(p, w)
    BY <2>3, <2>4, <2>5 DEF Serves
  <2>8. ASSUME NEW v \in Wake, Serves(q, v)
        PROVE  Serves(p, v)
    <3>1. PICK j \in 1 .. Len(q) : q[j].target = v.target /\ Priority(q[j]) >= Priority(v)
      BY <2>8 DEF Serves
    <3>2. /\ Priority(p[j]) \in 1 .. 3
          /\ Priority(q[j]) \in 1 .. 3
          /\ Priority(v) \in 1 .. 3
      BY <1>0, <2>6
    <3> QED BY <3>1, <3>2, <2>3, <2>4 DEF Serves
  <2> QED BY <2>3, <2>7, <2>8 DEF p
<1> QED BY <1>1, <1>2

\* After the fold every wake that was pending and every one of ws is served.
LEMMA FoldServes ==
    ASSUME NEW q \in Seq(Wake), NEW ws \in Seq(Wake)
    PROVE  LET p == QueueAll(q, ws)
           IN  /\ p \in Seq(Wake)
               /\ \A i \in 1 .. Len(ws) : Serves(p, ws[i])
               /\ \A v \in Wake : Serves(q, v) => Serves(p, v)
<1>0. PICK n \in Nat : n = Len(ws)
  OBVIOUS
<1>1. DOMAIN ws = 1 .. n /\ \A i \in 1 .. n : ws[i] \in Wake
  BY <1>0
<1>a. PICK h : QueuesTo(h, q, ws, n) /\ QueueAll(q, ws) = h[n]
  BY <1>1, FoldLeftSteps
<1>2. /\ h[0] = q
      /\ \A k \in 1 .. n : h[k] = QueuePending(h[k - 1], ws[k])
      /\ QueueAll(q, ws) = h[n]
  BY <1>a DEF QueuesTo
<1> DEFINE p == QueueAll(q, ws)
<1> HIDE DEF p
<1> DEFINE S(k) == /\ h[k] \in Seq(Wake)
                   /\ \A i \in 1 .. k : Serves(h[k], ws[i])
                   /\ \A v \in Wake : Serves(q, v) => Serves(h[k], v)
           G == {k \in 0 .. n : S(k)}
<1>3. 0 \in G
  <2>1. S(0)
    BY <1>2
  <2> QED BY <2>1, <1>1
<1>4. ASSUME NEW k \in 0 .. n - 1, k \in G
      PROVE  k + 1 \in G
  <2>1. k + 1 \in 1 .. n /\ (k + 1) - 1 = k
    BY <1>1
  <2>2. h[k + 1] = QueuePending(h[k], ws[k + 1]) /\ ws[k + 1] \in Wake
    BY <1>1, <1>2, <2>1
  <2>3. S(k)
    BY <1>4
  <2>4. /\ h[k + 1] \in Seq(Wake)
        /\ Serves(h[k + 1], ws[k + 1])
        /\ \A v \in Wake : Serves(h[k], v) => Serves(h[k + 1], v)
    BY <2>2, <2>3, QueuePendingServes
  <2>5. ASSUME NEW i \in 1 .. k + 1
        PROVE  Serves(h[k + 1], ws[i])
    <3>1. CASE i = k + 1
      BY <3>1, <2>4
    <3>2. CASE i \in 1 .. k
      <4>1. ws[i] \in Wake /\ Serves(h[k], ws[i])
        BY <3>2, <2>1, <2>3, <1>1
      <4> QED BY <4>1, <2>4
    <3> QED BY <3>1, <3>2
  <2>6. S(k + 1)
    BY <2>3, <2>4, <2>5
  <2> HIDE DEF S
  <2> QED BY <2>1, <2>6
<1> HIDE DEF G
<1>5. \A k \in 0 .. n : k \in G
  BY <1>1, <1>3, <1>4, SetInduction
<1>6. S(n)
  <2>1. n \in 0 .. n
    BY <1>1
  <2> QED BY <2>1, <1>5 DEF G
<1> QED BY <1>0, <1>2, <1>6 DEF p

\* The largest of some urgencies
LEMMA MaxUrgency ==
    ASSUME NEW U \in SUBSET (0 .. 3), U # {}
    PROVE  Max(U) \in U /\ \A u \in U : Max(U) >= u
<1>1. \E x \in U : \A y \in U : x >= y
  <2>1. CASE 3 \in U
    BY <2>1
  <2>2. CASE 3 \notin U /\ 2 \in U
    <3>1. \A y \in U : y \in 0 .. 2
      BY <2>2
    <3> QED BY <2>2, <3>1
  <2>3. CASE 3 \notin U /\ 2 \notin U /\ 1 \in U
    <3>1. \A y \in U : y \in 0 .. 1
      BY <2>3
    <3> QED BY <2>3, <3>1
  <2>4. CASE 3 \notin U /\ 2 \notin U /\ 1 \notin U
    <3>1. \A y \in U : y = 0
      BY <2>4
    <3>2. PICK x \in U : TRUE
      OBVIOUS
    <3> QED BY <3>1, <3>2
  <2> QED BY <2>1, <2>2, <2>3, <2>4
<1> QED BY <1>1 DEF Max

\* What is owed after a request is what was owed before, or a wake of ws.
LEMMA OwedIs ==
    ASSUME asked \in [Targets -> 0 .. 3], NEW ws \in Seq(Wake)
    PROVE  /\ Owed(ws) \in [Targets -> 0 .. 3]
           /\ \A t \in Targets :
                \/ Owed(ws)[t] = asked[t]
                \/ \E i \in 1 .. Len(ws) : ws[i].target = t /\ Owed(ws)[t] = Priority(ws[i])
<1> DEFINE U(t) == {asked[t]} \cup {Priority(w) : w \in {v \in ToSet(ws) : v.target = t}}
<1>1. DOMAIN ws = 1 .. Len(ws) /\ \A i \in 1 .. Len(ws) : ws[i] \in Wake
  OBVIOUS
<1>2. ASSUME NEW t \in Targets
      PROVE  U(t) \in SUBSET (0 .. 3) /\ U(t) # {}
  <2>1. \A v \in ToSet(ws) : v \in Wake
    BY <1>1 DEF ToSet
  <2>2. \A v \in ToSet(ws) : Priority(v) \in 0 .. 3
    BY <2>1, PriorityType
  <2> QED BY <2>2
<1>3. ASSUME NEW t \in Targets
      PROVE  Max(U(t)) \in U(t)
  <2> HIDE DEF U
  <2> QED BY <1>2, MaxUrgency
<1>4. Owed(ws) = [t \in Targets |-> Max(U(t))]
  BY DEF Owed
<1>5. \A t \in Targets : Owed(ws)[t] \in U(t)
  BY <1>3, <1>4
<1>6. Owed(ws) \in [Targets -> 0 .. 3]
  <2> HIDE DEF U
  <2> QED BY <1>2, <1>3, <1>4
<1>7. ASSUME NEW t \in Targets, Owed(ws)[t] # asked[t]
      PROVE  \E i \in 1 .. Len(ws) : ws[i].target = t /\ Owed(ws)[t] = Priority(ws[i])
  <2>1. PICK v \in ToSet(ws) : v.target = t /\ Owed(ws)[t] = Priority(v)
    BY <1>5, <1>7
  <2> QED BY <1>1, <2>1 DEF ToSet
<1> QED BY <1>6, <1>7

\* A target is still owed what it was, if no wake in H was as urgent.
LEMMA HandedOverIs ==
    ASSUME NEW owed \in [Targets -> 0 .. 3], NEW H
    PROVE  /\ HandedOver(owed, H) \in [Targets -> 0 .. 3]
           /\ \A t \in Targets : HandedOver(owed, H)[t] > 0 =>
                /\ HandedOver(owed, H)[t] = owed[t]
                /\ \A w \in H : w.target = t => ~(owed[t] <= Priority(w))
BY DEF HandedOver

-----------------------------------------------------------------------------
(* Where a wake that is owed waits.                                        *)

InQueue(q, t, p) == \E i \in DOMAIN q : q[i].target = t /\ Priority(q[i]) >= p

\* A wake of target t as urgent as p is still to be handed over in batch b.
InBatch(b, t, p) ==
    \E i \in b.at + 1 .. Len(b.wakes) : b.wakes[i].target = t /\ Priority(b.wakes[i]) >= p

\* Every target waits, in the queue or in a batch, for what it is owed.
Covered(owed, q, bs) ==
    \A t \in Targets : owed[t] > 0 =>
      InQueue(q, t, owed[t]) \/ \E n \in DOMAIN bs : InBatch(bs[n], t, owed[t])

\* Nothing that was served in q is lost in r.
Keeps(q, r) == \A v \in Wake : Serves(q, v) => Serves(r, v)

LEMMA NoWakeLostIsCovered == NoWakeLost <=> Covered(asked, pending, batches)
<1>1. ASSUME NEW t \in Targets
      PROVE  (\E w \in ToSet(pending) \cup UNION {Remaining(n) : n \in DOMAIN batches} :
                 w.target = t /\ Priority(w) >= asked[t])
             <=> \/ InQueue(pending, t, asked[t])
                 \/ \E n \in DOMAIN batches : InBatch(batches[n], t, asked[t])
  BY DEF ToSet, Remaining, InQueue, InBatch
<1> QED BY <1>1 DEF NoWakeLost, Covered

LEMMA KeptInQueue ==
    ASSUME NEW q \in Seq(Wake), NEW r \in Seq(Wake), Keeps(q, r),
           NEW t, NEW p \in 0 .. 3, InQueue(q, t, p)
    PROVE  InQueue(r, t, p)
<1>0. \A v \in Wake : Priority(v) \in 1 .. 3
  BY PriorityType
<1>1. PICK i \in DOMAIN q : q[i].target = t /\ Priority(q[i]) >= p
  BY DEF InQueue
<1>2. q[i] \in Wake /\ Priority(q[i]) \in 1 .. 3
  BY <1>0
<1>3. Serves(q, q[i])
  BY <1>2 DEF Serves
<1>4. PICK j \in DOMAIN r : r[j].target = q[i].target /\ Priority(r[j]) >= Priority(q[i])
  BY <1>2, <1>3 DEF Keeps, Serves
<1>5. r[j] \in Wake /\ Priority(r[j]) \in 1 .. 3
  BY <1>0
<1>6. Priority(r[j]) >= p
  BY <1>1, <1>2, <1>4, <1>5
<1> QED BY <1>1, <1>4, <1>6 DEF InQueue

\* When ws are queued, what is owed then is covered.
LEMMA OwedIsCovered ==
    ASSUME asked \in [Targets -> 0 .. 3], NEW q \in Seq(Wake), NEW r \in Seq(Wake),
           Keeps(q, r), NEW ws \in Seq(Wake), \A i \in 1 .. Len(ws) : Serves(r, ws[i]),
           NEW bs, Covered(asked, q, bs)
    PROVE  Covered(Owed(ws), r, bs)
<1> SUFFICES ASSUME NEW t \in Targets, Owed(ws)[t] > 0
             PROVE  \/ InQueue(r, t, Owed(ws)[t])
                    \/ \E n \in DOMAIN bs : InBatch(bs[n], t, Owed(ws)[t])
  BY DEF Covered
<1>1. Owed(ws)[t] \in 0 .. 3
  BY OwedIs
<1>2. CASE Owed(ws)[t] = asked[t]
  <2>1. \/ InQueue(q, t, asked[t])
        \/ \E n \in DOMAIN bs : InBatch(bs[n], t, asked[t])
    BY <1>2 DEF Covered
  <2>2. CASE InQueue(q, t, asked[t])
    BY <2>2, <1>1, <1>2, KeptInQueue
  <2> QED BY <2>1, <2>2, <1>2
<1>3. CASE \E i \in 1 .. Len(ws) : ws[i].target = t /\ Owed(ws)[t] = Priority(ws[i])
  <2>1. PICK i \in 1 .. Len(ws) : ws[i].target = t /\ Owed(ws)[t] = Priority(ws[i])
    BY <1>3
  <2>2. Serves(r, ws[i])
    OBVIOUS
  <2> QED BY <2>1, <2>2 DEF Serves, InQueue
<1> QED BY <1>2, <1>3, OwedIs

-----------------------------------------------------------------------------
(* Types of the parts of a step.                                           *)

BatchOK(b, regs) ==
    /\ b \in Batch
    /\ b.handler \in DOMAIN regs
    /\ b.at \in DOMAIN b.wakes

BatchesOK(bs, regs) == bs \in Seq(Batch) /\ \A n \in DOMAIN bs : BatchOK(bs[n], regs)

LEMMA BatchesOKIs ==
    TypeOK => BatchesOK(batches, registered)
<1> SUFFICES ASSUME TypeOK
             PROVE  BatchesOK(batches, registered)
  OBVIOUS
<1>1. batches \in Seq(Batch) /\ \A n \in DOMAIN batches : batches[n] \in Batch
  BY DEF TypeOK
<1> QED BY <1>1 DEF TypeOK, BatchesOK, BatchOK

LEMMA ScheduleType ==
    ASSUME NEW tm \in Timer \cup {NoTimer}, NEW d \in AllDelays, NEW k \in {"normal", "retry"}
    PROVE  Schedule(tm, d, k) \in Timer /\ Schedule(tm, d, k) # NoTimer
<1>1. d \in Nat /\ AllDelays \subseteq Nat
  BY WakeAssumption DEF AllDelays
<1>2. NoTimer \notin Timer
  BY <1>1, WakeAssumption DEF Timer
<1>3. [left |-> d, delay |-> d, kind |-> k] \in Timer
  BY <1>1 DEF Timer
<1> QED BY <1>2, <1>3 DEF Schedule

LEMMA DelayTypes ==
    /\ RetryMs \in AllDelays
    /\ CoalesceMs \in AllDelays
    /\ Delays \subseteq AllDelays
BY DEF AllDelays

\* A sequence without its n-th element
LEMMA RemoveAtIs ==
    ASSUME NEW S, NEW s \in Seq(S), NEW n \in DOMAIN s
    PROVE  /\ RemoveAt(s, n) \in Seq(S)
           /\ Len(RemoveAt(s, n)) = Len(s) - 1
           /\ \A i \in 1 .. Len(s) - 1 :
                RemoveAt(s, n)[i] = IF i < n THEN s[i] ELSE s[i + 1]
<1> DEFINE a == SubSeq(s, 1, n - 1)
           b == SubSeq(s, n + 1, Len(s))
<1>0. n \in 1 .. Len(s) /\ Len(s) \in Nat
  OBVIOUS
<1>1. a \in Seq(S) /\ Len(a) = n - 1 /\ \A i \in 1 .. n - 1 : a[i] = s[i]
  BY <1>0
<1>2. /\ b \in Seq(S)
      /\ Len(b) = Len(s) - n
      /\ \A i \in 1 .. Len(s) - n : b[i] = s[n + i]
  BY <1>0
<1> HIDE DEF a, b
<1>a. /\ a \o b \in Seq(S)
      /\ Len(a \o b) = Len(a) + Len(b)
      /\ \A i \in 1 .. Len(a) + Len(b) : (a \o b)[i] = IF i <= Len(a) THEN a[i] ELSE b[i - Len(a)]
  BY <1>1, <1>2, ConcatProperties
<1>b. Len(a) + Len(b) = Len(s) - 1 /\ Len(a) = n - 1
  BY <1>0, <1>1, <1>2
<1>3. /\ a \o b \in Seq(S)
      /\ Len(a \o b) = Len(s) - 1
      /\ \A i \in 1 .. Len(s) - 1 : (a \o b)[i] = IF i <= n - 1 THEN a[i] ELSE b[i - (n - 1)]
  BY <1>a, <1>b
<1>4. ASSUME NEW i \in 1 .. Len(s) - 1
      PROVE  (a \o b)[i] = IF i < n THEN s[i] ELSE s[i + 1]
  <2>1. CASE i < n
    BY <1>0, <1>1, <1>3, <2>1
  <2>2. CASE ~(i < n)
    <3>1. i - (n - 1) \in 1 .. Len(s) - n /\ n + (i - (n - 1)) = i + 1 /\ ~(i <= n - 1)
      BY <1>0, <2>2
    <3> QED BY <1>2, <1>3, <3>1, <2>2
  <2> QED BY <2>1, <2>2
<1> QED BY <1>3, <1>4 DEF RemoveAt, a, b

\* The other batches stay in flight.
LEMMA OthersStay ==
    ASSUME NEW S, NEW s \in Seq(S), NEW n \in DOMAIN s
    PROVE  /\ \A k \in DOMAIN s : k # n => \E j \in DOMAIN RemoveAt(s, n) : RemoveAt(s, n)[j] = s[k]
           /\ \A j \in DOMAIN RemoveAt(s, n) : \E k \in DOMAIN s : RemoveAt(s, n)[j] = s[k]
<1> DEFINE r == RemoveAt(s, n)
<1>0. n \in 1 .. Len(s) /\ Len(s) \in Nat /\ DOMAIN s = 1 .. Len(s)
  OBVIOUS
<1>a. /\ r \in Seq(S)
      /\ Len(r) = Len(s) - 1
      /\ \A i \in 1 .. Len(s) - 1 : r[i] = IF i < n THEN s[i] ELSE s[i + 1]
  BY RemoveAtIs
<1> HIDE DEF r
<1>1. /\ DOMAIN r = 1 .. Len(s) - 1
      /\ \A i \in 1 .. Len(s) - 1 : r[i] = IF i < n THEN s[i] ELSE s[i + 1]
  BY <1>a
<1>2. ASSUME NEW k \in DOMAIN s, k # n
      PROVE  \E j \in DOMAIN r : r[j] = s[k]
  <2>1. CASE k < n
    <3>1. k \in 1 .. Len(s) - 1
      BY <2>1, <1>0
    <3> QED BY <3>1, <1>1, <2>1
  <2>2. CASE k > n
    <3>1. k - 1 \in 1 .. Len(s) - 1 /\ ~(k - 1 < n) /\ (k - 1) + 1 = k
      BY <2>2, <1>0
    <3> QED BY <3>1, <1>1
  <2> QED BY <2>1, <2>2, <1>2, <1>0
<1>3. ASSUME NEW j \in DOMAIN r
      PROVE  \E k \in DOMAIN s : r[j] = s[k]
  <2>1. j \in 1 .. Len(s) - 1 /\ j \in 1 .. Len(s) /\ j + 1 \in 1 .. Len(s)
    BY <1>0, <1>1
  <2> QED BY <2>1, <1>0, <1>1
<1> QED BY <1>2, <1>3 DEF r

LEMMA RemovedBatches ==
    ASSUME NEW regs, NEW bs, BatchesOK(bs, regs), NEW n \in DOMAIN bs
    PROVE  BatchesOK(RemoveAt(bs, n), regs)
<1>1. bs \in Seq(Batch) /\ \A k \in DOMAIN bs : BatchOK(bs[k], regs)
  BY DEF BatchesOK
<1>2. RemoveAt(bs, n) \in Seq(Batch)
  BY <1>1, RemoveAtIs
<1>3. \A j \in DOMAIN RemoveAt(bs, n) : \E k \in DOMAIN bs : RemoveAt(bs, n)[j] = bs[k]
  BY <1>1, OthersStay
<1> QED BY <1>1, <1>2, <1>3 DEF BatchesOK

-----------------------------------------------------------------------------
(* The inductive invariant.                                                *)

\* A firing that found a batch running is only repeated for pending wakes.
ScheduledForPending == scheduled => pending # << >>

WakeInv ==
    /\ TypeOK
    /\ PendingIsArmed
    /\ ScheduledForPending
    /\ OverlapsBounded
    /\ NoWakeLost

\* What a batch's step to its next wake, or its end, does to the other parts;
\* q is what is pending after it.
LEMMA GoOnType ==
    ASSUME TypeOK, NEW n \in DOMAIN batches, NEW q \in Seq(Wake),
           NEW tm \in Timer \cup {NoTimer}, GoOn(n, q, tm)
    PROVE  /\ BatchesOK(batches', registered)
           /\ pending' = q
           /\ running' \in BOOLEAN
           /\ timer' \in Timer \cup {NoTimer}
<1>0. BatchesOK(batches, registered) /\ batches[n] \in Batch
  BY BatchesOKIs DEF TypeOK
<1>1. CASE batches[n].at = Len(batches[n].wakes)
  <2>1. Finish(n, q, tm)
    BY <1>1 DEF GoOn
  <2>2. batches[n].delay \in AllDelays
    BY <1>0 DEF Batch
  <2>3. Schedule(tm, batches[n].delay, "normal") \in Timer
    BY <2>2, ScheduleType
  <2>4. BatchesOK(RemoveAt(batches, n), registered)
    BY <1>0, RemovedBatches
  <2> QED BY <2>1, <2>3, <2>4 DEF Finish
<1>2. CASE batches[n].at # Len(batches[n].wakes)
  <2>1. /\ batches' = [batches EXCEPT ![n].at = @ + 1]
        /\ pending' = q /\ timer' = tm /\ running' = running
    BY <1>2 DEF GoOn
  <2> DEFINE b == batches[n]
             c == [b EXCEPT !.at = @ + 1]
  <2>2. batches' = [batches EXCEPT ![n] = c]
    BY <2>1
  <2>3. BatchOK(b, registered)
    BY <1>0 DEF BatchesOK
  <2>4. BatchOK(c, registered)
    <3>1. /\ b \in Batch
          /\ b.handler \in DOMAIN registered
          /\ b.at \in 1 .. Len(b.wakes)
          /\ b.wakes \in Seq(Wake)
      BY <2>3 DEF BatchOK, Batch
    <3>2. b.at + 1 \in 1 .. Len(b.wakes)
      BY <3>1, <1>2
    <3>3. c \in Batch /\ c.handler = b.handler /\ c.wakes = b.wakes /\ c.at = b.at + 1
      BY <3>1 DEF Batch
    <3> HIDE DEF b, c
    <3> QED BY <3>1, <3>2, <3>3 DEF BatchOK
  <2> HIDE DEF b, c
  <2>5. batches' \in Seq(Batch) /\ DOMAIN batches' = DOMAIN batches
    BY <1>0, <2>2, <2>4 DEF BatchesOK, BatchOK
  <2>6. \A k \in DOMAIN batches' : batches'[k] = IF k = n THEN c ELSE batches[k]
    BY <1>0, <2>2, <2>5 DEF BatchesOK
  <2>7. BatchesOK(batches', registered)
    BY <1>0, <2>4, <2>5, <2>6 DEF BatchesOK
  <2> QED BY <2>1, <2>7 DEF TypeOK
<1> QED BY <1>1, <1>2

\* What was covered before the step is covered after it, but for what the
\* wake that is handed over next is as urgent as.
LEMMA GoOnCovers ==
    ASSUME TypeOK, NEW n \in DOMAIN batches, NEW q \in Seq(Wake),
           NEW tm \in Timer \cup {NoTimer}, GoOn(n, q, tm),
           NEW owed \in [Targets -> 0 .. 3], Covered(owed, q, batches)
    PROVE  Covered(HandedOver(owed, NextWakes(n)), q, batches')
<1> DEFINE h == HandedOver(owed, NextWakes(n))
<1>0. batches \in Seq(Batch) /\ batches[n] \in Batch /\ batches[n].at \in DOMAIN batches[n].wakes
  BY DEF TypeOK
<1> SUFFICES ASSUME NEW t \in Targets, h[t] > 0
             PROVE  InQueue(q, t, h[t]) \/ \E k \in DOMAIN batches' : InBatch(batches'[k], t, h[t])
  BY DEF Covered
<1>1. /\ h[t] = owed[t]
      /\ \A w \in NextWakes(n) : w.target = t => ~(owed[t] <= Priority(w))
  BY HandedOverIs
<1>2. owed[t] > 0 /\ owed[t] \in 0 .. 3
  BY <1>1
<1> HIDE DEF h
<1>3. CASE InQueue(q, t, owed[t])
  BY <1>1, <1>3
<1>4. ASSUME NEW k \in DOMAIN batches, InBatch(batches[k], t, owed[t])
      PROVE  \E j \in DOMAIN batches' : InBatch(batches'[j], t, owed[t])
  <2> DEFINE b == batches[n]
  <2>b. b.wakes \in Seq(Wake) /\ b.at \in 1 .. Len(b.wakes)
    BY <1>0 DEF Batch
  <2>1. CASE b.at = Len(b.wakes)
    <3>1. batches' = RemoveAt(batches, n)
      BY <2>1 DEF GoOn, Finish
    <3>2. k # n
      <4> SUFFICES ASSUME k = n
                   PROVE  FALSE
        OBVIOUS
      <4>1. b.at + 1 .. Len(b.wakes) = {}
        BY <2>1, <2>b
      <4> QED BY <4>1, <1>4 DEF InBatch
    <3>3. \E j \in DOMAIN RemoveAt(batches, n) : RemoveAt(batches, n)[j] = batches[k]
      BY <1>0, <3>2, OthersStay
    <3> QED BY <3>1, <3>3, <1>4
  <2>2. CASE b.at # Len(b.wakes)
    <3>1. batches' = [batches EXCEPT ![n].at = @ + 1]
      BY <2>2 DEF GoOn
    <3>2. CASE k # n
      <4>1. k \in DOMAIN batches' /\ batches'[k] = batches[k]
        BY <3>1, <3>2
      <4> QED BY <4>1, <1>4
    <3>3. CASE k = n
      <4>1. /\ n \in DOMAIN batches'
            /\ batches'[n].at = b.at + 1
            /\ batches'[n].wakes = b.wakes
        BY <3>1, <1>0 DEF Batch
      <4>2. PICK i \in b.at + 1 .. Len(b.wakes) :
              b.wakes[i].target = t /\ Priority(b.wakes[i]) >= owed[t]
        BY <1>4, <3>3 DEF InBatch
      <4>3. NextWakes(n) = {b.wakes[b.at + 1]}
        BY <2>2 DEF NextWakes
      <4>4. i # b.at + 1
        <5> SUFFICES ASSUME i = b.at + 1
                     PROVE  FALSE
          OBVIOUS
        <5>1. ~(owed[t] <= Priority(b.wakes[i]))
          BY <4>2, <4>3, <1>1
        <5>2. b.wakes[i] \in Wake
          BY <2>b, <4>2
        <5>3. Priority(b.wakes[i]) \in 1 .. 3
          BY <5>2, PriorityType
        <5> QED BY <5>1, <5>3, <4>2, <1>2
      <4>5. i \in (b.at + 1) + 1 .. Len(b.wakes)
        BY <4>2, <4>4, <2>b
      <4> HIDE DEF b
      <4>6. InBatch(batches'[n], t, owed[t])
        BY <4>1, <4>2, <4>5 DEF InBatch
      <4> QED BY <4>1, <4>6
    <3> QED BY <3>2, <3>3
  <2> QED BY <2>1, <2>2
<1>5. InQueue(q, t, owed[t]) \/ \E k \in DOMAIN batches : InBatch(batches[k], t, owed[t])
  BY <1>2 DEF Covered
<1> QED BY <1>1, <1>3, <1>4, <1>5

\* How the parts of the invariant follow when little changes
LEMMA CoveredNext == NoWakeLost' <=> Covered(asked', pending', batches')
<1>1. (NoWakeLost <=> Covered(asked, pending, batches))'
  BY NoWakeLostIsCovered, PTL
<1> QED BY <1>1 DEF Covered, InQueue, InBatch

LEMMA RequestKeepsInv ==
    ASSUME WakeInv, NEW w \in Wake, NEW d \in Delays, RequestHeartbeat(w, d)
    PROVE  WakeInv'
<1> USE DEF WakeInv
<1>1. /\ QueuePending(pending, w) \in Seq(Wake)
      /\ Serves(QueuePending(pending, w), w)
      /\ Keeps(pending, QueuePending(pending, w))
  BY QueuePendingServes DEF TypeOK, Keeps
<1>2. timer' \in Timer /\ timer' # NoTimer
  BY ScheduleType, DelayTypes DEF RequestHeartbeat, TypeOK
<1>3. <<w>> \in Seq(Wake) /\ Len(<<w>>) = 1 /\ <<w>>[1] = w
  OBVIOUS
<1>4. asked' \in [Targets -> 0 .. 3]
  BY <1>3, OwedIs DEF RequestHeartbeat, TypeOK
<1>5. TypeOK'
  BY <1>1, <1>2, <1>4 DEF TypeOK, RequestHeartbeat
<1>6. pending' # << >>
  BY <1>1 DEF RequestHeartbeat, Serves
<1>7. NoWakeLost'
  <2>1. Covered(asked, pending, batches)
    BY NoWakeLostIsCovered
  <2>2. \A i \in 1 .. Len(<<w>>) : Serves(QueuePending(pending, w), <<w>>[i])
    BY <1>1, <1>3
  <2>3. Covered(Owed(<<w>>), QueuePending(pending, w), batches)
    BY <1>1, <1>3, <2>1, <2>2, OwedIsCovered DEF TypeOK
  <2> QED BY <2>3, CoveredNext DEF RequestHeartbeat
<1>8. PendingIsArmed' /\ ScheduledForPending'
  BY <1>2, <1>6 DEF PendingIsArmed, ScheduledForPending
<1>9. OverlapsBounded'
  BY DEF OverlapsBounded, RequestHeartbeat
<1> QED BY <1>5, <1>7, <1>8, <1>9

LEMMA TimeKeepsInv ==
    ASSUME WakeInv, TimePasses
    PROVE  WakeInv'
<1> USE DEF WakeInv
<1>1. timer' \in Timer \cup {NoTimer} /\ (timer' = NoTimer <=> timer = NoTimer)
  <2>1. NoTimer \notin Timer /\ AllDelays \subseteq Nat
    BY WakeAssumption DEF Timer, AllDelays
  <2>2. CASE timer # NoTimer /\ timer.left > 0
    <3>1. timer \in Timer /\ timer' = [timer EXCEPT !.left = @ - 1]
      BY <2>2 DEF TypeOK, TimePasses, Aged
    <3>2. timer' \in Timer
      BY <3>1, <2>2 DEF Timer
    <3> QED BY <3>2, <2>1, <2>2
  <2>3. CASE ~(timer # NoTimer /\ timer.left > 0)
    BY <2>3 DEF TypeOK, TimePasses, Aged
  <2> QED BY <2>2, <2>3
<1>2. TypeOK'
  BY <1>1 DEF TypeOK, TimePasses
<1>3. NoWakeLost'
  BY NoWakeLostIsCovered, CoveredNext DEF TimePasses
<1>4. PendingIsArmed' /\ ScheduledForPending' /\ OverlapsBounded'
  BY <1>1 DEF TimePasses, PendingIsArmed, ScheduledForPending, OverlapsBounded
<1> QED BY <1>2, <1>3, <1>4

LEMMA UnhandledKeepsInv ==
    ASSUME WakeInv, FiresUnhandled
    PROVE  WakeInv'
<1> USE DEF WakeInv
<1>1. TypeOK'
  BY DEF TypeOK, FiresUnhandled
<1>2. NoWakeLost'
  BY NoWakeLostIsCovered, CoveredNext DEF FiresUnhandled
<1>3. PendingIsArmed' /\ ScheduledForPending' /\ OverlapsBounded'
  BY DEF FiresUnhandled, PendingIsArmed, ScheduledForPending, OverlapsBounded
<1> QED BY <1>1, <1>2, <1>3

LEMMA WhileRunningKeepsInv ==
    ASSUME WakeInv, FiresWhileRunning
    PROVE  WakeInv'
<1> USE DEF WakeInv
<1>0. timer \in Timer /\ timer # NoTimer
  BY DEF FiresWhileRunning, Fires, TypeOK
<1>1. timer' \in Timer /\ timer' # NoTimer
  <2>1. timer.delay \in AllDelays /\ timer.kind \in {"normal", "retry"}
    BY <1>0 DEF Timer
  <2> QED BY <2>1, ScheduleType DEF FiresWhileRunning
<1>2. TypeOK'
  BY <1>1 DEF TypeOK, FiresWhileRunning
<1>3. NoWakeLost'
  BY NoWakeLostIsCovered, CoveredNext DEF FiresWhileRunning
<1>4. PendingIsArmed' /\ ScheduledForPending' /\ OverlapsBounded'
  BY <1>0, <1>1 DEF FiresWhileRunning, PendingIsArmed, ScheduledForPending, OverlapsBounded
<1> QED BY <1>2, <1>3, <1>4

LEMMA StartKeepsInv ==
    ASSUME WakeInv, StartBatch
    PROVE  WakeInv'
<1> USE DEF WakeInv
<1> DEFINE b == [handler |-> handler, wakes |-> pending, at |-> 1, delay |-> timer.delay]
<1>0. /\ timer \in Timer
      /\ handler \in DOMAIN registered /\ handler \in Nat \ {0}
      /\ pending \in Seq(Wake) /\ 1 \in DOMAIN pending
      /\ registered # << >>
  <2>1. pending # << >> /\ handler # 0 /\ timer # NoTimer
    BY DEF StartBatch, MayStart, Fires
  <2>2. registered \in Seq(Nat) /\ handler \in 0 .. Len(registered) /\ pending \in Seq(Wake)
    BY DEF TypeOK
  <2>3. Len(registered) # 0 /\ Len(pending) # 0
    BY <2>1, <2>2
  <2> QED BY <2>1, <2>2, <2>3 DEF TypeOK
<1>1. BatchOK(b, registered)
  <2>1. timer.delay \in AllDelays
    BY <1>0 DEF Timer
  <2> QED BY <1>0, <2>1 DEF BatchOK, Batch
<1> HIDE DEF b
<1>2. batches' = Append(batches, b) /\ batches \in Seq(Batch) /\ b \in Batch
  BY <1>1 DEF StartBatch, b, TypeOK, BatchOK
<1>3. /\ batches' \in Seq(Batch)
      /\ Len(batches') = Len(batches) + 1
      /\ DOMAIN batches' = 1 .. Len(batches) + 1
      /\ DOMAIN batches = 1 .. Len(batches)
      /\ batches'[Len(batches) + 1] = b
      /\ \A n \in 1 .. Len(batches) : batches'[n] = batches[n]
  BY <1>2
<1>4. BatchesOK(batches', registered)
  BY <1>1, <1>3, BatchesOKIs DEF BatchesOK
<1>5. asked' \in [Targets -> 0 .. 3]
  BY HandedOverIs DEF StartBatch, TypeOK
<1>6. TypeOK'
  <2>1. /\ handler' = handler /\ handlerGeneration' = handlerGeneration
        /\ registered' = registered /\ stopped' = stopped /\ throws' = throws
        /\ timer' = NoTimer /\ scheduled' = FALSE /\ running' = TRUE /\ pending' = << >>
    BY DEF StartBatch
  <2>2. /\ batches' \in Seq(Batch)
        /\ \A n \in DOMAIN batches' : /\ batches'[n].handler \in DOMAIN registered'
                                      /\ batches'[n].at \in DOMAIN batches'[n].wakes
    BY <1>4, <2>1 DEF BatchesOK, BatchOK
  <2>3. << >> \in Seq(Wake)
    OBVIOUS
  <2> QED BY <1>5, <2>1, <2>2, <2>3 DEF TypeOK
<1>7. NoWakeLost'
  <2>1. Covered(asked, pending, batches)
    BY NoWakeLostIsCovered
  <2> SUFFICES ASSUME NEW t \in Targets, asked'[t] > 0
               PROVE  \E n \in DOMAIN batches' : InBatch(batches'[n], t, asked'[t])
    BY CoveredNext DEF Covered
  <2>2. /\ asked'[t] = asked[t]
        /\ \A w \in {pending[1]} : w.target = t => ~(asked[t] <= Priority(w))
    BY HandedOverIs DEF StartBatch, TypeOK
  <2>3. InQueue(pending, t, asked[t]) \/ \E n \in DOMAIN batches : InBatch(batches[n], t, asked[t])
    BY <2>1, <2>2 DEF Covered
  <2>4. CASE InQueue(pending, t, asked[t])
    <3>1. PICK i \in DOMAIN pending : pending[i].target = t /\ Priority(pending[i]) >= asked[t]
      BY <2>4 DEF InQueue
    <3>2. i # 1
      <4>1. pending[i] \in Wake /\ asked[t] \in 0 .. 3
        BY DEF TypeOK
      <4>2. Priority(pending[i]) \in 1 .. 3
        BY <4>1, PriorityType
      <4>3. asked[t] <= Priority(pending[i])
        BY <3>1, <4>1, <4>2
      <4> QED BY <2>2, <3>1, <4>3
    <3>3. i \in 1 + 1 .. Len(pending)
      BY <1>0, <3>2
    <3>4. b.at = 1 /\ b.wakes = pending
      BY DEF b
    <3>5. InBatch(b, t, asked[t])
      BY <3>1, <3>3, <3>4 DEF InBatch
    <3>6. Len(batches) + 1 \in DOMAIN batches'
      BY <1>2, <1>3
    <3> QED BY <1>3, <2>2, <3>5, <3>6
  <2>5. CASE \E n \in DOMAIN batches : InBatch(batches[n], t, asked[t])
    <3>1. PICK n \in 1 .. Len(batches) : InBatch(batches[n], t, asked[t])
      BY <2>5, <1>3
    <3>2. n \in DOMAIN batches'
      BY <1>2, <1>3
    <3> QED BY <1>3, <2>2, <3>1, <3>2
  <2> QED BY <2>3, <2>4, <2>5
<1>8. PendingIsArmed' /\ ScheduledForPending'
  BY DEF StartBatch, PendingIsArmed, ScheduledForPending
<1>9. OverlapsBounded'
  <2>1. Len(batches) < Len(registered)
    BY <1>0 DEF OverlapsBounded, StartBatch, MayStart
  <2>2. Len(batches) \in Nat /\ Len(registered) \in Nat
    BY DEF TypeOK
  <2> QED BY <1>3, <2>1, <2>2 DEF OverlapsBounded, StartBatch
<1> QED BY <1>6, <1>7, <1>8, <1>9

\* The end of a batch, and its next step, keep the flags in order: q is
\* pending after it, and tm armed for it.
LEMMA GoOnFlags ==
    ASSUME WakeInv, NEW n \in DOMAIN batches, NEW q \in Seq(Wake),
           NEW tm \in Timer \cup {NoTimer},
           pending # << >> => q # << >>,
           tm # NoTimer => q # << >>,
           handler # 0 /\ q # << >> => tm # NoTimer,
           GoOn(n, q, tm) \/ Finish(n, q, tm),
           handler' = handler, registered' = registered, scheduled' = scheduled
    PROVE  PendingIsArmed' /\ ScheduledForPending' /\ OverlapsBounded'
<1> USE DEF WakeInv
<1>0. batches \in Seq(Batch) /\ batches[n] \in Batch /\ registered \in Seq(Nat)
  BY DEF TypeOK
<1>1. pending' = q
  BY DEF GoOn, Finish
<1>2. ScheduledForPending'
  BY <1>1 DEF ScheduledForPending
<1>3. CASE Finish(n, q, tm)
  <2>1. batches[n].delay \in AllDelays
    BY <1>0 DEF Batch
  <2>2. Schedule(tm, batches[n].delay, "normal") # NoTimer
    BY <2>1, ScheduleType
  <2>3. PendingIsArmed'
    BY <1>1, <1>2, <1>3, <2>2 DEF Finish, PendingIsArmed, ScheduledForPending
  <2>4. Len(batches') = Len(batches) - 1 /\ Len(batches) # 0
    BY <1>0, <1>3, RemoveAtIs DEF Finish
  <2>5. OverlapsBounded'
    <3>1. running' = FALSE
      BY <1>3 DEF Finish
    <3>2. Len(batches) \in Nat /\ Len(registered) \in Nat
      BY <1>0
    <3>3. Len(batches) <= Len(registered)
      BY <3>2 DEF OverlapsBounded
    <3>4. registered # << >>
      <4> SUFFICES ASSUME registered = << >>
                   PROVE  FALSE
        OBVIOUS
      <4> QED BY <2>4, <3>2, <3>3
    <3> QED BY <2>4, <3>1, <3>2, <3>3, <3>4 DEF OverlapsBounded
  <2> QED BY <1>2, <2>3, <2>5
<1>4. CASE GoOn(n, q, tm) /\ ~Finish(n, q, tm)
  <2>1. /\ batches' = [batches EXCEPT ![n].at = @ + 1]
        /\ timer' = tm /\ running' = running
    BY <1>4 DEF GoOn
  <2>2. Len(batches') = Len(batches)
    BY <1>0, <2>1
  <2> QED BY <1>1, <1>2, <2>1, <2>2 DEF PendingIsArmed, OverlapsBounded
<1> QED BY <1>3, <1>4

LEMMA DoneKeepsInv ==
    ASSUME WakeInv, NEW n \in DOMAIN batches, HandlerDone(n)
    PROVE  WakeInv'
<1> USE DEF WakeInv
<1>0. pending \in Seq(Wake) /\ timer \in Timer \cup {NoTimer} /\ asked \in [Targets -> 0 .. 3]
  BY DEF TypeOK
<1>1. /\ BatchesOK(batches', registered)
      /\ pending' = pending
      /\ running' \in BOOLEAN
      /\ timer' \in Timer \cup {NoTimer}
  BY <1>0, GoOnType DEF HandlerDone
<1>2. asked' \in [Targets -> 0 .. 3]
  BY <1>0, HandedOverIs DEF HandlerDone
<1>3. TypeOK'
  BY <1>1, <1>2 DEF TypeOK, HandlerDone, BatchesOK, BatchOK
<1>4. NoWakeLost'
  <2>1. Covered(asked, pending, batches)
    BY NoWakeLostIsCovered
  <2>2. Covered(HandedOver(asked, NextWakes(n)), pending, batches')
    BY <1>0, <2>1, GoOnCovers DEF HandlerDone
  <2> QED BY <2>2, <1>1, CoveredNext DEF HandlerDone
<1>5. PendingIsArmed' /\ ScheduledForPending' /\ OverlapsBounded'
  BY <1>0, GoOnFlags DEF HandlerDone, PendingIsArmed
<1> QED BY <1>3, <1>4, <1>5

LEMMA BusyKeepsInv ==
    ASSUME WakeInv, NEW n \in DOMAIN batches, HandlerBusy(n)
    PROVE  WakeInv'
<1> USE DEF WakeInv
<1> DEFINE w == batches[n].wakes[batches[n].at]
           q == QueuePending(pending, w)
           tm == Schedule(timer, RetryMs, "retry")
<1>0. /\ pending \in Seq(Wake) /\ timer \in Timer \cup {NoTimer} /\ asked \in [Targets -> 0 .. 3]
      /\ w \in Wake
  <2>1. batches[n] \in Batch /\ batches[n].at \in DOMAIN batches[n].wakes
    BY DEF TypeOK
  <2>2. batches[n].wakes \in Seq(Wake)
    BY <2>1 DEF Batch
  <2> QED BY <2>1, <2>2 DEF TypeOK
<1>1. /\ GoOn(n, q, tm)
      /\ asked' = HandedOver(Owed(<<w>>), NextWakes(n))
      /\ UNCHANGED <<handler, handlerGeneration, registered, stopped, scheduled, throws>>
  BY DEF HandlerBusy
<1> HIDE DEF w
<1>2. q \in Seq(Wake) /\ Serves(q, w) /\ Keeps(pending, q)
  BY <1>0, QueuePendingServes DEF Keeps
<1>3. tm \in Timer /\ tm # NoTimer
  BY <1>0, ScheduleType, DelayTypes
<1> HIDE DEF q, tm
<1>4. /\ BatchesOK(batches', registered)
      /\ pending' = q
      /\ running' \in BOOLEAN
      /\ timer' \in Timer \cup {NoTimer}
  BY <1>1, <1>2, <1>3, GoOnType
<1>5. <<w>> \in Seq(Wake) /\ Len(<<w>>) = 1 /\ <<w>>[1] = w
  BY <1>0
<1>6. Owed(<<w>>) \in [Targets -> 0 .. 3]
  BY <1>0, <1>5, OwedIs
<1>7. asked' \in [Targets -> 0 .. 3]
  BY <1>1, <1>6, HandedOverIs
<1>8. TypeOK'
  BY <1>1, <1>2, <1>4, <1>7 DEF TypeOK, BatchesOK, BatchOK
<1>9. NoWakeLost'
  <2>1. Covered(asked, pending, batches)
    BY NoWakeLostIsCovered
  <2>2. \A i \in 1 .. Len(<<w>>) : Serves(q, <<w>>[i])
    BY <1>2, <1>5
  <2>3. Covered(Owed(<<w>>), q, batches)
    BY <1>0, <1>2, <1>5, <2>1, <2>2, OwedIsCovered
  <2>4. Covered(HandedOver(Owed(<<w>>), NextWakes(n)), q, batches')
    BY <1>1, <1>2, <1>3, <1>6, <2>3, GoOnCovers
  <2> QED BY <1>1, <1>4, <2>4, CoveredNext
<1>10. PendingIsArmed' /\ ScheduledForPending' /\ OverlapsBounded'
  <2>1. q # << >>
    BY <1>2 DEF Serves
  <2> QED BY <1>1, <1>2, <1>3, <2>1, GoOnFlags
<1> QED BY <1>8, <1>9, <1>10

LEMMA ThrowsKeepsInv ==
    ASSUME WakeInv, NEW n \in DOMAIN batches, HandlerThrows(n)
    PROVE  WakeInv'
<1> USE DEF WakeInv
<1> DEFINE ws == batches[n].wakes
           q == QueueAll(pending, ws)
           tm == Schedule(timer, RetryMs, "retry")
<1>0. /\ pending \in Seq(Wake) /\ timer \in Timer \cup {NoTimer} /\ asked \in [Targets -> 0 .. 3]
      /\ ws \in Seq(Wake) /\ 1 \in 1 .. Len(ws)
      /\ BatchesOK(batches, registered)
      /\ batches \in Seq(Batch) /\ batches[n] \in Batch
  <2>1. batches[n] \in Batch /\ batches[n].at \in DOMAIN batches[n].wakes
    BY DEF TypeOK
  <2>2. batches[n].wakes \in Seq(Wake)
    BY <2>1 DEF Batch
  <2> QED BY <2>1, <2>2, BatchesOKIs DEF TypeOK
<1>1. /\ throws < MaxThrows /\ throws' = throws + 1
      /\ Finish(n, q, tm)
      /\ asked' = Owed(ws)
      /\ UNCHANGED <<handler, handlerGeneration, registered, stopped, scheduled>>
  BY DEF HandlerThrows, Retried
<1>2. q \in Seq(Wake) /\ (\A i \in 1 .. Len(ws) : Serves(q, ws[i])) /\ Keeps(pending, q)
  <2> HIDE DEF ws
  <2> QED BY <1>0, FoldServes DEF Keeps
<1>3. tm \in Timer /\ tm # NoTimer
  BY <1>0, ScheduleType, DelayTypes
<1> HIDE DEF q, tm
<1>4. batches[n].delay \in AllDelays
  BY <1>0 DEF Batch
<1>5. Schedule(tm, batches[n].delay, "normal") \in Timer
  BY <1>3, <1>4, ScheduleType
<1>6. BatchesOK(RemoveAt(batches, n), registered)
  BY <1>0, RemovedBatches
<1>7. /\ batches' = RemoveAt(batches, n)
      /\ running' = FALSE
      /\ pending' = q
      /\ timer' \in Timer \cup {NoTimer}
  BY <1>1, <1>3, <1>5 DEF Finish
<1>8. asked' \in [Targets -> 0 .. 3]
  <2> HIDE DEF ws
  <2> QED BY <1>0, <1>1, OwedIs
<1>9. throws' \in 0 .. MaxThrows
  BY <1>1, WakeAssumption DEF TypeOK
<1>10. TypeOK'
  BY <1>1, <1>2, <1>6, <1>7, <1>8, <1>9 DEF TypeOK, BatchesOK, BatchOK
<1>11. NoWakeLost'
  <2>1. Covered(asked, pending, batches)
    BY NoWakeLostIsCovered
  <2>2. Covered(Owed(ws), q, batches)
    <3> HIDE DEF ws
    <3> QED BY <1>0, <1>2, <2>1, OwedIsCovered
  <2>3. ASSUME NEW t \in Targets, Owed(ws)[t] > 0
        PROVE  \/ InQueue(q, t, Owed(ws)[t])
               \/ \E k \in DOMAIN RemoveAt(batches, n) :
                    InBatch(RemoveAt(batches, n)[k], t, Owed(ws)[t])
    <3>1. CASE InQueue(q, t, Owed(ws)[t])
      BY <3>1
    <3>2. CASE \E k \in DOMAIN batches : k # n /\ InBatch(batches[k], t, Owed(ws)[t])
      <4>1. PICK k \in DOMAIN batches : k # n /\ InBatch(batches[k], t, Owed(ws)[t])
        BY <3>2
      <4>2. \E j \in DOMAIN RemoveAt(batches, n) : RemoveAt(batches, n)[j] = batches[k]
        BY <1>0, <4>1, OthersStay
      <4> QED BY <4>1, <4>2
    <3>3. CASE InBatch(batches[n], t, Owed(ws)[t])
      <4>1. PICK i \in batches[n].at + 1 .. Len(ws) :
              ws[i].target = t /\ Priority(ws[i]) >= Owed(ws)[t]
        BY <3>3 DEF InBatch
      <4>2. i \in 1 .. Len(ws) /\ ws[i] \in Wake
        <5>1. batches[n].at \in Nat
          BY <1>0 DEF Batch
        <5>2. i \in 1 .. Len(ws)
          BY <5>1, <1>0
        <5> HIDE DEF ws
        <5> QED BY <5>2, <1>0
      <4>3. PICK j \in DOMAIN q : q[j].target = ws[i].target /\ Priority(q[j]) >= Priority(ws[i])
        BY <1>2, <4>2 DEF Serves
      <4>4. q[j] \in Wake
        BY <1>2
      <4>5. /\ Priority(q[j]) \in 1 .. 3
            /\ Priority(ws[i]) \in 1 .. 3
            /\ Owed(ws)[t] \in 0 .. 3
        BY <1>1, <1>8, <4>2, <4>4, PriorityType
      <4>6. Priority(q[j]) >= Owed(ws)[t]
        BY <4>1, <4>3, <4>5
      <4> QED BY <4>1, <4>3, <4>6 DEF InQueue
    <3> QED BY <2>2, <2>3, <3>1, <3>2, <3>3 DEF Covered
  <2>4. Covered(Owed(ws), q, RemoveAt(batches, n))
    BY <2>3 DEF Covered
  <2> QED BY <1>1, <1>7, <2>4, CoveredNext
<1>12. PendingIsArmed' /\ ScheduledForPending' /\ OverlapsBounded'
  <2>1. q # << >>
    BY <1>0, <1>2 DEF Serves
  <2> QED BY <1>1, <1>2, <1>3, <2>1, GoOnFlags
<1> QED BY <1>10, <1>11, <1>12

LEMMA SetHandlerKeepsInv ==
    ASSUME WakeInv, SetHandler
    PROVE  WakeInv'
<1> USE DEF WakeInv
<1>0. /\ registered \in Seq(Nat) /\ handlerGeneration + 1 \in Nat
      /\ registered' = Append(registered, handlerGeneration + 1)
  BY DEF SetHandler, TypeOK
<1>1. /\ registered' \in Seq(Nat)
      /\ Len(registered') = Len(registered) + 1
      /\ Len(registered) \in Nat
      /\ DOMAIN registered \subseteq DOMAIN registered'
      /\ registered' # << >>
  BY <1>0
<1>2. pending # << >> => timer' \in Timer /\ timer' # NoTimer
  BY ScheduleType, DelayTypes DEF SetHandler, Rescheduled
<1>3. pending = << >> => timer' = NoTimer
  BY DEF SetHandler, Rescheduled
<1>4. TypeOK'
  <2>1. /\ handlerGeneration' \in Nat
        /\ handler' = Len(registered) + 1
        /\ handler' \in 0 .. Len(registered')
    BY <1>1 DEF SetHandler, TypeOK
  <2>2. timer' \in Timer \cup {NoTimer}
    BY <1>2, <1>3
  <2>3. /\ stopped' = stopped /\ pending' = pending /\ scheduled' = FALSE /\ running' = FALSE
        /\ batches' = batches /\ throws' = throws /\ asked' = asked
    BY DEF SetHandler
  <2> QED BY <1>1, <2>1, <2>2, <2>3 DEF TypeOK
<1>5. NoWakeLost'
  BY NoWakeLostIsCovered, CoveredNext DEF SetHandler
<1>6. PendingIsArmed' /\ ScheduledForPending'
  BY <1>2, <1>3 DEF SetHandler, PendingIsArmed, ScheduledForPending
<1>7. OverlapsBounded'
  <2>1. Len(batches) \in Nat /\ Len(batches) <= Len(registered)
    BY <1>1 DEF OverlapsBounded, TypeOK
  <2> QED BY <1>1, <2>1 DEF SetHandler, OverlapsBounded
<1> QED BY <1>4, <1>5, <1>6, <1>7

LEMMA DisposeKeepsInv ==
    ASSUME WakeInv, NEW r \in DOMAIN registered, Dispose(r)
    PROVE  WakeInv'
<1> USE DEF WakeInv
<1>1. TypeOK'
  BY DEF Dispose, TypeOK
<1>2. NoWakeLost'
  BY NoWakeLostIsCovered, CoveredNext DEF Dispose
<1>3. PendingIsArmed' /\ ScheduledForPending' /\ OverlapsBounded'
  BY DEF Dispose, PendingIsArmed, ScheduledForPending, OverlapsBounded
<1> QED BY <1>1, <1>2, <1>3

LEMMA WakeInvInit == Init => WakeInv
<1> SUFFICES ASSUME Init
             PROVE  WakeInv
  OBVIOUS
<1>1. TypeOK
  <2>1. << >> \in Seq(Nat) /\ << >> \in Seq(Wake) /\ << >> \in Seq(Batch) /\ Len(<< >>) = 0
    OBVIOUS
  <2>2. 0 \in 0 .. MaxThrows
    BY WakeAssumption
  <2>3. asked \in [Targets -> 0 .. 3]
    BY DEF Init
  <2>4. handler \in 0 .. Len(registered) /\ stopped \subseteq DOMAIN registered
    BY <2>1 DEF Init
  <2>5. \A n \in DOMAIN batches : FALSE
    BY DEF Init
  <2>6. /\ handlerGeneration \in Nat
        /\ registered \in Seq(Nat) /\ pending \in Seq(Wake) /\ batches \in Seq(Batch)
        /\ timer \in Timer \cup {NoTimer}
        /\ scheduled \in BOOLEAN /\ running \in BOOLEAN
        /\ throws \in 0 .. MaxThrows
    BY <2>1, <2>2 DEF Init
  <2> QED BY <2>3, <2>4, <2>5, <2>6 DEF TypeOK
<1> QED BY <1>1 DEF Init, WakeInv, PendingIsArmed, ScheduledForPending, OverlapsBounded, NoWakeLost

LEMMA WakeInvNext == WakeInv /\ [Next]_vars => WakeInv'
<1> SUFFICES ASSUME WakeInv, [Next]_vars
             PROVE  WakeInv'
  OBVIOUS
<1>1. ASSUME NEW w \in Wake, NEW d \in Delays, RequestHeartbeat(w, d)
      PROVE  WakeInv'
  BY <1>1, RequestKeepsInv
<1>2. CASE TimePasses
  BY <1>2, TimeKeepsInv
<1>3. CASE TimerFires
  BY <1>3, UnhandledKeepsInv, WhileRunningKeepsInv, StartKeepsInv DEF TimerFires
<1>4. ASSUME NEW n \in DOMAIN batches, HandlerAnswers(n)
      PROVE  WakeInv'
  BY <1>4, DoneKeepsInv, BusyKeepsInv, ThrowsKeepsInv DEF HandlerAnswers
<1>5. CASE SetHandler
  BY <1>5, SetHandlerKeepsInv
<1>6. ASSUME NEW r \in DOMAIN registered, Dispose(r)
      PROVE  WakeInv'
  BY <1>6, DisposeKeepsInv
<1>7. CASE UNCHANGED vars
  <2>1. NoWakeLost'
    BY <1>7, NoWakeLostIsCovered, CoveredNext DEF vars, WakeInv
  <2>2. TypeOK'
    BY <1>7 DEF vars, WakeInv, TypeOK
  <2> QED BY <1>7, <2>1, <2>2 DEF vars, WakeInv, PendingIsArmed, ScheduledForPending, OverlapsBounded
<1> QED BY <1>1, <1>2, <1>3, <1>4, <1>5, <1>6, <1>7 DEF Next

LEMMA WakeInvAlways == Spec => []WakeInv
BY WakeInvInit, WakeInvNext, PTL DEF Spec

-----------------------------------------------------------------------------
(* The theorems.                                                           *)

\* The state of the wake layer stays in its types.
THEOREM TypeIsOK == Spec => []TypeOK
<1>1. WakeInv => TypeOK
  BY DEF WakeInv
<1> QED BY <1>1, WakeInvAlways, PTL

\* A wake that was requested, found the handler busy or was in a batch when
\* the handler threw waits until a handler gets one as urgent, across every
\* replacement of the handler.
THEOREM WakesAreNeverLost == Spec => []NoWakeLost
<1>1. WakeInv => NoWakeLost
  BY DEF WakeInv
<1> QED BY <1>1, WakeInvAlways, PTL

\* While a handler is registered a timer is armed for what is pending, and
\* it is never armed for nothing.
THEOREM PendingIsAlwaysArmed == Spec => []PendingIsArmed
<1>1. WakeInv => PendingIsArmed
  BY DEF WakeInv
<1> QED BY <1>1, WakeInvAlways, PTL

\* Batches overlap only because handlers were registered while one ran.
THEOREM OverlapsAreBounded == Spec => []OverlapsBounded
<1>1. WakeInv => OverlapsBounded
  BY DEF WakeInv
<1> QED BY <1>1, WakeInvAlways, PTL
=============================================================================
