------------------------ MODULE HeartbeatRunnerProofs ------------------------
(***************************************************************************)
(* Theorems about HeartbeatRunner and their proofs: the runner is a        *)
(* handler that the wake layer allows, so what the wake layer promises is  *)
(* promised to the runner too, and its heartbeats do not stop by           *)
(* themselves.                                                             *)
(***************************************************************************)
EXTENDS HeartbeatRunner, HeartbeatWakeProofs

-----------------------------------------------------------------------------
(* Times.                                                                  *)

Ages == 0 .. MaxAge

Slots == Ages \cup {NoTimer}

LEMMA MaxAgeIs ==
    /\ MaxAge \in Nat
    /\ Interval \in Nat \ {0}
    /\ Interval <= MaxAge
    /\ FloodThreshold \in Nat \ {0}
    /\ NoTimer \notin Nat
<1> DEFINE S == {Interval, MinSpacing, FloodWindow + 1}
<1>1. /\ Interval \in Nat \ {0} /\ MinSpacing \in Nat /\ FloodWindow \in Nat
      /\ FloodThreshold \in Nat \ {0} /\ NoTimer \notin Nat
  BY RunnerAssumption
<1>2. \E m \in S : \A k \in S : m >= k
  BY <1>1
<1>3. Max(S) \in S /\ \A k \in S : Max(S) >= k
  BY <1>2 DEF Max
<1>4. MaxAge = Max(S)
  BY DEF MaxAge
<1> HIDE DEF S
<1>5. Interval \in S /\ S \subseteq Nat
  BY <1>1 DEF S
<1> QED BY <1>1, <1>3, <1>4, <1>5

LEMMA OlderType ==
    ASSUME NEW age \in Ages
    PROVE  Older(age) \in Ages /\ Sooner(age) \in Ages
BY MaxAgeIs DEF Older, Sooner, Ages

\* computeNextHeartbeatPhaseDueMs names a slot in the future.
LEMMA NextSlotType ==
    ASSUME NEW a \in Agents, NEW p \in 0 .. Interval - 1
    PROVE  NextSlot(a, p) \in Ages
<1>1. Interval \in Nat \ {0} /\ Phase[a] \in 0 .. Interval - 1 /\ Interval <= MaxAge
      /\ MaxAge \in Nat
  BY MaxAgeIs, RunnerAssumption
<1> DEFINE x == Phase[a] + Interval - p
           delta == x % Interval
<1>2. x \in Int
  BY <1>1
<1> HIDE DEF x
<1>3. delta \in 0 .. Interval - 1
  BY <1>1, <1>2
<1>4. NextSlot(a, p) = IF delta = 0 THEN Interval ELSE delta
  BY DEF NextSlot, x
<1> HIDE DEF delta
<1> QED BY <1>1, <1>3, <1>4 DEF Ages

LEMMA NextDueType ==
    ASSUME NEW a \in Agents, NEW intent, NEW p \in 0 .. Interval - 1, NEW age \in Ages
    PROVE  NextDue(a, intent, p, age) \in Ages
<1>1. NextSlot(a, p) \in Ages /\ Interval \in Ages
  BY NextSlotType, MaxAgeIs DEF Ages
<1>2. \A d \in Ages : Left(d, age) \in Ages
  BY MaxAgeIs DEF Left, Ages
<1> QED BY <1>1, <1>2 DEF NextDue

-----------------------------------------------------------------------------
(* The state of an agent.                                                  *)

AgentOK(s) == s \in AgentState /\ Len(s.recent) <= FloodThreshold + 1

\* recordRunStart keeps the newest FloodThreshold + 1 starts.
LEMMA RecordedType ==
    ASSUME NEW recent \in Seq(Ages), NEW age \in Ages
    PROVE  /\ Recorded(recent, age) \in Seq(Ages)
           /\ Len(Recorded(recent, age)) <= FloodThreshold + 1
<1> DEFINE all == Append(recent, age)
           n == Len(all)
           S == {1, n - FloodThreshold}
<1>1. all \in Seq(Ages) /\ n = Len(recent) + 1 /\ Len(recent) \in Nat
  BY AppendProperties, LenProperties
<1>2. FloodThreshold \in Nat \ {0}
  BY MaxAgeIs
<1> HIDE DEF all
<1>3. n \in Nat \ {0}
  BY <1>1
<1> HIDE DEF n
<1>4. \E m \in S : \A k \in S : m >= k
  BY <1>2, <1>3
<1>5. Max(S) \in S /\ \A k \in S : Max(S) >= k
  BY <1>4 DEF Max
<1>6. Max(S) \in Int /\ Max(S) >= 1 /\ Max(S) >= n - FloodThreshold /\ Max(S) <= n
  BY <1>2, <1>3, <1>5
<1>7. Recorded(recent, age) = SubSeq(all, Max(S), n)
  BY DEF Recorded, all, n, S
<1> DEFINE m == Max(S)
<1> HIDE DEF S, m
<1>8. m \in 1 .. n
  BY <1>3, <1>6 DEF m
<1>9. n = Len(all)
  BY DEF n
<1>10. SubSeq(all, m, n) \in Seq(Ages) /\ Len(SubSeq(all, m, n)) = n - m + 1
  BY <1>1, <1>3, <1>8, <1>9, SubSeqProperties
<1>11. m >= n - FloodThreshold
  BY <1>6 DEF m
<1> QED BY <1>2, <1>3, <1>7, <1>8, <1>10, <1>11 DEF m

LEMMA AgentFields ==
    ASSUME NEW s \in AgentState
    PROVE  /\ s.due \in Ages
           /\ s.last \in Ages \cup {Never}
           /\ s.recent \in Seq(Ages)
BY DEF AgentState, Ages

LEMMA FreshOK ==
    ASSUME NEW a \in Agents, clock \in 0 .. Interval - 1
    PROVE  AgentOK(Fresh(a))
<1>1. NextSlot(a, clock) \in Ages
  BY NextSlotType
<1>2. Fresh(a) \in AgentState
  BY <1>1 DEF Fresh, AgentState, Ages
<1> QED BY <1>2, MaxAgeIs DEF AgentOK, Fresh

LEMMA MovedOK ==
    ASSUME NEW a \in Agents, NEW s, AgentOK(s), clock \in 0 .. Interval - 1, NEW intent
    PROVE  AgentOK(AfterDeferral(a, s, intent)) /\ AgentOK(KeptSlot(a, s))
<1>1. NextSlot(a, clock) \in Ages
  BY NextSlotType
<1>2. 0 \in Ages
  BY MaxAgeIs DEF Ages
<1>3. NextDue(a, intent, clock, 0) \in Ages
  BY <1>2, NextDueType
<1>4. ASSUME NEW d \in Ages
      PROVE  AgentOK([s EXCEPT !.due = d])
  BY <1>4 DEF AgentOK, AgentState, Ages
<1> QED BY <1>1, <1>3, <1>4 DEF AfterDeferral, KeptSlot

LEMMA AfterRunOK ==
    ASSUME NEW r \in Run, r.holds # "gone", NEW s, AgentOK(s)
    PROVE  AgentOK(AfterRun(r, s))
<1>1. /\ r.agent \in Agents /\ r.position \in 0 .. Interval - 1 /\ r.age \in Ages
      /\ r.holds \in {"current", "replaced"}
  BY DEF Run, Ages
<1>2. s \in AgentState /\ s.recent \in Seq(Ages)
  BY AgentFields DEF AgentOK
<1>3. /\ Recorded(s.recent, r.age) \in Seq(Ages)
      /\ Len(Recorded(s.recent, r.age)) <= FloodThreshold + 1
  BY <1>1, <1>2, RecordedType
<1>4. NextDue(r.agent, r.intent, r.position, r.age) \in Ages
  BY <1>1, NextDueType
<1>5. CASE r.holds = "current"
  <2>1. AfterRun(r, s) = [due |-> NextDue(r.agent, r.intent, r.position, r.age),
                          last |-> r.age, recent |-> Recorded(s.recent, r.age)]
    BY <1>5 DEF AfterRun
  <2> QED BY <1>1, <1>3, <1>4, <2>1 DEF AgentOK, AgentState, Ages
<1>6. CASE r.holds = "replaced"
  <2>1. AfterRun(r, s) = [s EXCEPT !.recent = Recorded(@, r.age)]
    BY <1>6 DEF AfterRun
  <2> QED BY <1>2, <1>3, <2>1 DEF AgentOK, AgentState, Ages
<1> QED BY <1>1, <1>5, <1>6

\* One tick later
AgedAgent(s) == [due |-> Sooner(s.due),
                 last |-> IF s.last = Never THEN Never ELSE Older(s.last),
                 recent |-> [i \in DOMAIN s.recent |-> Older(s.recent[i])]]

LEMMA OlderStarts ==
    ASSUME NEW recent \in Seq(Ages)
    PROVE  /\ [i \in DOMAIN recent |-> Older(recent[i])] \in Seq(Ages)
           /\ Len([i \in DOMAIN recent |-> Older(recent[i])]) = Len(recent)
<1>1. Len(recent) \in Nat /\ DOMAIN recent = 1 .. Len(recent)
      /\ \A i \in 1 .. Len(recent) : recent[i] \in Ages
  BY LenProperties, ElementOfSeq
<1> DEFINE n == Len(recent)
           new == [i \in 1 .. n |-> Older(recent[i])]
<1>2. new \in [1 .. n -> Ages]
  BY <1>1, OlderType
<1>3. new \in Seq(Ages) /\ Len(new) = n
  BY <1>1, <1>2
<1> QED BY <1>1, <1>3

LEMMA AgedAgentOK ==
    ASSUME NEW s, AgentOK(s)
    PROVE  AgentOK(AgedAgent(s))
<1>1. /\ s.due \in Ages /\ s.last \in Ages \cup {Never} /\ s.recent \in Seq(Ages)
      /\ Len(s.recent) <= FloodThreshold + 1
  BY AgentFields DEF AgentOK
<1>2. /\ AgedAgent(s).due \in Ages
      /\ AgedAgent(s).last \in Ages \cup {Never}
  BY <1>1, OlderType DEF AgedAgent
<1>3. /\ AgedAgent(s).recent \in Seq(Ages)
      /\ Len(AgedAgent(s).recent) <= FloodThreshold + 1
  BY <1>1, OlderStarts DEF AgedAgent
<1>4. AgedAgent(s) = [due |-> AgedAgent(s).due, last |-> AgedAgent(s).last,
                      recent |-> AgedAgent(s).recent]
  BY DEF AgedAgent
<1> QED BY <1>2, <1>3, <1>4 DEF AgentOK, AgentState, Ages

-----------------------------------------------------------------------------
(* The agents of a runner and its timer.                                   *)

GoodStates == {s \in AgentState : AgentOK(s)}

Tables == UNION {[served -> GoodStates] : served \in SUBSET Agents}

LEMMA TableIs ==
    ASSUME NEW f \in Tables
    PROVE  /\ DOMAIN f \subseteq Agents
           /\ f = [a \in DOMAIN f |-> f[a]]
           /\ \A a \in DOMAIN f : f[a] \in AgentState /\ AgentOK(f[a]) /\ f[a].due \in Ages
<1>1. PICK S \in SUBSET Agents : f \in [S -> GoodStates]
  BY DEF Tables
<1>2. \A a \in S : f[a] \in AgentState /\ AgentOK(f[a])
  BY <1>1 DEF GoodStates
<1> QED BY <1>1, <1>2, AgentFields

LEMMA TableFrom ==
    ASSUME NEW S \in SUBSET Agents, NEW f, f = [a \in S |-> f[a]],
           \A a \in S : AgentOK(f[a])
    PROVE  f \in Tables
<1>1. \A a \in S : f[a] \in GoodStates
  BY DEF GoodStates, AgentOK
<1>2. f \in [S -> GoodStates]
  BY <1>1
<1> QED BY <1>2 DEF Tables

LEMMA NextTickerIs ==
    ASSUME NEW r, NEW f \in Tables
    PROVE  /\ NextTicker(r, f) \in Slots
           /\ r \notin stopped /\ DOMAIN f # {} => NextTicker(r, f) # NoTimer
<1>1. NoTimer \notin Nat /\ MaxAge \in Nat
  BY MaxAgeIs
<1>2. CASE r \in stopped \/ DOMAIN f = {}
  BY <1>2 DEF NextTicker, Slots
<1>3. CASE r \notin stopped /\ DOMAIN f # {}
  <2> DEFINE D == {f[a].due : a \in DOMAIN f}
  <2>1. D \subseteq Ages /\ D # {}
    BY <1>3, TableIs
  <2>2. NextTicker(r, f) = Min(D)
    BY <1>3 DEF NextTicker
  <2> HIDE DEF D
  <2>3. D \in SUBSET Nat
    BY <1>1, <2>1 DEF Ages
  <2>4. \E m \in D : \A k \in D : m <= k
    BY <2>1, <2>3, LeastNatural
  <2>5. Min(D) \in D
    BY <2>4 DEF Min
  <2> QED BY <1>1, <2>1, <2>2, <2>3, <2>5 DEF Slots
<1> QED BY <1>2, <1>3

\* What becomes of the agents in the course of a call, a run and a reload
LEMMA AfterGateOK ==
    ASSUME NEW r, agents[r] \in Tables, NEW w, clock \in 0 .. Interval - 1
    PROVE  /\ AfterGate(r, w) \in Tables
           /\ DOMAIN AfterGate(r, w) = DOMAIN agents[r]
<1> DEFINE f == agents[r]
           g == AfterGate(r, w)
           S == DOMAIN f
<1>1. S \in SUBSET Agents
  BY TableIs
<1>2. g = [a \in S |-> IF a \in Called(r, w) \ Admitted(r, w)
                       THEN AfterDeferral(a, f[a], w.intent) ELSE f[a]]
  BY DEF AfterGate
<1>3. ASSUME NEW a \in S
      PROVE  AgentOK(g[a])
  <2>1. AgentOK(f[a]) /\ a \in Agents
    BY <1>1, TableIs
  <2>2. AgentOK(AfterDeferral(a, f[a], w.intent))
    BY <2>1, MovedOK
  <2> QED BY <1>2, <2>1, <2>2
<1>4. DOMAIN g = S /\ g = [a \in S |-> g[a]]
  BY <1>2
<1> HIDE DEF g, S
<1>5. g \in Tables
  BY <1>1, <1>3, <1>4, TableFrom
<1> QED BY <1>4, <1>5 DEF g, S

LEMMA ServedAnewOK ==
    ASSUME NEW served \in SUBSET Agents, NEW f, clock \in 0 .. Interval - 1,
           NEW g, DOMAIN g = served, g = [a \in served |-> g[a]],
           \A a \in served : \/ g[a] = Fresh(a)
                             \/ f \in Tables /\ a \in DOMAIN f /\ g[a] = KeptSlot(a, f[a])
    PROVE  g \in Tables
<1>1. ASSUME NEW a \in served
      PROVE  AgentOK(g[a])
  <2>1. CASE g[a] = Fresh(a)
    BY <2>1, FreshOK
  <2>2. CASE f \in Tables /\ a \in DOMAIN f /\ g[a] = KeptSlot(a, f[a])
    <3>1. AgentOK(f[a]) /\ a \in Agents
      BY <2>2, TableIs
    <3>2. AgentOK(KeptSlot(a, f[a]))
      BY <3>1, MovedOK
    <3> QED BY <2>2, <3>2
  <2> QED BY <2>1, <2>2
<1> QED BY <1>1, TableFrom

LEMMA ChangedAgentOK ==
    ASSUME NEW f \in Tables, NEW a, NEW s, AgentOK(s)
    PROVE  /\ [f EXCEPT ![a] = s] \in Tables
           /\ DOMAIN [f EXCEPT ![a] = s] = DOMAIN f
<1> DEFINE g == [f EXCEPT ![a] = s]
           S == DOMAIN f
<1>1. S \in SUBSET Agents /\ \A b \in S : AgentOK(f[b])
  BY TableIs
<1>2. DOMAIN g = S /\ g = [b \in S |-> g[b]]
  OBVIOUS
<1>3. \A b \in S : g[b] = s \/ g[b] = f[b]
  OBVIOUS
<1>4. \A b \in S : AgentOK(g[b])
  BY <1>1, <1>3
<1> HIDE DEF g, S
<1>5. g \in Tables
  BY <1>1, <1>2, <1>4, TableFrom
<1> QED BY <1>2, <1>5 DEF g, S

-----------------------------------------------------------------------------
(* The runs.                                                               *)

\* Runs of the first n runners, for the first m batches
RunsOf(m, n) == {x \in Run : x.batch \in 0 .. m /\ x.runner \in 1 .. n}

LEMMA SetToSeqIs ==
    ASSUME NEW S, IsFiniteSet(S)
    PROVE  SetToSeq(S) \in Seq(S)
<1> DEFINE n == Cardinality(S)
<1>1. n \in Nat /\ ExistsBijection(1 .. n, S)
  BY FS_CardinalityType
<1>2. PICK f \in [1 .. n -> S] : \A i, j \in 1 .. n : f[i] = f[j] => i = j
  BY <1>1 DEF ExistsBijection, Bijection, Injection, IsInjective
<1>3. \E g \in [1 .. n -> S] : IsInjective(g)
  BY <1>2 DEF IsInjective
<1>4. SetToSeq(S) \in [1 .. n -> S]
  BY <1>3 DEF SetToSeq
<1> QED BY <1>1, <1>4

LEMMA NewRunsType ==
    ASSUME NEW c \in Nat, NEW r \in 1 .. c, agents[r] \in Tables, NEW w \in Wake,
           NEW m \in Nat, NEW n \in 0 .. m, clock \in 0 .. Interval - 1
    PROVE  NewRuns(r, w, n) \in Seq(RunsOf(m, c))
<1> DEFINE A == Admitted(r, w)
           new(a) == [runner |-> r, agent |-> a, batch |-> n, intent |-> w.intent,
                      everyone |-> w.target = Everyone, position |-> clock, age |-> 0,
                      holds |-> "current", phase |-> "main"]
           S == {new(a) : a \in A}
<1>1. A \in SUBSET Agents
  <2>1. DOMAIN agents[r] \subseteq Agents
    BY TableIs
  <2> QED BY <2>1 DEF Admitted, Called
<1>2. w.intent \in Intents /\ 0 \in 0 .. MaxAge
  BY MaxAgeIs DEF Wake
<1>3. ASSUME NEW a \in A
      PROVE  new(a) \in RunsOf(m, c)
  <2>1. new(a) \in Run
    BY <1>1, <1>2 DEF Run
  <2> QED BY <2>1 DEF RunsOf
<1>4. S \subseteq RunsOf(m, c)
  BY <1>3
<1>5. IsFiniteSet(A)
  BY <1>1, RunnerAssumption, FS_Subset
<1>6. ExistsBijection(A, S)
  <2> DEFINE f == [a \in A |-> new(a)]
  <2>1. f \in [A -> S]
    OBVIOUS
  <2>2. \A a, b \in A : f[a] = f[b] => a = b
    <3> SUFFICES ASSUME NEW a \in A, NEW b \in A, new(a) = new(b)
                 PROVE  a = b
      OBVIOUS
    <3>1. new(a).agent = new(b).agent
      OBVIOUS
    <3> QED BY <3>1
  <2>3. \A x \in S : \E a \in A : f[a] = x
    OBVIOUS
  <2> HIDE DEF f, S
  <2>4. f \in Bijection(A, S)
    BY <2>1, <2>2, <2>3 DEF Bijection, Injection, Surjection, IsInjective
  <2> QED BY <2>4 DEF ExistsBijection
<1>7. NewRuns(r, w, n) = SetToSeq(S)
  BY DEF NewRuns
<1> HIDE DEF S
<1>8. IsFiniteSet(S)
  BY <1>5, <1>6, FS_Bijection
<1>9. SetToSeq(S) \in Seq(S)
  BY <1>8, SetToSeqIs
<1> QED BY <1>4, <1>7, <1>9

LEMMA UnboundType ==
    ASSUME NEW m \in Nat \ {0}, NEW c \in Nat, NEW rs \in Seq(RunsOf(m, c)), NEW n \in 1 .. m
    PROVE  Unbound(rs, n) \in Seq(RunsOf(m - 1, c))
<1> DEFINE k == Len(rs)
           after(x) == [x EXCEPT !.batch = IF @ = n THEN 0 ELSE IF @ > n THEN @ - 1 ELSE @]
<1>1. k \in Nat /\ DOMAIN rs = 1 .. k /\ \A i \in 1 .. k : rs[i] \in RunsOf(m, c)
  BY LenProperties, ElementOfSeq
<1>2. ASSUME NEW x \in RunsOf(m, c)
      PROVE  after(x) \in RunsOf(m - 1, c)
  <2>1. x \in Run /\ x.batch \in 0 .. m /\ x.runner \in 1 .. c
    BY DEF RunsOf
  <2> DEFINE b == IF x.batch = n THEN 0 ELSE IF x.batch > n THEN x.batch - 1 ELSE x.batch
  <2>2. b \in 0 .. m - 1
    BY <2>1
  <2>3. after(x) = [x EXCEPT !.batch = b]
    BY <2>1 DEF Run
  <2> HIDE DEF b
  <2>4. b \in Nat
    BY <2>2
  <2>5. [x EXCEPT !.batch = b] \in Run
    BY <2>1, <2>4 DEF Run
  <2>6. /\ [x EXCEPT !.batch = b].batch = b
        /\ [x EXCEPT !.batch = b].runner = x.runner
    BY <2>1 DEF Run
  <2> QED BY <2>1, <2>2, <2>3, <2>5, <2>6 DEF RunsOf
<1>3. Unbound(rs, n) = [i \in 1 .. k |-> after(rs[i])]
  BY <1>1 DEF Unbound
<1> HIDE DEF after, k
<1>4. Unbound(rs, n) \in [1 .. k -> RunsOf(m - 1, c)]
  BY <1>1, <1>2, <1>3
<1> QED BY <1>1, <1>4

LEMMA MoreRuns ==
    ASSUME NEW m \in Nat, NEW k \in Nat, NEW c \in Nat, NEW d \in Nat, m <= k, c <= d,
           NEW rs \in Seq(RunsOf(m, c))
    PROVE  rs \in Seq(RunsOf(k, d))
<1>1. RunsOf(m, c) \subseteq RunsOf(k, d)
  BY DEF RunsOf
<1> QED BY <1>1

-----------------------------------------------------------------------------
(* The inductive invariant.                                                *)

PartsOK ==
    /\ enabled \in BOOLEAN
    /\ clock \in 0 .. Interval - 1
    /\ ticker \in Seq(Slots) /\ Len(ticker) = Len(registered)
    /\ agents \in Seq(Tables) /\ Len(agents) = Len(registered)
    /\ calls \in Seq(Call) /\ Len(calls) = Len(batches)
    /\ runs \in Seq(RunsOf(Len(batches), Len(registered)))
    /\ starts \in [Agents -> Seq(Ages)]
    /\ requests \in 0 .. MaxRequests
    /\ toggles \in 0 .. MaxToggles
    /\ reloads \in 0 .. MaxReloads

\* The call of batch b, in the state c, arms the timer of r in the end.
Arms(b, c, r) == b.handler = r /\ (c.rearm \/ b.at < Len(b.wakes))

\* The timer of r is armed, or what is under way arms it.
AliveFor(r) ==
    \/ ticker[r] # NoTimer
    \/ pending # << >>
    \/ \E n \in DOMAIN batches : Arms(batches[n], calls[n], r)

Undisturbed ==
    toggles = 0 =>
      /\ enabled
      /\ \A r \in DOMAIN registered \ stopped :
           r = handler /\ DOMAIN agents[r] # {} => AliveFor(r)

RunnerInv == WakeInv /\ PartsOK /\ Undisturbed

LEMMA UndisturbedIs ==
    Undisturbed => (toggles = 0 => TickerAlive)
BY DEF Undisturbed, TickerAlive, AliveFor, Arms

\* What the parts of the state are made of
LEMMA PartsAre ==
    ASSUME RunnerInv
    PROVE  /\ registered \in Seq(Nat) /\ Len(registered) \in Nat
           /\ DOMAIN registered = 1 .. Len(registered)
           /\ DOMAIN agents = 1 .. Len(registered)
           /\ DOMAIN ticker = 1 .. Len(registered)
           /\ \A r \in 1 .. Len(registered) : agents[r] \in Tables /\ ticker[r] \in Slots
           /\ handler \in 0 .. Len(registered)
           /\ stopped \subseteq DOMAIN registered
           /\ pending \in Seq(Wake)
           /\ batches \in Seq(Batch) /\ Len(batches) \in Nat
           /\ DOMAIN batches = 1 .. Len(batches) /\ DOMAIN calls = 1 .. Len(batches)
           /\ \A n \in 1 .. Len(batches) : /\ calls[n] \in Call
                                           /\ batches[n].handler \in 1 .. Len(registered)
                                           /\ batches[n].wakes \in Seq(Wake)
                                           /\ batches[n].at \in 1 .. Len(batches[n].wakes)
<1>1. TypeOK /\ PartsOK
  BY DEF RunnerInv, WakeInv
<1>2. /\ registered \in Seq(Nat) /\ handler \in 0 .. Len(registered)
      /\ stopped \subseteq DOMAIN registered /\ pending \in Seq(Wake)
      /\ batches \in Seq(Batch)
      /\ \A n \in DOMAIN batches : batches[n].handler \in DOMAIN registered
      /\ \A n \in DOMAIN batches : batches[n].at \in DOMAIN batches[n].wakes
  BY <1>1 DEF TypeOK
<1>3. /\ ticker \in Seq(Slots) /\ Len(ticker) = Len(registered)
      /\ agents \in Seq(Tables) /\ Len(agents) = Len(registered)
      /\ calls \in Seq(Call) /\ Len(calls) = Len(batches)
  BY <1>1 DEF PartsOK
<1>4. /\ Len(registered) \in Nat /\ DOMAIN registered = 1 .. Len(registered)
      /\ Len(batches) \in Nat /\ DOMAIN batches = 1 .. Len(batches)
      /\ \A n \in 1 .. Len(batches) : batches[n] \in Batch
  BY <1>2
<1>5. /\ DOMAIN ticker = 1 .. Len(registered)
      /\ \A r \in 1 .. Len(registered) : ticker[r] \in Slots
  BY <1>3, <1>4
<1>6. /\ DOMAIN agents = 1 .. Len(registered)
      /\ \A r \in 1 .. Len(registered) : agents[r] \in Tables
  BY <1>3, <1>4
<1>7. /\ DOMAIN calls = 1 .. Len(batches)
      /\ \A n \in 1 .. Len(batches) : calls[n] \in Call
  BY <1>3, <1>4
<1>8. ASSUME NEW n \in 1 .. Len(batches)
      PROVE  /\ batches[n].handler \in 1 .. Len(registered)
             /\ batches[n].wakes \in Seq(Wake)
             /\ batches[n].at \in 1 .. Len(batches[n].wakes)
  <2>1. batches[n].wakes \in Seq(Wake)
    BY <1>4 DEF Batch
  <2>2. DOMAIN batches[n].wakes = 1 .. Len(batches[n].wakes)
    BY <2>1
  <2> QED BY <1>2, <1>4, <2>1, <2>2
<1> QED BY <1>2, <1>4, <1>5, <1>6, <1>7, <1>8

LEMMA RunIs ==
    ASSUME RunnerInv, NEW k \in DOMAIN runs
    PROVE  /\ runs \in Seq(RunsOf(Len(batches), Len(registered)))
           /\ runs[k] \in Run
           /\ runs[k].batch \in 0 .. Len(batches)
           /\ runs[k].runner \in 1 .. Len(registered)
<1>1. runs \in Seq(RunsOf(Len(batches), Len(registered)))
  BY DEF RunnerInv, PartsOK
<1>2. runs[k] \in RunsOf(Len(batches), Len(registered))
  BY <1>1
<1> QED BY <1>1, <1>2 DEF RunsOf

LEMMA InvTypes == RunnerInv => RunnerTypeOK
<1> SUFFICES ASSUME RunnerInv
             PROVE  RunnerTypeOK
  OBVIOUS
<1>1. ASSUME NEW r \in DOMAIN agents
      PROVE  /\ DOMAIN agents[r] \subseteq Agents
             /\ \A a \in DOMAIN agents[r] :
                  /\ agents[r][a] \in AgentState
                  /\ Len(agents[r][a].recent) <= FloodThreshold + 1
  <2>1. agents[r] \in Tables
    BY PartsAre
  <2> QED BY <2>1, TableIs DEF AgentOK
<1>2. runs \in Seq(Run)
  <2>1. RunsOf(Len(batches), Len(registered)) \subseteq Run
    BY DEF RunsOf
  <2> QED BY <2>1 DEF RunnerInv, PartsOK
<1>3. \A k \in DOMAIN runs : /\ runs[k].runner \in DOMAIN registered
                             /\ runs[k].batch \in 0 .. Len(batches)
  BY RunIs, PartsAre
<1>4. DOMAIN agents = DOMAIN registered
  BY PartsAre
<1>5. TypeOK /\ PartsOK
  BY DEF RunnerInv, WakeInv
<1> QED BY <1>1, <1>2, <1>3, <1>4, <1>5 DEF RunnerTypeOK, PartsOK, Slots, Ages

-----------------------------------------------------------------------------
(* Every step of the runner is one of the wake layer, or none.             *)

LEMMA RunnerStepsAreWakeSteps ==
    RunnerInv /\ [RunnerNext]_allVars => [Next]_vars
<1> SUFFICES ASSUME RunnerInv, [RunnerNext]_allVars
             PROVE  [Next]_vars
  OBVIOUS
<1>1. ASSUME NEW served \in SUBSET Agents, StartRunner(served)
      PROVE  [Next]_vars
  BY <1>1 DEF StartRunner, Next
<1>2. ASSUME NEW r \in DOMAIN registered, StopRunner(r)
      PROVE  [Next]_vars
  BY <1>2 DEF StopRunner, Next
<1>3. ASSUME NEW r \in DOMAIN registered, TickerFires(r)
      PROVE  [Next]_vars
  <2>1. [target |-> Everyone, intent |-> "scheduled"] \in Wake /\ 0 \in Delays
    BY RunnerAssumption DEF Wake
  <2> QED BY <1>3, <2>1 DEF TickerFires, Next
<1>4. ASSUME NEW r \in DOMAIN registered, NEW served \in SUBSET Agents, UpdateConfig(r, served)
      PROVE  [Next]_vars
  BY <1>4 DEF UpdateConfig
<1>5. CASE SetHeartbeatsEnabled
  BY <1>5 DEF SetHeartbeatsEnabled
<1>6. ASSUME NEW w \in Wake, NEW d \in Delays, Produce(w, d)
      PROVE  [Next]_vars
  BY <1>6 DEF Produce, Next
<1>7. CASE RunnerTimePasses
  BY <1>7 DEF RunnerTimePasses, Next
<1>8. CASE StartBatchCall
  BY <1>8 DEF StartBatchCall, Next, TimerFires
<1>9. CASE OtherTimerFires
  BY <1>9 DEF OtherTimerFires, Next, TimerFires
<1>10. ASSUME NEW k \in DOMAIN runs, RunBusy(k) \/ RunOver(k) \/ CommitmentsOver(k)
       PROVE  [Next]_vars
  BY <1>10 DEF RunBusy, RunOver, CommitmentsOver
<1>11. ASSUME NEW k \in DOMAIN runs, CommitmentsFail(k)
       PROVE  [Next]_vars
  <2>1. runs[k].batch \in DOMAIN batches /\ HandlerThrows(runs[k].batch)
    BY <1>11, RunIs, PartsAre DEF CommitmentsFail
  <2> QED BY <2>1 DEF Next, HandlerAnswers
<1>12. ASSUME NEW n \in DOMAIN batches, CallEnds(n)
       PROVE  [Next]_vars
  <2>1. HandlerBusy(n) \/ HandlerDone(n)
    BY <1>12 DEF CallEnds
  <2> QED BY <2>1 DEF Next, HandlerAnswers
<1>13. CASE UNCHANGED allVars
  BY <1>13 DEF allVars
<1> QED BY <1>1, <1>2, <1>3, <1>4, <1>5, <1>6, <1>7, <1>8, <1>9, <1>10, <1>11, <1>12, <1>13
        DEF RunnerNext

-----------------------------------------------------------------------------
(* The steps of the runner keep the invariant.                             *)

\* A sequence with another n-th element
LEMMA ChangedAt ==
    ASSUME NEW S, NEW s \in Seq(S), NEW n, NEW x, n \in DOMAIN s => x \in S
    PROVE  /\ [s EXCEPT ![n] = x] \in Seq(S)
           /\ Len([s EXCEPT ![n] = x]) = Len(s)
           /\ \A i \in DOMAIN s : [s EXCEPT ![n] = x][i] = IF i = n THEN x ELSE s[i]
<1>1. Len(s) \in Nat /\ DOMAIN s = 1 .. Len(s) /\ s \in [1 .. Len(s) -> S]
  OBVIOUS
<1>2. [s EXCEPT ![n] = x] \in [1 .. Len(s) -> S]
  BY <1>1
<1> QED BY <1>1, <1>2

\* A step after which the same handler serves the same agents, and its timer
\* will still be armed
LEMMA StillUndisturbed ==
    ASSUME RunnerInv, toggles' = toggles, enabled' = enabled, registered' = registered,
           handler' \in {handler, 0}, stopped \subseteq stopped',
           \A r \in DOMAIN registered : DOMAIN agents'[r] = DOMAIN agents[r],
           \A r \in DOMAIN registered \ stopped :
             /\ r = handler
             /\ r \notin stopped'
             /\ enabled
             /\ DOMAIN agents[r] # {}
             /\ AliveFor(r)
             => AliveFor(r)'
    PROVE  Undisturbed'
<1> SUFFICES ASSUME toggles' = 0
             PROVE  /\ enabled'
                    /\ \A r \in DOMAIN registered' \ stopped' :
                         r = handler' /\ DOMAIN agents'[r] # {} => AliveFor(r)'
  BY DEF Undisturbed
<1>1. /\ enabled
      /\ \A r \in DOMAIN registered \ stopped :
           r = handler /\ DOMAIN agents[r] # {} => AliveFor(r)
  BY DEF RunnerInv, Undisturbed
<1>2. 0 \notin DOMAIN registered
  BY PartsAre
<1>3. ASSUME NEW r \in DOMAIN registered \ stopped', r = handler', DOMAIN agents'[r] # {}
      PROVE  AliveFor(r)'
  <2>1. r \in DOMAIN registered \ stopped /\ r = handler /\ DOMAIN agents[r] # {}
    BY <1>2, <1>3
  <2>2. AliveFor(r)
    BY <1>1, <2>1
  <2> QED BY <1>1, <1>3, <2>1, <2>2
<1> QED BY <1>1, <1>3

LEMMA StartRunnerKeeps ==
    ASSUME RunnerInv, NEW served \in SUBSET Agents, StartRunner(served)
    PROVE  PartsOK' /\ Undisturbed'
<1> DEFINE f == [a \in served |-> Fresh(a)]
           c == Len(registered)
<1>1. /\ PartsOK /\ clock \in 0 .. Interval - 1
      /\ ticker \in Seq(Slots) /\ Len(ticker) = c
      /\ agents \in Seq(Tables) /\ Len(agents) = c
  BY DEF RunnerInv, PartsOK
<1>2. f \in Tables /\ DOMAIN f = served
  <2>1. DOMAIN f = served /\ f = [a \in served |-> f[a]] /\ \A a \in served : f[a] = Fresh(a)
    OBVIOUS
  <2> HIDE DEF f
  <2>2. \A a \in served : \/ f[a] = Fresh(a)
                          \/ f \in Tables /\ a \in DOMAIN f /\ f[a] = KeptSlot(a, f[a])
    BY <2>1
  <2> QED BY <1>1, <2>1, <2>2, ServedAnewOK
<1>3. /\ registered \in Seq(Nat) /\ c \in Nat /\ stopped \subseteq 1 .. c
      /\ DOMAIN registered = 1 .. c
  BY PartsAre
<1>4. /\ registered' = Append(registered, handlerGeneration + 1)
      /\ handler' = c + 1
      /\ stopped' = stopped /\ batches' = batches
      /\ agents' = Append(agents, f)
      /\ ticker' = Append(ticker, NextTicker(c + 1, f))
      /\ UNCHANGED <<enabled, clock, calls, runs, starts, requests, toggles, reloads>>
  BY DEF StartRunner, SetHandler
<1> HIDE DEF f
<1>5. Len(registered') = c + 1 /\ DOMAIN registered' = 1 .. c + 1
  <2>1. Len(registered') = c + 1
    BY <1>3, <1>4
  <2>2. (registered \in Seq(Nat))'
    <3>1. WakeInv'
      <4>1. [Next]_vars
        BY DEF StartRunner, Next
      <4> QED BY <4>1, WakeInvNext DEF RunnerInv
    <3> QED BY <3>1 DEF WakeInv, TypeOK
  <2> QED BY <2>1, <2>2
<1>6. /\ NextTicker(c + 1, f) \in Slots
      /\ c + 1 \notin stopped /\ served # {} => NextTicker(c + 1, f) # NoTimer
  BY <1>2, NextTickerIs
<1>7. /\ ticker' \in Seq(Slots) /\ Len(ticker') = c + 1
      /\ ticker'[c + 1] = NextTicker(c + 1, f)
  BY <1>1, <1>3, <1>4, <1>6
<1>8. /\ agents' \in Seq(Tables) /\ Len(agents') = c + 1
      /\ agents'[c + 1] = f
  BY <1>1, <1>2, <1>3, <1>4
<1>9. runs' \in Seq(RunsOf(Len(batches), c + 1))
  <2>1. runs \in Seq(RunsOf(Len(batches), c)) /\ Len(batches) \in Nat
    BY <1>1, PartsAre DEF PartsOK
  <2>2. runs \in Seq(RunsOf(Len(batches), c + 1))
    BY <1>3, <2>1, MoreRuns
  <2> QED BY <1>4, <2>2
<1>10. PartsOK'
  BY <1>1, <1>4, <1>5, <1>7, <1>8, <1>9 DEF PartsOK
<1>11. Undisturbed'
  <2> SUFFICES ASSUME toggles' = 0
               PROVE  /\ enabled'
                      /\ \A r \in DOMAIN registered' \ stopped' :
                           r = handler' /\ DOMAIN agents'[r] # {} => AliveFor(r)'
    BY DEF Undisturbed
  <2>1. enabled'
    BY <1>4 DEF RunnerInv, Undisturbed
  <2>2. ASSUME NEW r \in DOMAIN registered' \ stopped', r = handler', DOMAIN agents'[r] # {}
        PROVE  AliveFor(r)'
    <3>1. r = c + 1 /\ served # {} /\ c + 1 \notin stopped
      BY <1>2, <1>3, <1>4, <1>8, <2>2
    <3>2. ticker'[r] # NoTimer
      BY <1>6, <1>7, <3>1
    <3> QED BY <3>2 DEF AliveFor
  <2> QED BY <2>1, <2>2
<1> QED BY <1>10, <1>11

LEMMA StopRunnerKeeps ==
    ASSUME RunnerInv, NEW r0 \in DOMAIN registered, StopRunner(r0)
    PROVE  PartsOK' /\ Undisturbed'
<1>1. /\ registered' = registered /\ batches' = batches /\ pending' = pending
      /\ stopped' = stopped \cup {r0}
      /\ handler' \in {handler, 0}
      /\ ticker' = [ticker EXCEPT ![r0] = NoTimer]
      /\ UNCHANGED <<enabled, clock, agents, calls, runs, starts, requests, toggles, reloads>>
  BY DEF StopRunner, Dispose
<1>2. PartsOK /\ ticker \in Seq(Slots) /\ NoTimer \in Slots
  BY DEF RunnerInv, PartsOK, Slots
<1>3. /\ ticker' \in Seq(Slots) /\ Len(ticker') = Len(ticker)
      /\ \A i \in DOMAIN ticker : ticker'[i] = IF i = r0 THEN NoTimer ELSE ticker[i]
  BY <1>1, <1>2, ChangedAt
<1>4. PartsOK'
  BY <1>1, <1>2, <1>3 DEF PartsOK
<1>5. ASSUME NEW r \in DOMAIN registered \ stopped, r \notin stopped', AliveFor(r)
      PROVE  AliveFor(r)'
  <2>1. ticker'[r] = ticker[r]
    BY <1>1, <1>3, <1>5, PartsAre
  <2> QED BY <1>1, <1>5, <2>1 DEF AliveFor, Arms
<1>6. \A r \in DOMAIN registered : DOMAIN agents'[r] = DOMAIN agents[r]
  BY <1>1
<1>7. \A r \in DOMAIN registered \ stopped :
        /\ r = handler /\ r \notin stopped' /\ enabled /\ DOMAIN agents[r] # {} /\ AliveFor(r)
        => AliveFor(r)'
  BY <1>5
<1>8. stopped \subseteq stopped'
  BY <1>1
<1>9. Undisturbed'
  BY <1>1, <1>6, <1>7, <1>8, StillUndisturbed
<1> QED BY <1>4, <1>9

LEMMA UpdateConfigKeeps ==
    ASSUME RunnerInv, NEW r0 \in DOMAIN registered, NEW served \in SUBSET Agents,
           UpdateConfig(r0, served)
    PROVE  PartsOK' /\ Undisturbed'
<1> DEFINE f == [a \in served |-> IF a \in DOMAIN agents[r0] THEN KeptSlot(a, agents[r0][a])
                                  ELSE Fresh(a)]
           m == Len(batches)
           c == Len(registered)
           moved(x) == IF x.runner # r0 THEN x
                       ELSE [x EXCEPT !.holds =
                               IF @ # "gone" /\ x.agent \in served THEN "replaced" ELSE "gone"]
<1>1. /\ PartsOK /\ clock \in 0 .. Interval - 1
      /\ ticker \in Seq(Slots) /\ agents \in Seq(Tables) /\ agents[r0] \in Tables
      /\ runs \in Seq(RunsOf(m, c))
  BY PartsAre DEF RunnerInv, PartsOK
<1>2. f \in Tables /\ DOMAIN f = served
  <2> DEFINE g == agents[r0]
  <2>1. DOMAIN f = served /\ f = [a \in served |-> f[a]]
    OBVIOUS
  <2>2. \A a \in served : f[a] = Fresh(a) \/ (a \in DOMAIN g /\ f[a] = KeptSlot(a, g[a]))
    OBVIOUS
  <2>3. g \in Tables
    BY <1>1
  <2> HIDE DEF f, g
  <2>4. \A a \in served : \/ f[a] = Fresh(a)
                          \/ g \in Tables /\ a \in DOMAIN g /\ f[a] = KeptSlot(a, g[a])
    BY <2>2, <2>3
  <2>5. clock \in 0 .. Interval - 1
    BY <1>1
  <2>6. f \in Tables
    BY <2>1, <2>4, <2>5, ServedAnewOK
  <2> QED BY <2>1, <2>6
<1>3. /\ r0 \notin stopped
      /\ reloads < MaxReloads /\ reloads' = reloads + 1
      /\ agents' = [agents EXCEPT ![r0] = f]
      /\ ticker' = [ticker EXCEPT ![r0] = NextTicker(r0, f)]
      /\ runs' = [k \in DOMAIN runs |-> moved(runs[k])]
      /\ UNCHANGED <<vars, enabled, clock, calls, starts, requests, toggles>>
  BY DEF UpdateConfig
<1> HIDE DEF f
<1>4. /\ NextTicker(r0, f) \in Slots
      /\ served # {} => NextTicker(r0, f) # NoTimer
  BY <1>2, <1>3, NextTickerIs
<1>5. /\ ticker' \in Seq(Slots) /\ Len(ticker') = Len(ticker)
      /\ \A i \in DOMAIN ticker : ticker'[i] = IF i = r0 THEN NextTicker(r0, f) ELSE ticker[i]
  <2> DEFINE x == NextTicker(r0, f)
  <2>1. ticker \in Seq(Slots) /\ (r0 \in DOMAIN ticker => x \in Slots)
    BY <1>1, <1>4
  <2>2. ticker' = [ticker EXCEPT ![r0] = x]
    BY <1>3
  <2> HIDE DEF x
  <2>3. /\ ticker' \in Seq(Slots) /\ Len(ticker') = Len(ticker)
        /\ \A i \in DOMAIN ticker : ticker'[i] = IF i = r0 THEN x ELSE ticker[i]
    BY <2>1, <2>2, ChangedAt
  <2> QED BY <2>3 DEF x
<1>6. /\ agents' \in Seq(Tables) /\ Len(agents') = Len(agents)
      /\ \A i \in DOMAIN agents : agents'[i] = IF i = r0 THEN f ELSE agents[i]
  <2>1. agents \in Seq(Tables) /\ (r0 \in DOMAIN agents => f \in Tables)
    BY <1>1, <1>2
  <2>2. agents' = [agents EXCEPT ![r0] = f]
    BY <1>3
  <2> QED BY <2>1, <2>2, ChangedAt
<1>7. ASSUME NEW x \in RunsOf(m, c)
      PROVE  moved(x) \in RunsOf(m, c)
  <2>1. \A h \in {"replaced", "gone"} : [x EXCEPT !.holds = h] \in RunsOf(m, c)
    BY DEF RunsOf, Run
  <2>2. x \in Run
    BY DEF RunsOf
  <2>3. \/ moved(x) = x
        \/ moved(x) = [x EXCEPT !.holds = "replaced"]
        \/ moved(x) = [x EXCEPT !.holds = "gone"]
    BY <2>2 DEF Run
  <2> HIDE DEF moved
  <2> QED BY <2>1, <2>3
<1> HIDE DEF moved
<1>8. runs' \in Seq(RunsOf(m, c))
  <2>1. DOMAIN runs = 1 .. Len(runs) /\ Len(runs) \in Nat
        /\ \A k \in 1 .. Len(runs) : runs[k] \in RunsOf(m, c)
    BY <1>1
  <2>2. runs' \in [1 .. Len(runs) -> RunsOf(m, c)]
    BY <1>3, <1>7, <2>1
  <2> QED BY <2>1, <2>2
<1>9. registered' = registered /\ batches' = batches /\ pending' = pending
      /\ handler' = handler /\ stopped' = stopped
  BY <1>3 DEF vars
<1>10. PartsOK'
  <2>1. reloads' \in 0 .. MaxReloads
    BY <1>1, <1>3, RunnerAssumption DEF PartsOK
  <2> QED BY <1>1, <1>3, <1>5, <1>6, <1>8, <1>9, <2>1 DEF PartsOK
<1>11. Undisturbed'
  <2> SUFFICES ASSUME toggles' = 0
               PROVE  /\ enabled'
                      /\ \A r \in DOMAIN registered' \ stopped' :
                           r = handler' /\ DOMAIN agents'[r] # {} => AliveFor(r)'
    BY DEF Undisturbed
  <2>1. /\ enabled
        /\ \A r \in DOMAIN registered \ stopped :
             r = handler /\ DOMAIN agents[r] # {} => AliveFor(r)
    BY <1>3 DEF RunnerInv, Undisturbed
  <2>2. ASSUME NEW r \in DOMAIN registered' \ stopped', r = handler', DOMAIN agents'[r] # {}
        PROVE  AliveFor(r)'
    <3>1. r \in DOMAIN ticker /\ r \in DOMAIN agents
      BY <1>9, <2>2, PartsAre
    <3>2. CASE r = r0
      <4>1. ticker'[r] # NoTimer
        BY <1>2, <1>4, <1>5, <1>6, <2>2, <3>1, <3>2
      <4> QED BY <4>1 DEF AliveFor
    <3>3. CASE r # r0
      <4>1. ticker'[r] = ticker[r] /\ agents'[r] = agents[r]
        BY <1>5, <1>6, <3>1, <3>3
      <4>2. AliveFor(r)
        BY <1>9, <2>1, <2>2, <4>1
      <4>3. calls' = calls
        BY <1>3
      <4> QED BY <1>9, <4>1, <4>2, <4>3 DEF AliveFor, Arms
    <3> QED BY <3>2, <3>3
  <2> QED BY <1>3, <2>1, <2>2
<1> QED BY <1>10, <1>11

LEMMA SetEnabledKeeps ==
    ASSUME RunnerInv, SetHeartbeatsEnabled
    PROVE  PartsOK' /\ Undisturbed'
<1>1. /\ toggles < MaxToggles /\ toggles' = toggles + 1 /\ enabled' = ~enabled
      /\ UNCHANGED <<vars, clock, ticker, agents, calls, runs, starts, requests, reloads>>
      /\ PartsOK
  BY DEF SetHeartbeatsEnabled, RunnerInv
<1>2. toggles' \in 0 .. MaxToggles /\ toggles' # 0
  BY <1>1, RunnerAssumption DEF PartsOK
<1> QED BY <1>1, <1>2 DEF PartsOK, Undisturbed, vars

\* Whoever asks, something is pending then.
LEMMA RequestPends ==
    ASSUME RunnerInv, NEW w \in Wake
    PROVE  QueuePending(pending, w) # << >>
<1>1. Serves(QueuePending(pending, w), w)
  BY QueuePendingServes, PartsAre
<1> QED BY <1>1 DEF Serves

LEMMA TickerFiresKeeps ==
    ASSUME RunnerInv, NEW r0 \in DOMAIN registered, TickerFires(r0)
    PROVE  PartsOK' /\ Undisturbed'
<1>1. /\ ticker' = [ticker EXCEPT ![r0] = NoTimer]
      /\ pending' = QueuePending(pending, [target |-> Everyone, intent |-> "scheduled"])
      /\ UNCHANGED <<handler, registered, stopped, batches>>
      /\ UNCHANGED <<enabled, clock, agents, calls, runs, starts, requests, toggles, reloads>>
  BY DEF TickerFires, RequestHeartbeat
<1>2. PartsOK /\ ticker \in Seq(Slots) /\ NoTimer \in Slots
  BY DEF RunnerInv, PartsOK, Slots
<1>3. ticker' \in Seq(Slots) /\ Len(ticker') = Len(ticker)
  BY <1>1, <1>2, ChangedAt
<1>4. PartsOK'
  BY <1>1, <1>2, <1>3 DEF PartsOK
<1>5. pending' # << >>
  <2>1. [target |-> Everyone, intent |-> "scheduled"] \in Wake
    BY RunnerAssumption DEF Wake
  <2> QED BY <1>1, <2>1, RequestPends
<1>6. Undisturbed'
  BY <1>1, <1>5 DEF RunnerInv, Undisturbed, AliveFor
<1> QED BY <1>4, <1>6

LEMMA ProduceKeeps ==
    ASSUME RunnerInv, NEW w \in Wake, NEW d \in Delays, Produce(w, d)
    PROVE  PartsOK' /\ Undisturbed'
<1>1. /\ requests < MaxRequests /\ requests' = requests + 1
      /\ pending' = QueuePending(pending, w)
      /\ UNCHANGED <<handler, registered, stopped, batches>>
      /\ UNCHANGED <<enabled, clock, ticker, agents, calls, runs, starts, toggles, reloads>>
  BY DEF Produce, RequestHeartbeat
<1>2. PartsOK
  BY DEF RunnerInv
<1>3. requests' \in 0 .. MaxRequests
  BY <1>1, <1>2, RunnerAssumption DEF PartsOK
<1>4. PartsOK'
  BY <1>1, <1>2, <1>3 DEF PartsOK
<1>5. pending' # << >>
  BY <1>1, RequestPends
<1>6. Undisturbed'
  BY <1>1, <1>5 DEF RunnerInv, Undisturbed, AliveFor
<1> QED BY <1>4, <1>6

\* A table one tick later
LEMMA AgedTableOK ==
    ASSUME NEW f \in Tables
    PROVE  /\ [a \in DOMAIN f |-> AgedAgent(f[a])] \in Tables
           /\ DOMAIN [a \in DOMAIN f |-> AgedAgent(f[a])] = DOMAIN f
<1> DEFINE S == DOMAIN f
           g == [a \in S |-> AgedAgent(f[a])]
<1>1. S \in SUBSET Agents /\ \A a \in S : AgentOK(f[a])
  BY TableIs
<1>2. \A a \in S : AgentOK(AgedAgent(f[a]))
  BY <1>1, AgedAgentOK
<1>3. DOMAIN g = S /\ g = [a \in S |-> g[a]] /\ \A a \in S : g[a] = AgedAgent(f[a])
  OBVIOUS
<1> HIDE DEF g, S
<1>4. g \in Tables
  BY <1>1, <1>2, <1>3, TableFrom
<1> QED BY <1>3, <1>4 DEF g, S

LEMMA RunnerTimeKeeps ==
    ASSUME RunnerInv, RunnerTimePasses
    PROVE  PartsOK' /\ Undisturbed'
<1> DEFINE m == Len(batches)
           c == Len(registered)
           aged(f) == [a \in DOMAIN f |-> AgedAgent(f[a])]
           older(x) == [x EXCEPT !.age = Older(@)]
           later(s) == [i \in DOMAIN s |-> Older(s[i])]
           tick(t) == IF t = NoTimer THEN NoTimer ELSE Sooner(t)
<1>1. /\ PartsOK /\ clock \in 0 .. Interval - 1
      /\ runs \in Seq(RunsOf(m, c)) /\ starts \in [Agents -> Seq(Ages)]
  BY DEF RunnerInv, PartsOK
<1>2. /\ c \in Nat
      /\ DOMAIN ticker = 1 .. c /\ DOMAIN agents = 1 .. c
      /\ \A r \in 1 .. c : agents[r] \in Tables /\ ticker[r] \in Slots
  BY PartsAre
<1>3. /\ clock' = (clock + 1) % Interval
      /\ ticker' = [r \in DOMAIN ticker |-> tick(ticker[r])]
      /\ agents' = [r \in DOMAIN agents |-> aged(agents[r])]
      /\ runs' = [k \in DOMAIN runs |-> older(runs[k])]
      /\ starts' = [a \in Agents |-> later(starts[a])]
      /\ UNCHANGED <<handler, registered, stopped, pending, batches>>
      /\ UNCHANGED <<enabled, calls, requests, toggles, reloads>>
  BY DEF RunnerTimePasses, TimePasses, AgedAgent
<1>4. \A t \in Slots : tick(t) \in Slots /\ (t # NoTimer => tick(t) # NoTimer)
  <2>1. \A t \in Ages : Sooner(t) \in Ages /\ Sooner(t) # NoTimer
    BY OlderType, MaxAgeIs DEF Ages
  <2> QED BY <2>1 DEF Slots
<1>5. ASSUME NEW x \in RunsOf(m, c)
      PROVE  older(x) \in RunsOf(m, c)
  <2>1. x \in Run /\ x.age \in Ages
    BY DEF RunsOf, Run, Ages
  <2>2. Older(x.age) \in 0 .. MaxAge
    BY <2>1, OlderType DEF Ages
  <2>3. \A y \in 0 .. MaxAge : [x EXCEPT !.age = y] \in RunsOf(m, c)
    BY DEF RunsOf, Run
  <2> QED BY <2>1, <2>2, <2>3 DEF Run
<1>6. \A f \in Tables : aged(f) \in Tables /\ DOMAIN aged(f) = DOMAIN f
  BY AgedTableOK
<1>7. \A s \in Seq(Ages) : later(s) \in Seq(Ages)
  BY OlderStarts
<1> HIDE DEF aged, older, later, tick
<1>8. clock' \in 0 .. Interval - 1
  <2>1. Interval \in Nat \ {0}
    BY MaxAgeIs
  <2> QED BY <1>1, <1>3, <2>1
<1>9. ticker' \in Seq(Slots) /\ Len(ticker') = c /\ \A r \in 1 .. c : ticker'[r] = tick(ticker[r])
  <2>1. ticker' \in [1 .. c -> Slots]
    BY <1>2, <1>3, <1>4
  <2> QED BY <1>2, <1>3, <2>1
<1>10. agents' \in Seq(Tables) /\ Len(agents') = c
       /\ \A r \in 1 .. c : DOMAIN agents'[r] = DOMAIN agents[r]
  <2>1. agents' \in [1 .. c -> Tables]
    BY <1>2, <1>3, <1>6
  <2> QED BY <1>2, <1>3, <1>6, <2>1
<1>11. runs' \in Seq(RunsOf(m, c))
  <2>1. DOMAIN runs = 1 .. Len(runs) /\ Len(runs) \in Nat
        /\ \A k \in 1 .. Len(runs) : runs[k] \in RunsOf(m, c)
    BY <1>1
  <2>2. runs' \in [1 .. Len(runs) -> RunsOf(m, c)]
    BY <1>3, <1>5, <2>1
  <2> QED BY <2>1, <2>2
<1>12. starts' \in [Agents -> Seq(Ages)]
  BY <1>1, <1>3, <1>7
<1>13. PartsOK'
  BY <1>1, <1>3, <1>8, <1>9, <1>10, <1>11, <1>12 DEF PartsOK
<1>14. ASSUME NEW r \in DOMAIN registered \ stopped, AliveFor(r)
       PROVE  AliveFor(r)'
  <2>1. r \in 1 .. c
    BY PartsAre
  <2>2. ticker[r] # NoTimer => ticker'[r] # NoTimer
    BY <1>2, <1>4, <1>9, <2>1
  <2> QED BY <1>3, <1>14, <2>2 DEF AliveFor, Arms
<1>15. \A r \in DOMAIN registered \ stopped :
         /\ r = handler /\ r \notin stopped' /\ enabled /\ DOMAIN agents[r] # {} /\ AliveFor(r)
         => AliveFor(r)'
  BY <1>14
<1>16. \A r \in DOMAIN registered : DOMAIN agents'[r] = DOMAIN agents[r]
  BY <1>10, PartsAre
<1>17. handler' \in {handler, 0} /\ stopped \subseteq stopped'
  BY <1>3
<1>18. Undisturbed'
  BY <1>3, <1>15, <1>16, <1>17, StillUndisturbed
<1> QED BY <1>13, <1>18

LEMMA OtherTimerKeeps ==
    ASSUME RunnerInv, OtherTimerFires
    PROVE  PartsOK' /\ Undisturbed'
<1>1. /\ UNCHANGED <<handler, registered, stopped, pending, batches>>
      /\ UNCHANGED <<enabled, clock, ticker, agents, calls, runs, starts, requests, toggles,
                     reloads>>
  BY DEF OtherTimerFires, FiresUnhandled, FiresWhileRunning, runnerVars
<1>2. PartsOK /\ Undisturbed
  BY DEF RunnerInv
<1>3. PartsOK'
  BY <1>1, <1>2 DEF PartsOK
<1>4. Undisturbed'
  BY <1>1, <1>2 DEF Undisturbed, AliveFor, Arms
<1> QED BY <1>3, <1>4

\* A run that leaves, or goes on with another phase
LEMMA RunsStay ==
    ASSUME RunnerInv, NEW k \in DOMAIN runs
    PROVE  /\ RemoveAt(runs, k) \in Seq(RunsOf(Len(batches), Len(registered)))
           /\ [runs EXCEPT ![k].phase = "commitments"]
                \in Seq(RunsOf(Len(batches), Len(registered)))
<1> DEFINE R == RunsOf(Len(batches), Len(registered))
           x == [runs[k] EXCEPT !.phase = "commitments"]
<1>1. runs \in Seq(R)
  BY RunIs
<1>2. runs[k] \in R
  BY <1>1
<1>3. x \in R
  BY <1>2 DEF RunsOf, Run
<1>4. [runs EXCEPT ![k].phase = "commitments"] = [runs EXCEPT ![k] = x]
  OBVIOUS
<1> HIDE DEF R, x
<1>5. [runs EXCEPT ![k] = x] \in Seq(R)
  BY <1>1, <1>3, ChangedAt
<1>6. RemoveAt(runs, k) \in Seq(R)
  BY <1>1, RemoveAtIs
<1> QED BY <1>4, <1>5, <1>6 DEF R

LEMMA RunBusyKeeps ==
    ASSUME RunnerInv, NEW k \in DOMAIN runs, RunBusy(k)
    PROVE  PartsOK' /\ Undisturbed'
<1> DEFINE n == runs[k].batch
<1>1. /\ calls' = MarkBusy(n)
      /\ runs' = RemoveAt(runs, k)
      /\ UNCHANGED <<handler, registered, stopped, pending, batches>>
      /\ UNCHANGED <<enabled, clock, ticker, agents, starts, requests, toggles, reloads>>
  BY DEF RunBusy, vars
<1>2. /\ PartsOK /\ calls \in Seq(Call) /\ Len(calls) = Len(batches)
      /\ DOMAIN calls = DOMAIN batches
  BY PartsAre DEF RunnerInv, PartsOK
<1>3. /\ calls' \in Seq(Call) /\ Len(calls') = Len(batches)
      /\ \A i \in DOMAIN calls : calls'[i].rearm = calls[i].rearm
  <2>1. CASE n = 0
    BY <1>1, <1>2, <2>1 DEF MarkBusy
  <2>2. CASE n # 0
    <3> DEFINE x == [calls[n] EXCEPT !.busy = TRUE]
    <3>1. calls' = [calls EXCEPT ![n] = x]
      BY <1>1, <2>2 DEF MarkBusy
    <3>2. n \in DOMAIN calls => x \in Call /\ x.rearm = calls[n].rearm
      <4> SUFFICES ASSUME n \in DOMAIN calls
                   PROVE  x \in Call /\ x.rearm = calls[n].rearm
        OBVIOUS
      <4>1. calls[n] \in Call
        BY <1>2
      <4> QED BY <4>1 DEF Call
    <3> HIDE DEF x, n
    <3>3. /\ [calls EXCEPT ![n] = x] \in Seq(Call)
          /\ Len([calls EXCEPT ![n] = x]) = Len(calls)
          /\ \A i \in DOMAIN calls : [calls EXCEPT ![n] = x][i] = IF i = n THEN x ELSE calls[i]
      BY <1>2, <3>2, ChangedAt
    <3> QED BY <1>2, <3>1, <3>2, <3>3
  <2> QED BY <2>1, <2>2
<1>4. PartsOK'
  BY <1>1, <1>2, <1>3, RunsStay DEF PartsOK
<1>5. Undisturbed'
  BY <1>1, <1>2, <1>3 DEF RunnerInv, Undisturbed, AliveFor, Arms
<1> QED BY <1>4, <1>5

LEMMA CommitmentsOverKeeps ==
    ASSUME RunnerInv, NEW k \in DOMAIN runs, CommitmentsOver(k)
    PROVE  PartsOK' /\ Undisturbed'
<1>1. /\ runs' = RemoveAt(runs, k)
      /\ UNCHANGED <<handler, registered, stopped, pending, batches>>
      /\ UNCHANGED <<enabled, clock, ticker, agents, calls, starts, requests, toggles, reloads>>
  BY DEF CommitmentsOver, vars
<1>2. PartsOK'
  BY <1>1, RunsStay DEF RunnerInv, PartsOK
<1>3. Undisturbed'
  BY <1>1 DEF RunnerInv, Undisturbed, AliveFor, Arms
<1> QED BY <1>2, <1>3

LEMMA RunOverKeeps ==
    ASSUME RunnerInv, NEW k \in DOMAIN runs, RunOver(k)
    PROVE  PartsOK' /\ Undisturbed'
<1> DEFINE x == runs[k]
           r0 == x.runner
           a == x.agent
           c == Len(registered)
<1>1. /\ PartsOK /\ agents \in Seq(Tables) /\ starts \in [Agents -> Seq(Ages)]
      /\ DOMAIN agents = 1 .. c
      /\ \A r \in 1 .. c : agents[r] \in Tables
  BY PartsAre DEF RunnerInv, PartsOK
<1>2. x \in Run /\ r0 \in 1 .. c /\ a \in Agents /\ x.age \in Ages
  BY RunIs DEF Run, Ages
<1>3. /\ agents' = IF x.holds = "gone" THEN agents
                   ELSE [agents EXCEPT ![r0][a] = AfterRun(x, @)]
      /\ starts' = [starts EXCEPT ![a] = Recorded(@, x.age)]
      /\ \/ runs' = RemoveAt(runs, k)
         \/ runs' = [runs EXCEPT ![k].phase = "commitments"]
      /\ UNCHANGED <<handler, registered, stopped, pending, batches>>
      /\ UNCHANGED <<enabled, clock, ticker, calls, requests, toggles, reloads>>
  BY DEF RunOver, vars
<1> HIDE DEF x, r0, a
<1>4. /\ agents' \in Seq(Tables) /\ Len(agents') = Len(agents)
      /\ \A r \in 1 .. c : DOMAIN agents'[r] = DOMAIN agents[r]
  <2>1. CASE x.holds = "gone"
    BY <1>1, <1>3, <2>1
  <2>2. CASE x.holds # "gone"
    <3> DEFINE f == agents[r0]
               s == AfterRun(x, f[a])
               g == [f EXCEPT ![a] = s]
    <3>1. f \in Tables
      BY <1>1, <1>2
    <3>2. g \in Tables /\ DOMAIN g = DOMAIN f
      <4>1. CASE a \in DOMAIN f
        <5>1. AgentOK(f[a])
          BY <3>1, <4>1, TableIs
        <5>2. AgentOK(s)
          BY <1>2, <2>2, <5>1, AfterRunOK
        <5> HIDE DEF f, s
        <5> QED BY <3>1, <5>2, ChangedAgentOK
      <4>2. CASE a \notin DOMAIN f
        <5>1. f = [b \in DOMAIN f |-> f[b]]
          BY <3>1, TableIs
        <5> HIDE DEF f, s
        <5>2. [f EXCEPT ![a] = s] = f
          BY <4>2, <5>1
        <5> QED BY <3>1, <5>2
      <4> QED BY <4>1, <4>2
    <3>3. agents' = [agents EXCEPT ![r0] = g]
      BY <1>3, <2>2
    <3>4. DOMAIN g = DOMAIN agents[r0]
      BY <3>2
    <3> HIDE DEF f, g, s
    <3>5. /\ agents' \in Seq(Tables) /\ Len(agents') = Len(agents)
          /\ \A i \in DOMAIN agents : agents'[i] = IF i = r0 THEN g ELSE agents[i]
      BY <1>1, <3>2, <3>3, ChangedAt
    <3> QED BY <1>1, <3>4, <3>5
  <2> QED BY <2>1, <2>2
<1>5. starts' \in [Agents -> Seq(Ages)]
  <2>1. Recorded(starts[a], x.age) \in Seq(Ages)
    BY <1>1, <1>2, RecordedType
  <2> QED BY <1>1, <1>3, <2>1
<1>6. PartsOK'
  <2>1. runs' \in Seq(RunsOf(Len(batches), Len(registered)))
    BY <1>3, RunsStay
  <2> QED BY <1>1, <1>3, <1>4, <1>5, <2>1 DEF PartsOK
<1>7. Undisturbed'
  <2>1. \A r \in DOMAIN registered : DOMAIN agents'[r] = DOMAIN agents[r]
    BY <1>4, PartsAre
  <2> QED BY <1>3, <2>1 DEF RunnerInv, Undisturbed, AliveFor, Arms
<1> QED BY <1>6, <1>7

-----------------------------------------------------------------------------
(* The steps that begin and end calls.                                     *)

\* A batch that may arm the timer keeps its place beside its call.
LEMMA PairsStay ==
    ASSUME RunnerInv, NEW n \in DOMAIN batches, NEW i \in DOMAIN batches, i # n
    PROVE  \E j \in 1 .. Len(batches) - 1 :
             RemoveAt(batches, n)[j] = batches[i] /\ RemoveAt(calls, n)[j] = calls[i]
<1> DEFINE m == Len(batches)
<1>1. /\ batches \in Seq(Batch) /\ calls \in Seq(Call) /\ Len(calls) = m /\ m \in Nat
      /\ n \in 1 .. m /\ i \in 1 .. m /\ n \in DOMAIN calls
  BY PartsAre DEF RunnerInv, PartsOK
<1>2. \A j \in 1 .. m - 1 : RemoveAt(batches, n)[j] = IF j < n THEN batches[j] ELSE batches[j + 1]
  BY <1>1, RemoveAtIs
<1>3. \A j \in 1 .. m - 1 : RemoveAt(calls, n)[j] = IF j < n THEN calls[j] ELSE calls[j + 1]
  BY <1>1, RemoveAtIs
<1> HIDE DEF m
<1>4. CASE i < n
  <2>1. i \in 1 .. m - 1
    BY <1>1, <1>4
  <2> QED BY <1>2, <1>3, <1>4, <2>1 DEF m
<1>5. CASE i > n
  <2>1. i - 1 \in 1 .. m - 1 /\ ~(i - 1 < n) /\ (i - 1) + 1 = i
    BY <1>1, <1>5
  <2>2. RemoveAt(batches, n)[i - 1] = batches[i] /\ RemoveAt(calls, n)[i - 1] = calls[i]
    BY <1>2, <1>3, <2>1
  <2> QED BY <2>1, <2>2 DEF m
<1> QED BY <1>1, <1>4, <1>5

\* The batches, the calls and the runs without batch n
LEMMA BatchGone ==
    ASSUME RunnerInv, NEW n \in DOMAIN batches,
           NEW rs \in Seq(RunsOf(Len(batches), Len(registered)))
    PROVE  /\ Len(RemoveAt(batches, n)) = Len(batches) - 1
           /\ DOMAIN RemoveAt(batches, n) = 1 .. Len(batches) - 1
           /\ RemoveAt(calls, n) \in Seq(Call)
           /\ Len(RemoveAt(calls, n)) = Len(batches) - 1
           /\ Unbound(rs, n) \in Seq(RunsOf(Len(batches) - 1, Len(registered)))
<1>1. /\ batches \in Seq(Batch) /\ calls \in Seq(Call) /\ Len(calls) = Len(batches)
      /\ Len(batches) \in Nat /\ n \in 1 .. Len(batches) /\ n \in DOMAIN calls
      /\ Len(registered) \in Nat
  BY PartsAre DEF RunnerInv, PartsOK
<1>2. /\ Len(RemoveAt(batches, n)) = Len(batches) - 1
      /\ RemoveAt(batches, n) \in Seq(Batch)
  BY <1>1, RemoveAtIs
<1>3. RemoveAt(calls, n) \in Seq(Call) /\ Len(RemoveAt(calls, n)) = Len(batches) - 1
  BY <1>1, RemoveAtIs
<1>4. Len(batches) \in Nat \ {0}
  BY <1>1
<1>5. Unbound(rs, n) \in Seq(RunsOf(Len(batches) - 1, Len(registered)))
  BY <1>1, <1>4, UnboundType
<1>6. DOMAIN RemoveAt(batches, n) = 1 .. Len(batches) - 1
  BY <1>2
<1> QED BY <1>2, <1>3, <1>5, <1>6

\* The timer of runner r0 is armed for the agents it serves.
LEMMA TickerArmed ==
    ASSUME RunnerInv, NEW r0 \in DOMAIN registered,
           NEW t, t = [ticker EXCEPT ![r0] = NextTicker(r0, agents[r0])]
    PROVE  /\ t \in Seq(Slots) /\ Len(t) = Len(registered)
           /\ \A r \in DOMAIN registered :
                /\ r # r0 => t[r] = ticker[r]
                /\ r = r0 /\ r \notin stopped /\ DOMAIN agents[r] # {} => t[r] # NoTimer
<1> DEFINE x == NextTicker(r0, agents[r0])
<1>1. /\ ticker \in Seq(Slots) /\ Len(ticker) = Len(registered)
      /\ DOMAIN ticker = DOMAIN registered /\ agents[r0] \in Tables
  BY PartsAre DEF RunnerInv, PartsOK
<1>2. x \in Slots /\ (r0 \notin stopped /\ DOMAIN agents[r0] # {} => x # NoTimer)
  BY <1>1, NextTickerIs
<1>3. t = [ticker EXCEPT ![r0] = x]
  OBVIOUS
<1> HIDE DEF x
<1>4. /\ t \in Seq(Slots) /\ Len(t) = Len(ticker)
      /\ \A i \in DOMAIN ticker : t[i] = IF i = r0 THEN x ELSE ticker[i]
  BY <1>1, <1>2, <1>3, ChangedAt
<1> QED BY <1>1, <1>2, <1>4

\* What a call of runner r0 with wake w, for batch n of m, does to the agents
\* and the runs
LEMMA CallBegins ==
    ASSUME RunnerInv, NEW r0 \in DOMAIN registered, NEW w \in Wake,
           NEW m \in Nat, Len(batches) <= m, NEW n \in 0 .. m
    PROVE  /\ [agents EXCEPT ![r0] = AfterGate(r0, w)] \in Seq(Tables)
           /\ Len([agents EXCEPT ![r0] = AfterGate(r0, w)]) = Len(registered)
           /\ \A r \in DOMAIN registered :
                DOMAIN [agents EXCEPT ![r0] = AfterGate(r0, w)][r] = DOMAIN agents[r]
           /\ runs \o NewRuns(r0, w, n) \in Seq(RunsOf(m, Len(registered)))
<1> DEFINE c == Len(registered)
           x == AfterGate(r0, w)
           new == NewRuns(r0, w, n)
           ag == [agents EXCEPT ![r0] = x]
           rs == runs \o new
<1>1. /\ agents \in Seq(Tables) /\ Len(agents) = c /\ c \in Nat /\ r0 \in 1 .. c
      /\ DOMAIN agents = DOMAIN registered
      /\ agents[r0] \in Tables /\ clock \in 0 .. Interval - 1
      /\ runs \in Seq(RunsOf(Len(batches), c)) /\ Len(batches) \in Nat
  BY PartsAre DEF RunnerInv, PartsOK
<1>2. x \in Tables /\ DOMAIN x = DOMAIN agents[r0]
  BY <1>1, AfterGateOK
<1>3. new \in Seq(RunsOf(m, c))
  BY <1>1, NewRunsType
<1>4. runs \in Seq(RunsOf(m, c))
  BY <1>1, MoreRuns
<1>5. ag = [agents EXCEPT ![r0] = x] /\ rs = runs \o new
  OBVIOUS
<1> HIDE DEF x, new, c, ag, rs
<1>6. /\ ag \in Seq(Tables) /\ Len(ag) = Len(agents)
      /\ \A i \in DOMAIN agents : ag[i] = IF i = r0 THEN x ELSE agents[i]
  BY <1>1, <1>2, <1>5, ChangedAt
<1>7. rs \in Seq(RunsOf(m, c))
  BY <1>3, <1>4, <1>5, ConcatProperties
<1>8. \A r \in DOMAIN registered : DOMAIN ag[r] = DOMAIN agents[r]
  BY <1>1, <1>2, <1>6
<1> QED BY <1>1, <1>6, <1>7, <1>8 DEF c, ag, rs, x, new

LEMMA NewCallIs ==
    ASSUME RunnerInv, NEW r
    PROVE  /\ NewCall(r) \in Call
           /\ r \notin stopped /\ enabled /\ DOMAIN agents[r] # {} => NewCall(r).rearm
BY DEF NewCall, Call, Refused

LEMMA StartBatchCallKeeps ==
    ASSUME RunnerInv, StartBatchCall
    PROVE  PartsOK' /\ Undisturbed'
<1> DEFINE m == Len(batches)
           b == [handler |-> handler, wakes |-> pending, at |-> 1, delay |-> timer.delay]
<1>1. /\ handler # 0 /\ pending # << >>
      /\ UNCHANGED <<handler, registered, stopped>>
      /\ batches' = Append(batches, b)
      /\ calls' = Append(calls, NewCall(handler))
      /\ runs' = runs \o NewRuns(handler, pending[1], m + 1)
      /\ agents' = [agents EXCEPT ![handler] = AfterGate(handler, pending[1])]
      /\ UNCHANGED <<enabled, clock, ticker, starts, requests, toggles, reloads>>
  BY DEF StartBatchCall, StartBatch, MayStart
<1>2. b.handler = handler
  OBVIOUS
<1> HIDE DEF b
<1>3. /\ PartsOK /\ m \in Nat /\ m + 1 \in Nat /\ m + 1 \in 0 .. m + 1 /\ m <= m + 1
      /\ handler \in DOMAIN registered
      /\ calls \in Seq(Call) /\ Len(calls) = m /\ batches \in Seq(Batch)
  BY <1>1, PartsAre DEF RunnerInv, PartsOK
<1>4. pending[1] \in Wake
  <2>1. pending \in Seq(Wake)
    BY PartsAre
  <2> QED BY <1>1, <2>1
<1>5. /\ agents' \in Seq(Tables) /\ Len(agents') = Len(registered)
      /\ \A r \in DOMAIN registered : DOMAIN agents'[r] = DOMAIN agents[r]
      /\ runs' \in Seq(RunsOf(m + 1, Len(registered)))
  <2> DEFINE w == pending[1]
             p == m + 1
  <2>1. /\ agents' = [agents EXCEPT ![handler] = AfterGate(handler, w)]
        /\ runs' = runs \o NewRuns(handler, w, p)
    BY <1>1
  <2>2. /\ handler \in DOMAIN registered /\ w \in Wake
        /\ p \in Nat /\ Len(batches) <= p /\ p \in 0 .. p
    BY <1>3, <1>4
  <2> HIDE DEF w, p
  <2>3. /\ agents' \in Seq(Tables) /\ Len(agents') = Len(registered)
        /\ \A r \in DOMAIN registered : DOMAIN agents'[r] = DOMAIN agents[r]
        /\ runs' \in Seq(RunsOf(p, Len(registered)))
    BY <2>1, <2>2, CallBegins
  <2> QED BY <2>3 DEF p
<1>6. Len(batches') = m + 1 /\ DOMAIN batches' = 1 .. m + 1 /\ batches'[m + 1] = b
  BY <1>1, <1>3
<1>7. calls' \in Seq(Call) /\ Len(calls') = m + 1 /\ calls'[m + 1] = NewCall(handler)
  BY <1>1, <1>3, NewCallIs
<1>8. PartsOK'
  BY <1>1, <1>3, <1>5, <1>6, <1>7 DEF PartsOK
<1>9. ASSUME NEW r \in DOMAIN registered \ stopped, r = handler, enabled, DOMAIN agents[r] # {}
      PROVE  AliveFor(r)'
  <2>1. NewCall(handler).rearm
    BY <1>9, NewCallIs
  <2>2. m + 1 \in DOMAIN batches'
    BY <1>3, <1>6
  <2>3. Arms(b, NewCall(handler), r)
    BY <1>2, <1>9, <2>1 DEF Arms
  <2> QED BY <1>6, <1>7, <2>2, <2>3 DEF AliveFor, Arms
<1>10. \A r \in DOMAIN registered \ stopped :
         /\ r = handler /\ r \notin stopped' /\ enabled /\ DOMAIN agents[r] # {} /\ AliveFor(r)
         => AliveFor(r)'
  BY <1>9
<1>11. /\ toggles' = toggles /\ enabled' = enabled /\ registered' = registered
       /\ handler' \in {handler, 0} /\ stopped \subseteq stopped'
  BY <1>1
<1>12. Undisturbed'
  BY <1>5, <1>10, <1>11, StillUndisturbed
<1> QED BY <1>8, <1>12

LEMMA CommitmentsFailKeeps ==
    ASSUME RunnerInv, NEW k \in DOMAIN runs, CommitmentsFail(k)
    PROVE  PartsOK' /\ Undisturbed'
<1> DEFINE n == runs[k].batch
           r0 == runs[k].runner
           ws == batches[n].wakes
<1>1. /\ n # 0
      /\ batches' = RemoveAt(batches, n)
      /\ pending' = QueueAll(pending, ws)
      /\ runs' = Unbound(RemoveAt(runs, k), n)
      /\ calls' = RemoveAt(calls, n)
      /\ ticker' = [ticker EXCEPT ![r0] = NextTicker(r0, agents[r0])]
      /\ UNCHANGED <<handler, registered, stopped>>
      /\ UNCHANGED <<enabled, clock, agents, starts, requests, toggles, reloads>>
  BY DEF CommitmentsFail, HandlerThrows, Finish, Retried
<1>2. PartsOK /\ n \in DOMAIN batches /\ r0 \in DOMAIN registered
  BY <1>1, RunIs, PartsAre DEF RunnerInv
<1> HIDE DEF n, r0
<1>3. /\ Len(batches') = Len(batches) - 1
      /\ calls' \in Seq(Call) /\ Len(calls') = Len(batches) - 1
      /\ runs' \in Seq(RunsOf(Len(batches) - 1, Len(registered)))
  <2>1. RemoveAt(runs, k) \in Seq(RunsOf(Len(batches), Len(registered)))
    BY RunsStay
  <2> QED BY <1>1, <1>2, <2>1, BatchGone
<1>4. ticker' \in Seq(Slots) /\ Len(ticker') = Len(registered)
  BY <1>1, <1>2, TickerArmed
<1>5. PartsOK'
  BY <1>1, <1>2, <1>3, <1>4 DEF PartsOK
<1>6. pending' # << >>
  <2>1. pending \in Seq(Wake) /\ ws \in Seq(Wake) /\ batches[n].at \in 1 .. Len(ws)
    BY <1>2, PartsAre
  <2>2. Serves(QueueAll(pending, ws), ws[batches[n].at])
    BY <2>1, FoldServes
  <2> QED BY <1>1, <2>2 DEF Serves
<1>7. Undisturbed'
  BY <1>1, <1>6 DEF RunnerInv, Undisturbed, AliveFor
<1> QED BY <1>5, <1>7

LEMMA CallEndsKeeps ==
    ASSUME RunnerInv, NEW n \in DOMAIN batches, CallEnds(n)
    PROVE  PartsOK' /\ Undisturbed'
<1> DEFINE m == Len(batches)
           b == batches[n]
           r0 == b.handler
           c == calls[n]
           last == b.at = Len(b.wakes)
           next == b.wakes[b.at + 1]
<1>1. /\ ticker' = IF Rearms(c) THEN [ticker EXCEPT ![r0] = NextTicker(r0, agents[r0])]
                   ELSE ticker
      /\ last => /\ calls' = RemoveAt(calls, n)
                 /\ runs' = Unbound(runs, n)
                 /\ agents' = agents
      /\ ~last => /\ calls' = [calls EXCEPT ![n] = NewCall(r0)]
                  /\ runs' = runs \o NewRuns(r0, next, n)
                  /\ agents' = [agents EXCEPT ![r0] = AfterGate(r0, next)]
      /\ UNCHANGED <<handler, registered, stopped>>
      /\ UNCHANGED <<enabled, clock, starts, requests, toggles, reloads>>
  BY DEF CallEnds, HandlerBusy, HandlerDone
\* What the wake layer does to its own batches
<1>2. /\ last => batches' = RemoveAt(batches, n)
      /\ ~last => batches' = [batches EXCEPT ![n].at = @ + 1]
      /\ ~c.busy => pending' = pending
      /\ c.busy => pending' = QueuePending(pending, b.wakes[b.at])
  BY DEF CallEnds, HandlerBusy, HandlerDone, GoOn, Finish
<1>3. /\ PartsOK /\ m \in Nat /\ n \in 1 .. m
      /\ r0 \in DOMAIN registered /\ b \in Batch
      /\ b.wakes \in Seq(Wake) /\ b.at \in 1 .. Len(b.wakes)
      /\ batches \in Seq(Batch) /\ calls \in Seq(Call) /\ Len(calls) = m
      /\ DOMAIN batches = 1 .. m /\ DOMAIN calls = 1 .. m
      /\ c \in Call
      /\ runs \in Seq(RunsOf(m, Len(registered)))
  BY PartsAre DEF RunnerInv, PartsOK
<1>4. ~last => next \in Wake
  BY <1>3
<1>5. c.busy => pending' # << >>
  BY <1>2, <1>3, RequestPends
<1>6. pending # << >> => pending' # << >>
  BY <1>2, <1>5, <1>3 DEF Call
<1>7. /\ ticker' \in Seq(Slots) /\ Len(ticker') = Len(registered)
      /\ \A r \in DOMAIN registered :
           /\ r # r0 => ticker'[r] = ticker[r]
           /\ r = r0 /\ r \notin stopped /\ DOMAIN agents[r] # {} =>
                IF Rearms(c) THEN ticker'[r] # NoTimer ELSE ticker'[r] = ticker[r]
  <2>1. CASE Rearms(c)
    <3>1. ticker' = [ticker EXCEPT ![r0] = NextTicker(r0, agents[r0])]
      BY <1>1, <2>1
    <3> HIDE DEF r0, c
    <3> QED BY <1>3, <2>1, <3>1, TickerArmed
  <2>2. CASE ~Rearms(c)
    BY <1>1, <1>3, <2>2 DEF PartsOK
  <2> QED BY <2>1, <2>2
\* The batch goes on with its next wake.
<1>8. CASE ~last
  <2> DEFINE d == [b EXCEPT !.at = @ + 1]
  <2>1. batches' = [batches EXCEPT ![n] = d] /\ d.handler = r0 /\ d \in Batch
    <3>1. batches' = [batches EXCEPT ![n] = d]
      BY <1>2, <1>8
    <3>2. b.at + 1 \in Nat \ {0}
      BY <1>3
    <3>3. b \in Batch
      BY <1>3
    <3> HIDE DEF b
    <3>4. d.handler = b.handler /\ d \in Batch
      BY <3>2, <3>3 DEF Batch
    <3> QED BY <3>1, <3>4 DEF b
  <2>2. /\ calls' = [calls EXCEPT ![n] = NewCall(r0)]
        /\ runs' = runs \o NewRuns(r0, next, n)
        /\ agents' = [agents EXCEPT ![r0] = AfterGate(r0, next)]
        /\ next \in Wake
    BY <1>1, <1>4, <1>8
  <2> HIDE DEF d, b, next, r0, c
  <2>3. /\ Len(batches') = m /\ DOMAIN batches' = 1 .. m
        /\ \A i \in 1 .. m : batches'[i] = IF i = n THEN d ELSE batches[i]
    <3>1. /\ batches' \in Seq(Batch) /\ Len(batches') = Len(batches)
          /\ \A i \in DOMAIN batches : batches'[i] = IF i = n THEN d ELSE batches[i]
      BY <1>3, <2>1, ChangedAt
    <3> QED BY <1>3, <3>1
  <2>4. /\ calls' \in Seq(Call) /\ Len(calls') = m
        /\ \A i \in 1 .. m : calls'[i] = IF i = n THEN NewCall(r0) ELSE calls[i]
    <3> DEFINE x == NewCall(r0)
    <3>1. x \in Call
      BY NewCallIs
    <3>2. calls' = [calls EXCEPT ![n] = x]
      BY <2>2
    <3> HIDE DEF x
    <3>3. /\ calls' \in Seq(Call) /\ Len(calls') = Len(calls)
          /\ \A i \in DOMAIN calls : calls'[i] = IF i = n THEN x ELSE calls[i]
      BY <1>3, <3>1, <3>2, ChangedAt
    <3> QED BY <1>3, <3>3 DEF x
  <2>5. /\ agents' \in Seq(Tables) /\ Len(agents') = Len(registered)
        /\ \A r \in DOMAIN registered : DOMAIN agents'[r] = DOMAIN agents[r]
        /\ runs' \in Seq(RunsOf(m, Len(registered)))
    <3>1. m \in Nat /\ Len(batches) <= m /\ n \in 0 .. m /\ r0 \in DOMAIN registered
      BY <1>3
    <3> HIDE DEF m
    <3> QED BY <2>2, <3>1, CallBegins
  <2>6. PartsOK'
    BY <1>1, <1>3, <1>7, <2>3, <2>4, <2>5 DEF PartsOK
  <2>7. ASSUME NEW r \in DOMAIN registered \ stopped, enabled, DOMAIN agents[r] # {},
               AliveFor(r)
        PROVE  AliveFor(r)'
    <3>1. CASE pending' # << >>
      BY <3>1 DEF AliveFor
    <3>2. CASE pending' = << >>
      <4>1. pending = << >> /\ ~c.busy
        BY <1>5, <1>6, <3>2
      <4>2. CASE r = r0
        <5>1. NewCall(r0).rearm
          BY <2>7, <4>2, NewCallIs
        <5>2. n \in DOMAIN batches' /\ batches'[n].handler = r /\ calls'[n].rearm
          BY <1>3, <2>1, <2>3, <2>4, <4>2, <5>1
        <5> QED BY <5>2 DEF AliveFor, Arms
      <4>3. CASE r # r0
        <5>1. ticker'[r] = ticker[r]
          BY <1>7, <4>3
        <5>2. CASE ticker[r] # NoTimer
          BY <5>1, <5>2 DEF AliveFor
        <5>3. CASE \E i \in DOMAIN batches : Arms(batches[i], calls[i], r)
          <6>1. PICK i \in 1 .. m : Arms(batches[i], calls[i], r)
            BY <1>3, <5>3
          <6>2. i # n
            BY <4>3, <6>1 DEF Arms, r0, b
          <6>3. batches'[i] = batches[i] /\ calls'[i] = calls[i] /\ i \in DOMAIN batches'
            BY <2>3, <2>4, <6>2
          <6>4. Arms(batches'[i], calls'[i], r)
            BY <6>1, <6>3
          <6> QED BY <6>3, <6>4 DEF AliveFor, Arms
        <5> QED BY <2>7, <4>1, <5>2, <5>3 DEF AliveFor
      <4> QED BY <4>2, <4>3
    <3> QED BY <3>1, <3>2
  <2>8. \A r \in DOMAIN registered \ stopped :
          /\ r = handler /\ r \notin stopped' /\ enabled /\ DOMAIN agents[r] # {} /\ AliveFor(r)
          => AliveFor(r)'
    BY <2>7
  <2>9. /\ toggles' = toggles /\ enabled' = enabled /\ registered' = registered
        /\ handler' \in {handler, 0} /\ stopped \subseteq stopped'
    BY <1>1
  <2>10. Undisturbed'
    BY <2>5, <2>8, <2>9, StillUndisturbed
  <2> QED BY <2>6, <2>10
\* The batch ends.
<1>9. CASE last
  <2>1. batches' = RemoveAt(batches, n)
    BY <1>2, <1>9
  <2>2. /\ calls' = RemoveAt(calls, n)
        /\ runs' = Unbound(runs, n)
        /\ agents' = agents
    BY <1>1, <1>9
  <2>3. /\ Len(batches') = m - 1 /\ DOMAIN batches' = 1 .. m - 1
        /\ calls' \in Seq(Call) /\ Len(calls') = m - 1
        /\ runs' \in Seq(RunsOf(m - 1, Len(registered)))
    BY <1>3, <2>1, <2>2, BatchGone
  <2>4. PartsOK'
    BY <1>1, <1>3, <1>7, <2>2, <2>3 DEF PartsOK
  <2>5. ASSUME NEW r \in DOMAIN registered \ stopped, DOMAIN agents[r] # {}, AliveFor(r)
        PROVE  AliveFor(r)'
    <3>1. CASE pending' # << >>
      BY <3>1 DEF AliveFor
    <3>2. CASE pending' = << >>
      <4>1. pending = << >> /\ ~c.busy
        BY <1>5, <1>6, <3>2
      <4>2. CASE r = r0 /\ c.rearm
        <5>1. Rearms(c)
          BY <4>1, <4>2 DEF Rearms
        <5>2. ticker'[r] # NoTimer
          BY <1>7, <2>5, <4>2, <5>1
        <5> QED BY <5>2 DEF AliveFor
      <4>3. CASE ticker[r] # NoTimer
        <5>1. ticker'[r] # NoTimer
          BY <1>7, <2>5, <4>3
        <5> QED BY <5>1 DEF AliveFor
      <4>4. CASE ~(r = r0 /\ c.rearm) /\ \E i \in DOMAIN batches : Arms(batches[i], calls[i], r)
        <5>1. PICK i \in DOMAIN batches : Arms(batches[i], calls[i], r)
          BY <4>4
        <5>2. i # n
          <6> SUFFICES ASSUME i = n
                       PROVE  FALSE
            OBVIOUS
          <6>1. b.handler = r /\ (c.rearm \/ b.at < Len(b.wakes))
            BY <5>1 DEF Arms
          <6> QED BY <1>3, <1>9, <4>4, <6>1
        <5>3. PICK j \in 1 .. m - 1 :
                RemoveAt(batches, n)[j] = batches[i] /\ RemoveAt(calls, n)[j] = calls[i]
          BY <5>2, PairsStay
        <5>4. j \in DOMAIN batches' /\ batches'[j] = batches[i] /\ calls'[j] = calls[i]
          BY <2>1, <2>2, <2>3, <5>3
        <5>5. Arms(batches'[j], calls'[j], r)
          BY <5>1, <5>4
        <5> QED BY <5>4, <5>5 DEF AliveFor, Arms
      <4> QED BY <2>5, <4>1, <4>2, <4>3, <4>4 DEF AliveFor
    <3> QED BY <3>1, <3>2
  <2>6. \A r \in DOMAIN registered \ stopped :
          /\ r = handler /\ r \notin stopped' /\ enabled /\ DOMAIN agents[r] # {} /\ AliveFor(r)
          => AliveFor(r)'
    BY <2>5
  <2>7. /\ toggles' = toggles /\ enabled' = enabled /\ registered' = registered
        /\ handler' \in {handler, 0} /\ stopped \subseteq stopped'
        /\ \A r \in DOMAIN registered : DOMAIN agents'[r] = DOMAIN agents[r]
    BY <1>1, <2>2
  <2>8. Undisturbed'
    BY <2>6, <2>7, StillUndisturbed
  <2> QED BY <2>4, <2>8
<1> QED BY <1>8, <1>9

LEMMA RunnerInvInit == RunnerInit => RunnerInv
<1> SUFFICES ASSUME RunnerInit
             PROVE  RunnerInv
  OBVIOUS
<1>1. WakeInv
  BY WakeInvInit DEF RunnerInit
<1>2. /\ Len(<< >>) = 0
      /\ << >> \in Seq(Slots) /\ << >> \in Seq(Tables) /\ << >> \in Seq(Call)
      /\ << >> \in Seq(Ages)
      /\ << >> \in Seq(RunsOf(0, 0))
  OBVIOUS
<1>3. /\ 0 \in 0 .. Interval - 1 /\ 0 \in 0 .. MaxRequests
      /\ 0 \in 0 .. MaxToggles /\ 0 \in 0 .. MaxReloads
  BY RunnerAssumption
<1>4. PartsOK
  BY <1>2, <1>3 DEF RunnerInit, Init, PartsOK
<1>5. Undisturbed
  BY DEF RunnerInit, Init, Undisturbed
<1> QED BY <1>1, <1>4, <1>5 DEF RunnerInv

LEMMA RunnerInvNext == RunnerInv /\ [RunnerNext]_allVars => RunnerInv'
<1> SUFFICES ASSUME RunnerInv, [RunnerNext]_allVars
             PROVE  RunnerInv'
  OBVIOUS
<1> DEFINE Kept == PartsOK' /\ Undisturbed'
<1>1. WakeInv'
  BY RunnerStepsAreWakeSteps, WakeInvNext DEF RunnerInv
<1>2. ASSUME NEW served \in SUBSET Agents, StartRunner(served)
      PROVE  Kept
  BY <1>2, StartRunnerKeeps
<1>3. ASSUME NEW r \in DOMAIN registered, StopRunner(r) \/ TickerFires(r)
      PROVE  Kept
  BY <1>3, StopRunnerKeeps, TickerFiresKeeps
<1>4. ASSUME NEW r \in DOMAIN registered, NEW served \in SUBSET Agents, UpdateConfig(r, served)
      PROVE  Kept
  BY <1>4, UpdateConfigKeeps
<1>5. ASSUME NEW w \in Wake, NEW d \in Delays, Produce(w, d)
      PROVE  Kept
  BY <1>5, ProduceKeeps
<1>6. ASSUME SetHeartbeatsEnabled \/ RunnerTimePasses \/ StartBatchCall \/ OtherTimerFires
      PROVE  Kept
  BY <1>6, SetEnabledKeeps, RunnerTimeKeeps, StartBatchCallKeeps, OtherTimerKeeps
<1>7. ASSUME NEW k \in DOMAIN runs,
             RunBusy(k) \/ RunOver(k) \/ CommitmentsOver(k) \/ CommitmentsFail(k)
      PROVE  Kept
  BY <1>7, RunBusyKeeps, RunOverKeeps, CommitmentsOverKeeps, CommitmentsFailKeeps
<1>8. ASSUME NEW n \in DOMAIN batches, CallEnds(n)
      PROVE  Kept
  BY <1>8, CallEndsKeeps
<1>9. ASSUME UNCHANGED allVars
      PROVE  Kept
  <2>1. /\ UNCHANGED <<handler, registered, stopped, pending, batches>>
        /\ UNCHANGED <<enabled, clock, ticker, agents, calls, runs, starts, requests, toggles,
                       reloads>>
    BY <1>9 DEF allVars, vars, runnerVars
  <2> QED BY <2>1 DEF RunnerInv, PartsOK, Undisturbed, AliveFor, Arms
<1>10. Kept
  BY <1>2, <1>3, <1>4, <1>5, <1>6, <1>7, <1>8, <1>9 DEF RunnerNext
<1> QED BY <1>1, <1>10 DEF RunnerInv

LEMMA RunnerInvAlways == RunnerSpec => []RunnerInv
BY RunnerInvInit, RunnerInvNext, PTL DEF RunnerSpec

-----------------------------------------------------------------------------
(* The theorems.                                                           *)

\* The state of the runner stays in its types: no run is bound to a batch
\* that is gone, and no agent keeps more starts than the flood guard reads.
THEOREM RunnerIsTyped == RunnerSpec => []RunnerTypeOK
BY RunnerInvAlways, InvTypes, PTL

\* startHeartbeatRunner is one of the handlers the wake layer allows.
THEOREM RunnerIsAHandler == RunnerSpec => Spec
<1>1. RunnerInit => Init
  BY DEF RunnerInit
<1>2. RunnerInv /\ [RunnerNext]_allVars => [Next]_vars
  BY RunnerStepsAreWakeSteps
<1> QED BY <1>1, <1>2, RunnerInvAlways, PTL DEF RunnerSpec, Spec

\* So the wakes that runners serve are not lost, whichever runner is asked.
THEOREM RunnersLoseNoWake == RunnerSpec => [](NoWakeLost /\ PendingIsArmed)
BY RunnerIsAHandler, WakesAreNeverLost, PendingIsAlwaysArmed, PTL

\* While nobody turned heartbeats off, the heartbeats of a runner never stop
\* by themselves: its timer is armed, a wake is pending, or a call is under
\* way whose finally block arms it.
THEOREM TickersStayAlive == RunnerSpec => [](toggles = 0 => TickerAlive)
<1>1. RunnerInv => (toggles = 0 => TickerAlive)
  BY UndisturbedIs DEF RunnerInv
<1> QED BY <1>1, RunnerInvAlways, PTL
=============================================================================
