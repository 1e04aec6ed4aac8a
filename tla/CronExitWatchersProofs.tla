------------------------ MODULE CronExitWatchersProofs ------------------------
(***************************************************************************)
(* Theorems about CronExitWatchers and their proofs.                       *)
(***************************************************************************)
EXTENDS CronExitWatchers, FiniteSetTheorems, SequenceTheorems, TLAPS

-----------------------------------------------------------------------------
(* The inductive invariant.                                                *)

\* What the phase of an arm tells of its child and of its slot, which it has
\* if own: one that is told to end has lost it, and only a child that the slot
\* watches is not told to end.
ArmMatches(a, own) ==
    /\ a.phase = "spawning" => a.child = "none" /\ ~a.killed
    /\ a.phase = "waiting" => a.child = "running" /\ (a.killed => ~own)
    /\ a.phase \in {"persisting", "firing"} => a.child = "exited" /\ ~a.killed
    /\ a.phase = "firing" \/ (a.phase = "ended" /\ own) => a.fired
    /\ a.fired => a.phase \in {"firing", "ended"}
    /\ a.child = "running" /\ ~a.killed => own /\ a.phase = "waiting"

ArmsMatch == \A j \in Jobs : \A n \in DOMAIN arms[j] : ArmMatches(arms[j][n], Owns(j, n))

\* The arm may still run its job: its command has exited, or it waits for
\* that and has the slot.
FiresLater(a, own) ==
    \/ a.phase \in {"persisting", "firing"}
    \/ a.phase \in {"spawning", "waiting"} /\ own

MayFire(j) == {n \in DOMAIN arms[j] : FiresLater(arms[j][n], Owns(j, n))}

\* The list that a reconcile holds makes it arm j.
ListArms(j) == listed # NoList /\ Rearm(j, listed[j])

\* After that reconcile, the next one finds j watched as the store wants it.
Settles(j) ==
    IF listed = NoList
    THEN active[j] # 0 /\ ~arms[j][active[j]].fired
           /\ arms[j][active[j]].command = store[j].command
    ELSE listed[j].enabled /\ listed[j].command = store[j].command
           /\ (active[j] = 0 \/ ~arms[j][active[j]].fired)

\* The arms that reconciles may still make for requests of the past
Credit(j) == (IF ListArms(j) THEN 1 ELSE 0)
               + (IF store[j].enabled /\ ~Settles(j) THEN 1 ELSE 0)

\* Every run, every arm that may end in one and every arm that may still be
\* made is paid for by a request of its own.
Paid(j) == runs[j] + Cardinality(MayFire(j)) + Credit(j) <= wanted[j]

Budget == \A j \in Jobs : Paid(j)

IInv == TypeOK /\ ArmsMatch /\ Budget

-----------------------------------------------------------------------------
(* The sequences of arms.                                                  *)

\* One arm of a job changes.
LEMMA OneArm ==
    ASSUME arms \in [Jobs -> Seq(Arm)],
           NEW j \in Jobs, NEW n \in DOMAIN arms[j], NEW a \in Arm, SetArm(j, n, a)
    PROVE  /\ arms' \in [Jobs -> Seq(Arm)]
           /\ DOMAIN arms'[j] = DOMAIN arms[j]
           /\ Len(arms'[j]) = Len(arms[j])
           /\ arms'[j][n] = a
           /\ \A m \in DOMAIN arms[j] : m # n => arms'[j][m] = arms[j][m]
           /\ \A i \in Jobs : i # j => arms'[i] = arms[i]
<1> DEFINE s == arms[j]
           t == [s EXCEPT ![n] = a]
<1>1. s \in Seq(Arm) /\ DOMAIN s = 1 .. Len(s) /\ n \in 1 .. Len(s)
  OBVIOUS
<1>2. t \in Seq(Arm) /\ Len(t) = Len(s) /\ DOMAIN t = DOMAIN s
  BY <1>1
<1>3. t[n] = a /\ \A m \in DOMAIN s : m # n => t[m] = s[m]
  BY <1>1
<1>4. arms' = [arms EXCEPT ![j] = t]
  BY DEF SetArm
<1> HIDE DEF t
<1>5. arms'[j] = t /\ \A i \in Jobs : i # j => arms'[i] = arms[i]
  BY <1>4
<1>6. arms' \in [Jobs -> Seq(Arm)]
  BY <1>2, <1>4
<1> QED BY <1>2, <1>3, <1>5, <1>6

\* Running children are asked to end, and nothing else changes.
LEMMA KilledArms ==
    ASSUME NEW s \in Seq(Arm)
    PROVE  /\ Killed(s) \in Seq(Arm)
           /\ Len(Killed(s)) = Len(s)
           /\ DOMAIN Killed(s) = DOMAIN s
           /\ \A n \in DOMAIN s :
                /\ Killed(s)[n] \in Arm
                /\ Killed(s)[n].command = s[n].command
                /\ Killed(s)[n].phase = s[n].phase
                /\ Killed(s)[n].child = s[n].child
                /\ Killed(s)[n].fired = s[n].fired
                /\ Killed(s)[n].killed = (s[n].killed \/ s[n].child = "running")
<1>1. DOMAIN s = 1 .. Len(s) /\ Len(s) \in Nat
  OBVIOUS
<1>2. ASSUME NEW n \in DOMAIN s
      PROVE  /\ Killed(s)[n] \in Arm
             /\ Killed(s)[n].command = s[n].command
             /\ Killed(s)[n].phase = s[n].phase
             /\ Killed(s)[n].child = s[n].child
             /\ Killed(s)[n].fired = s[n].fired
             /\ Killed(s)[n].killed = (s[n].killed \/ s[n].child = "running")
  <2>1. s[n] \in Arm
    BY <1>1
  <2>2. Killed(s)[n] = IF s[n].child = "running" THEN [s[n] EXCEPT !.killed = TRUE]
                        ELSE s[n]
    BY DEF Killed
  <2> QED BY <2>1, <2>2 DEF Arm
<1>3. DOMAIN Killed(s) = 1 .. Len(s)
  BY <1>1 DEF Killed
<1>4. Killed(s) \in Seq(Arm)
  <2>1. Killed(s) = [n \in 1 .. Len(s) |-> Killed(s)[n]]
    BY <1>1 DEF Killed
  <2>2. \A n \in 1 .. Len(s) : Killed(s)[n] \in Arm
    BY <1>1, <1>2
  <2>3. Killed(s) \in [1 .. Len(s) -> Arm]
    BY <2>1, <2>2
  <2> QED BY <1>1, <2>3, SeqDef
<1> QED BY <1>1, <1>2, <1>3, <1>4

\* An arm is added, and the children of the others are asked to end.
LEMMA ArmedArms ==
    ASSUME NEW s \in Seq(Arm), NEW c \in Commands
    PROVE  /\ Armed(s, c) \in Seq(Arm)
           /\ Len(Armed(s, c)) = Len(s) + 1
           /\ DOMAIN Armed(s, c) = 1 .. Len(s) + 1
           /\ \A n \in DOMAIN s : Armed(s, c)[n] = Killed(s)[n]
           /\ Armed(s, c)[Len(s) + 1] =
                [command |-> c, phase |-> "spawning", child |-> "none",
                 killed |-> FALSE, fired |-> FALSE]
<1> DEFINE new == [command |-> c, phase |-> "spawning", child |-> "none",
                   killed |-> FALSE, fired |-> FALSE]
           k == Killed(s)
<1>1. k \in Seq(Arm) /\ Len(k) = Len(s) /\ DOMAIN s = 1 .. Len(k)
  BY KilledArms
<1>2. new \in Arm
  BY DEF Arm
<1>3. Armed(s, c) = Append(k, new)
  BY DEF Armed
<1> HIDE DEF k, new
<1>4. /\ Append(k, new) \in Seq(Arm)
      /\ Len(Append(k, new)) = Len(k) + 1
      /\ \A n \in 1 .. Len(k) : Append(k, new)[n] = k[n]
      /\ Append(k, new)[Len(k) + 1] = new
  BY <1>1, <1>2
<1>5. DOMAIN Append(k, new) = 1 .. Len(k) + 1
  BY <1>4
<1> QED BY <1>1, <1>3, <1>4, <1>5 DEF k, new

-----------------------------------------------------------------------------
(* What the steps do to a job.                                             *)

\* Types, spelled out for one job
LEMMA TypesOfJob ==
    ASSUME TypeOK, NEW j \in Jobs
    PROVE  /\ store[j].enabled \in BOOLEAN /\ store[j].command \in Commands
           /\ listed # NoList => /\ listed \in Store
                                 /\ listed[j].enabled \in BOOLEAN
                                 /\ listed[j].command \in Commands
           /\ active[j] \in 0 .. Len(arms[j])
           /\ arms[j] \in Seq(Arm)
           /\ DOMAIN arms[j] = 1 .. Len(arms[j])
           /\ Len(arms[j]) \in Nat
           /\ \A n \in DOMAIN arms[j] : arms[j][n] \in Arm
           /\ wanted[j] \in Nat
           /\ runs[j] \in Nat
<1>1. arms[j] \in Seq(Arm)
  BY DEF TypeOK
<1>2. /\ DOMAIN arms[j] = 1 .. Len(arms[j])
      /\ Len(arms[j]) \in Nat
      /\ \A n \in DOMAIN arms[j] : arms[j][n] \in Arm
  BY <1>1
<1> QED BY <1>1, <1>2 DEF TypeOK, Store, Job

\* What a reconcile does to a job: a new arm, an end of its watch, or nothing
LEMMA ReconciledJob ==
    ASSUME TypeOK, Reconcile, NEW j \in Jobs
    PROVE  /\ active' \in [Jobs -> Nat]
           /\ arms' \in [Jobs -> Seq(Arm)]
           /\ active'[j] \in 0 .. Len(arms'[j])
           /\ \/ /\ Rearm(j, listed[j])
                 /\ arms'[j] = Armed(arms[j], listed[j].command)
                 /\ active'[j] = Len(arms[j]) + 1
              \/ /\ ~Rearm(j, listed[j])
                 /\ ~listed[j].enabled
                 /\ active[j] # 0
                 /\ arms'[j] = Killed(arms[j])
                 /\ active'[j] = 0
              \/ /\ ~Rearm(j, listed[j])
                 /\ listed[j].enabled \/ active[j] = 0
                 /\ arms'[j] = arms[j]
                 /\ active'[j] = active[j]
<1>1. ASSUME NEW i \in Jobs
      PROVE  /\ active'[i] \in Nat
             /\ arms'[i] \in Seq(Arm)
             /\ active'[i] \in 0 .. Len(arms'[i])
             /\ \/ /\ Rearm(i, listed[i])
                   /\ arms'[i] = Armed(arms[i], listed[i].command)
                   /\ active'[i] = Len(arms[i]) + 1
                \/ /\ ~Rearm(i, listed[i])
                   /\ ~listed[i].enabled
                   /\ active[i] # 0
                   /\ arms'[i] = Killed(arms[i])
                   /\ active'[i] = 0
                \/ /\ ~Rearm(i, listed[i])
                   /\ listed[i].enabled \/ active[i] = 0
                   /\ arms'[i] = arms[i]
                   /\ active'[i] = active[i]
  <2>1. /\ listed[i].command \in Commands
        /\ arms[i] \in Seq(Arm)
        /\ Len(arms[i]) \in Nat
        /\ active[i] \in 0 .. Len(arms[i])
    BY TypesOfJob DEF Reconcile
  <2>2. /\ arms'[i] = IF Rearm(i, listed[i]) THEN Armed(arms[i], listed[i].command)
                      ELSE IF ~listed[i].enabled /\ active[i] # 0 THEN Killed(arms[i])
                      ELSE arms[i]
        /\ active'[i] = IF Rearm(i, listed[i]) THEN Len(arms[i]) + 1
                        ELSE IF listed[i].enabled THEN active[i]
                        ELSE 0
    BY DEF Reconcile
  <2>3. CASE Rearm(i, listed[i])
    <3>1. /\ Armed(arms[i], listed[i].command) \in Seq(Arm)
          /\ Len(Armed(arms[i], listed[i].command)) = Len(arms[i]) + 1
      BY <2>1, ArmedArms
    <3> QED BY <2>1, <2>2, <2>3, <3>1
  <2>4. CASE ~Rearm(i, listed[i]) /\ ~listed[i].enabled /\ active[i] # 0
    <3>1. Killed(arms[i]) \in Seq(Arm) /\ Len(Killed(arms[i])) = Len(arms[i])
      BY <2>1, KilledArms
    <3> QED BY <2>1, <2>2, <2>4, <3>1
  <2>5. CASE ~Rearm(i, listed[i]) /\ (listed[i].enabled \/ active[i] = 0)
    BY <2>1, <2>2, <2>5
  <2> QED BY <2>3, <2>4, <2>5
<1>2. active' \in [Jobs -> Nat] /\ arms' \in [Jobs -> Seq(Arm)]
  <2>1. active' = [i \in Jobs |-> active'[i]] /\ arms' = [i \in Jobs |-> arms'[i]]
    BY DEF Reconcile
  <2> QED BY <1>1, <2>1
<1> QED BY <1>1, <1>2

\* An arm's steps leave its slot alone or give it up, if it has it.
LEMMA SlotAfterArmStep ==
    ASSUME TypeOK, NEW j \in Jobs, NEW n \in DOMAIN arms[j]
    PROVE  /\ Released(j, n) \in [Jobs -> Nat]
           /\ Released(j, n)[j] = IF active[j] = n THEN 0 ELSE active[j]
           /\ \A i \in Jobs : i # j => Released(j, n)[i] = active[i]
<1>1. active \in [Jobs -> Nat]
  BY DEF TypeOK
<1> QED BY <1>1 DEF Released, Owns

\* The steps of arm n of job j, apart from their types.  Of what may still
\* happen to the job, it goes on as before, the arm gives up its slot, it ends
\* the request in the store, or it runs the job.
ArmMoves(j, n, a) ==
    LET old == arms[j][n]
    IN  /\ SetArm(j, n, a)
        /\ a \in Arm
        /\ a.command = old.command
        /\ active'[j] = active[j] \/ (active[j] = n /\ active'[j] = 0)
        /\ \A i \in Jobs : i # j =>
             active'[i] = active[i] /\ store'[i] = store[i] /\ runs'[i] = runs[i]
        /\ UNCHANGED <<listed, wanted>>
        /\ ArmMatches(old, Owns(j, n)) => ArmMatches(a, active'[j] = n)
        /\ \/ /\ store'[j] = store[j] /\ runs'[j] = runs[j] /\ active'[j] = active[j]
              /\ a.fired = old.fired
              /\ FiresLater(a, Owns(j, n)) => FiresLater(old, Owns(j, n))
           \/ /\ store'[j] = store[j] /\ runs'[j] = runs[j] /\ Owns(j, n)
              /\ active'[j] = 0
              /\ FiresLater(old, TRUE) /\ old.phase # "firing"
              /\ ~FiresLater(a, FALSE)
           \/ /\ ~store'[j].enabled /\ runs'[j] = runs[j] /\ active'[j] = active[j]
              /\ FiresLater(old, FALSE)
              /\ a.fired
           \/ /\ store'[j] = store[j] /\ runs'[j] = runs[j] + 1 /\ active'[j] = active[j]
              /\ FiresLater(old, FALSE)
              /\ ~FiresLater(a, TRUE)
              /\ a.fired = old.fired

LEMMA ArmStepMoves ==
    ASSUME TypeOK, NEW j \in Jobs, NEW n \in DOMAIN arms[j],
           ArmStep(j, n) \/ ChildExits(j, n)
    PROVE  \E a \in Arm : ArmMoves(j, n, a)
<1> DEFINE old == arms[j][n]
<1>1. /\ old \in Arm
      /\ runs \in [Jobs -> Nat]
      /\ store \in Store
  BY TypesOfJob DEF TypeOK
<1>2. /\ Released(j, n)[j] = IF active[j] = n THEN 0 ELSE active[j]
      /\ \A i \in Jobs : i # j => Released(j, n)[i] = active[i]
  BY SlotAfterArmStep
<1>3. n # 0
  BY TypesOfJob
<1> DEFINE goal == \E a \in Arm : ArmMoves(j, n, a)
<1>4. CASE SpawnReturns(j, n)
  <2> DEFINE a == IF Owns(j, n) THEN [old EXCEPT !.phase = "waiting", !.child = "running"]
                  ELSE [old EXCEPT !.phase = "ended", !.child = "running", !.killed = TRUE]
  <2>1. a \in Arm
    BY <1>1 DEF Arm
  <2>2. /\ old.phase = "spawning"
        /\ SetArm(j, n, a)
        /\ UNCHANGED <<store, listed, active, wanted, runs>>
    BY <1>4 DEF SpawnReturns
  <2>3. ArmMoves(j, n, a)
    BY <1>1, <2>1, <2>2 DEF ArmMoves, ArmMatches, FiresLater, Owns, Arm
  <2> QED BY <2>1, <2>3
<1>5. CASE ChildExits(j, n)
  <2> DEFINE a == [old EXCEPT !.child = "exited",
                              !.phase = IF @ = "waiting" /\ Owns(j, n) THEN "persisting"
                                        ELSE "ended"]
  <2>1. a \in Arm
    BY <1>1 DEF Arm
  <2>2. /\ old.child = "running"
        /\ SetArm(j, n, a)
        /\ UNCHANGED <<store, listed, active, wanted, runs>>
    BY <1>5 DEF ChildExits
  <2>3. ArmMoves(j, n, a)
    BY <1>1, <2>1, <2>2 DEF ArmMoves, ArmMatches, FiresLater, Owns, Arm
  <2> QED BY <2>1, <2>3
<1>6. CASE SpawnFails(j, n) \/ WaitFails(j, n) \/ PersistFails(j, n)
  <2> DEFINE a == IF WaitFails(j, n) /\ old.phase = "waiting"
                  THEN [old EXCEPT !.phase = "ended", !.child = "exited"]
                  ELSE [old EXCEPT !.phase = "ended"]
  <2>1. a \in Arm
    BY <1>1 DEF Arm
  <2>2. /\ old.phase \in {"spawning", "waiting", "persisting"}
        /\ old.phase = "waiting" => WaitFails(j, n)
        /\ SetArm(j, n, a)
        /\ active' = Released(j, n)
        /\ UNCHANGED <<store, listed, wanted, runs>>
    BY <1>6 DEF SpawnFails, WaitFails, PersistFails
  <2>3. /\ a.phase = "ended"
        /\ old.phase = "waiting" => a.child = "exited"
        /\ old.phase # "waiting" => a.child = old.child
        /\ a.command = old.command /\ a.fired = old.fired /\ a.killed = old.killed
    BY <1>1, <2>2 DEF Arm
  <2> HIDE DEF a, old
  <2>4. ArmMoves(j, n, a)
    BY <1>2, <1>3, <2>1, <2>2, <2>3 DEF ArmMoves, ArmMatches, FiresLater, Owns, old
  <2> QED BY <2>1, <2>4
<1>7. CASE PersistCompletion(j, n)
  <2> DEFINE a == [old EXCEPT !.phase = "firing", !.fired = TRUE]
  <2>1. a \in Arm
    BY <1>1 DEF Arm
  <2>2. /\ old.phase = "persisting"
        /\ store' = [store EXCEPT ![j].enabled = FALSE]
        /\ SetArm(j, n, a)
        /\ UNCHANGED <<listed, active, wanted, runs>>
    BY <1>7 DEF PersistCompletion
  <2>3. ~store'[j].enabled /\ \A i \in Jobs : i # j => store'[i] = store[i]
    BY <1>1, <2>2 DEF Store, Job
  <2>4. ArmMoves(j, n, a)
    BY <1>1, <2>1, <2>2, <2>3 DEF ArmMoves, ArmMatches, FiresLater, Owns, Arm
  <2> QED BY <2>1, <2>4
<1>8. CASE FireOnExit(j, n)
  <2> DEFINE a == [old EXCEPT !.phase = "ended"]
  <2>1. a \in Arm
    BY <1>1 DEF Arm
  <2>2. /\ old.phase = "firing"
        /\ runs' = [runs EXCEPT ![j] = @ + 1]
        /\ SetArm(j, n, a)
        /\ UNCHANGED <<store, listed, active, wanted>>
    BY <1>8 DEF FireOnExit
  <2>3. ArmMoves(j, n, a)
    BY <1>1, <2>1, <2>2 DEF ArmMoves, ArmMatches, FiresLater, Owns, Arm
  <2> QED BY <2>1, <2>3
<1> QED BY <1>4, <1>5, <1>6, <1>7, <1>8 DEF ArmStep

-----------------------------------------------------------------------------
(* The budget of a job.                                                    *)

\* Sets that grow or shrink by an element
LEMMA Counting ==
    ASSUME NEW S, IsFiniteSet(S), NEW T, NEW x
    PROVE  /\ Cardinality(S) \in Nat
           /\ T \subseteq S => Cardinality(T) \in Nat /\ Cardinality(T) <= Cardinality(S)
           /\ x \in S /\ T \subseteq S \ {x}
                => Cardinality(T) \in Nat /\ Cardinality(T) + 1 <= Cardinality(S)
           /\ T \subseteq S \cup {x}
                => Cardinality(T) \in Nat /\ Cardinality(T) <= Cardinality(S) + 1
<1>1. Cardinality(S) \in Nat
  BY FS_CardinalityType
<1>2. ASSUME T \subseteq S
      PROVE  Cardinality(T) \in Nat /\ Cardinality(T) <= Cardinality(S)
  BY <1>2, FS_Subset, FS_CardinalityType
<1>3. ASSUME x \in S, T \subseteq S \ {x}
      PROVE  Cardinality(T) \in Nat /\ Cardinality(T) + 1 <= Cardinality(S)
  <2>1. IsFiniteSet(S \ {x}) /\ Cardinality(S \ {x}) = Cardinality(S) - 1
    BY <1>3, FS_RemoveElement
  <2>2. Cardinality(T) \in Nat /\ Cardinality(T) <= Cardinality(S \ {x})
    BY <1>3, <2>1, FS_Subset, FS_CardinalityType
  <2>3. Cardinality(S \ {x}) \in Nat
    BY <2>1, FS_CardinalityType
  <2> QED BY <1>1, <2>1, <2>2, <2>3
<1>4. ASSUME T \subseteq S \cup {x}
      PROVE  Cardinality(T) \in Nat /\ Cardinality(T) <= Cardinality(S) + 1
  <2>1. /\ IsFiniteSet(S \cup {x})
        /\ Cardinality(S \cup {x}) = IF x \in S THEN Cardinality(S) ELSE Cardinality(S) + 1
    BY FS_AddElement
  <2>2. Cardinality(T) \in Nat /\ Cardinality(T) <= Cardinality(S \cup {x})
    BY <1>4, <2>1, FS_Subset, FS_CardinalityType
  <2> QED BY <1>1, <2>1, <2>2
<1> QED BY <1>1, <1>2, <1>3, <1>4

LEMMA MayFireFinite ==
    ASSUME TypeOK, NEW j \in Jobs
    PROVE  IsFiniteSet(MayFire(j)) /\ Cardinality(MayFire(j)) \in Nat
<1>1. DOMAIN arms[j] = 1 .. Len(arms[j]) /\ Len(arms[j]) \in Nat
  BY TypesOfJob
<1>2. IsFiniteSet(1 .. Len(arms[j]))
  BY <1>1, FS_Interval
<1>3. MayFire(j) \in SUBSET (1 .. Len(arms[j]))
  BY <1>1 DEF MayFire
<1>4. IsFiniteSet(MayFire(j))
  BY <1>2, <1>3, FS_Subset
<1> QED BY <1>4, FS_CardinalityType

LEMMA CreditType == \A j : Credit(j) \in 0 .. 2
BY DEF Credit

\* A job that a step does not touch
LEMMA OtherPaid ==
    ASSUME NEW j \in Jobs, Paid(j),
           arms'[j] = arms[j], active'[j] = active[j], store'[j] = store[j],
           runs'[j] = runs[j], wanted'[j] = wanted[j], listed' = listed
    PROVE  Paid(j)'
<1>1. MayFire(j)' = MayFire(j)
  BY DEF MayFire, FiresLater, Owns
<1>2. Credit(j)' = Credit(j)
  BY DEF Credit, ListArms, Settles, Rearm
<1> QED BY <1>1, <1>2 DEF Paid

\* A step of one arm
LEMMA ArmStepPaid ==
    ASSUME IInv, NEW j \in Jobs, NEW n \in DOMAIN arms[j], NEW a \in Arm, ArmMoves(j, n, a)
    PROVE  Paid(j)'
<1> DEFINE old == arms[j][n]
           M == MayFire(j)
           N == MayFire(j)'
<1>1. /\ DOMAIN arms'[j] = DOMAIN arms[j]
      /\ arms'[j][n] = a
      /\ \A m \in DOMAIN arms[j] : m # n => arms'[j][m] = arms[j][m]
  BY OneArm DEF ArmMoves, IInv, TypeOK
<1>2. /\ IsFiniteSet(M)
      /\ Cardinality(M) \in Nat
      /\ runs[j] \in Nat
      /\ wanted[j] \in Nat
      /\ active[j] \in 0 .. Len(arms[j])
      /\ DOMAIN arms[j] = 1 .. Len(arms[j])
      /\ Len(arms[j]) \in Nat
      /\ Paid(j)
      /\ ArmMatches(old, Owns(j, n))
  BY MayFireFinite, TypesOfJob DEF IInv, Budget, ArmsMatch
<1>3. /\ a.command = old.command
      /\ active'[j] = active[j] \/ (active[j] = n /\ active'[j] = 0)
      /\ wanted'[j] = wanted[j]
      /\ listed' = listed
  BY DEF ArmMoves
<1>4. ASSUME NEW m \in DOMAIN arms[j], m # n
      PROVE  m \in N => m \in M
  <2>1. (active'[j] = m) <=> (active[j] = m)
    BY <1>2, <1>3, <1>4
  <2> QED BY <1>1, <1>4, <2>1 DEF MayFire, FiresLater, Owns
<1>5. /\ N \subseteq DOMAIN arms[j]
      /\ n \in N <=> FiresLater(a, active'[j] = n)
      /\ n \in M <=> FiresLater(old, Owns(j, n))
  BY <1>1 DEF MayFire, FiresLater, Owns
<1>6. Credit(j) \in 0 .. 2 /\ Credit(j)' \in 0 .. 2
  BY DEF Credit
<1> HIDE DEF M, N
<1>7. /\ N \subseteq M => Cardinality(N) \in Nat /\ Cardinality(N) <= Cardinality(M)
      /\ n \in M /\ N \subseteq M \ {n}
           => Cardinality(N) \in Nat /\ Cardinality(N) + 1 <= Cardinality(M)
  BY <1>2, Counting
<1>8. ASSUME active'[j] = active[j], a.fired = old.fired, store'[j] = store[j]
      PROVE  Credit(j)' = Credit(j)
  <2>1. \A m \in DOMAIN arms[j] :
          arms'[j][m].fired = arms[j][m].fired /\ arms'[j][m].command = arms[j][m].command
    BY <1>1, <1>3, <1>8
  <2>2. active[j] # 0 => active[j] \in DOMAIN arms[j]
    BY <1>2
  <2> QED BY <1>3, <1>8, <2>1, <2>2 DEF Credit, ListArms, Settles, Rearm
<1>9. CASE /\ store'[j] = store[j] /\ runs'[j] = runs[j] /\ active'[j] = active[j]
           /\ a.fired = old.fired
           /\ FiresLater(a, Owns(j, n)) => FiresLater(old, Owns(j, n))
  <2>1. N \subseteq M
    BY <1>4, <1>5, <1>9 DEF Owns
  <2>2. Credit(j)' = Credit(j)
    BY <1>8, <1>9
  <2> QED BY <1>2, <1>3, <1>6, <1>7, <1>9, <2>1, <2>2 DEF Paid, M, N
<1>10. CASE /\ store'[j] = store[j] /\ runs'[j] = runs[j] /\ Owns(j, n)
            /\ active'[j] = 0
            /\ FiresLater(old, TRUE) /\ old.phase # "firing"
            /\ ~FiresLater(a, FALSE)
  <2>1. n # 0 /\ active[j] = n /\ ~old.fired
    BY <1>2, <1>10 DEF Owns, ArmMatches, FiresLater
  <2>2. n \in M /\ n \notin N
    BY <1>5, <1>10, <2>1 DEF Owns, FiresLater
  <2>3. n \in M /\ N \subseteq M \ {n}
    BY <1>4, <1>5, <2>2
  <2>4. Credit(j)' <= Credit(j) + 1
    BY <1>3, <1>10, <2>1 DEF Credit, ListArms, Settles, Rearm
  <2> QED BY <1>2, <1>3, <1>6, <1>7, <1>10, <2>3, <2>4 DEF Paid, M, N
<1>11. CASE /\ ~store'[j].enabled /\ runs'[j] = runs[j] /\ active'[j] = active[j]
            /\ FiresLater(old, FALSE)
            /\ a.fired
  <2>1. n \in M
    BY <1>5, <1>11 DEF FiresLater
  <2>2. N \subseteq M
    BY <1>4, <1>5, <2>1
  <2>3. \A m \in DOMAIN arms[j] :
          /\ arms[j][m].fired => arms'[j][m].fired
          /\ arms'[j][m].command = arms[j][m].command
    BY <1>1, <1>3, <1>11
  <2>4. active[j] # 0 => active[j] \in DOMAIN arms[j]
    BY <1>2
  <2>5. ListArms(j)' => ListArms(j)
    BY <1>3, <1>11, <2>3, <2>4 DEF ListArms, Rearm
  <2>6. Credit(j)' <= Credit(j)
    BY <1>11, <2>5 DEF Credit
  <2> QED BY <1>2, <1>3, <1>6, <1>7, <1>11, <2>2, <2>6 DEF Paid, M, N
<1>12. CASE /\ store'[j] = store[j] /\ runs'[j] = runs[j] + 1 /\ active'[j] = active[j]
            /\ FiresLater(old, FALSE)
            /\ ~FiresLater(a, TRUE)
            /\ a.fired = old.fired
  <2>1. n \in M /\ n \notin N
    BY <1>5, <1>12 DEF FiresLater
  <2>2. n \in M /\ N \subseteq M \ {n}
    BY <1>4, <1>5, <2>1
  <2>3. Credit(j)' = Credit(j)
    BY <1>8, <1>12
  <2>4. Cardinality(N) \in Nat /\ Cardinality(N) + 1 <= Cardinality(M)
    BY <1>7, <2>2
  <2>5. runs[j] + Cardinality(M) + Credit(j) <= wanted[j]
    BY <1>2 DEF Paid, M
  <2>6. (runs[j] + 1) + Cardinality(N) + Credit(j) <= wanted[j]
    BY <1>2, <1>6, <2>4, <2>5
  <2> QED BY <1>3, <1>12, <2>3, <2>6 DEF Paid, N
<1> QED BY <1>9, <1>10, <1>11, <1>12 DEF ArmMoves

\* A new arm uses up the credit for it.
LEMMA ReconcilePaid ==
    ASSUME IInv, Reconcile, NEW j \in Jobs
    PROVE  Paid(j)'
<1> DEFINE M == MayFire(j)
           N == MayFire(j)'
           next == Len(arms[j]) + 1
<1>1. /\ IsFiniteSet(M)
      /\ Cardinality(M) \in Nat
      /\ runs[j] \in Nat
      /\ wanted[j] \in Nat
      /\ active[j] \in 0 .. Len(arms[j])
      /\ arms[j] \in Seq(Arm)
      /\ DOMAIN arms[j] = 1 .. Len(arms[j])
      /\ Len(arms[j]) \in Nat
      /\ Paid(j)
      /\ listed # NoList
      /\ listed[j].command \in Commands
  BY MayFireFinite, TypesOfJob DEF IInv, Budget, Reconcile
<1>2. listed' = NoList /\ store' = store /\ runs' = runs /\ wanted' = wanted
  BY DEF Reconcile
<1>3. Credit(j) \in 0 .. 2 /\ Credit(j)' \in 0 .. 2
  BY DEF Credit
<1>4. ~ListArms(j)'
  BY <1>2 DEF ListArms
<1> HIDE DEF M, N
<1>5. /\ N \subseteq M => Cardinality(N) \in Nat /\ Cardinality(N) <= Cardinality(M)
      /\ N \subseteq M \cup {next}
           => Cardinality(N) \in Nat /\ Cardinality(N) <= Cardinality(M) + 1
  BY <1>1, Counting
<1>6. CASE /\ Rearm(j, listed[j])
           /\ arms'[j] = Armed(arms[j], listed[j].command)
           /\ active'[j] = next
  <2>1. /\ DOMAIN arms'[j] = 1 .. next
        /\ \A m \in DOMAIN arms[j] : arms'[j][m].phase = arms[j][m].phase
        /\ arms'[j][next].command = listed[j].command
        /\ ~arms'[j][next].fired
    <3> DEFINE s == arms[j]
               c == listed[j].command
    <3>1. /\ DOMAIN Armed(s, c) = 1 .. Len(s) + 1
          /\ \A m \in DOMAIN s : Armed(s, c)[m] = Killed(s)[m]
          /\ Armed(s, c)[Len(s) + 1] =
               [command |-> c, phase |-> "spawning", child |-> "none",
                killed |-> FALSE, fired |-> FALSE]
      BY <1>1, ArmedArms
    <3>2. \A m \in DOMAIN s : Killed(s)[m].phase = s[m].phase
      BY <1>1, KilledArms
    <3> QED BY <1>6, <3>1, <3>2
  <2>2. N \subseteq M \cup {next}
    BY <1>1, <1>6, <2>1 DEF M, N, MayFire, FiresLater, Owns
  <2>3. ListArms(j)
    BY <1>1, <1>6 DEF ListArms
  <2>4. Settles(j)' <=> Settles(j)
    BY <1>1, <1>2, <1>6, <2>1 DEF Settles, Rearm
  <2>5. Credit(j)' = Credit(j) - 1
    BY <1>2, <1>4, <2>3, <2>4 DEF Credit
  <2> QED BY <1>1, <1>2, <1>3, <1>5, <2>2, <2>5 DEF Paid, M, N
<1>7. CASE /\ ~Rearm(j, listed[j])
           /\ ~listed[j].enabled
           /\ active[j] # 0
           /\ arms'[j] = Killed(arms[j])
           /\ active'[j] = 0
  <2>1. /\ DOMAIN arms'[j] = DOMAIN arms[j]
        /\ \A m \in DOMAIN arms[j] : arms'[j][m].phase = arms[j][m].phase
    BY <1>1, <1>7, KilledArms
  <2>2. N \subseteq M
    BY <1>1, <1>7, <2>1 DEF M, N, MayFire, FiresLater, Owns
  <2>3. ~ListArms(j) /\ ~Settles(j) /\ ~Settles(j)'
    BY <1>1, <1>2, <1>7 DEF ListArms, Settles
  <2>4. Credit(j)' = Credit(j)
    BY <1>2, <1>4, <2>3 DEF Credit
  <2> QED BY <1>1, <1>2, <1>3, <1>5, <2>2, <2>4 DEF Paid, M, N
<1>8. CASE /\ ~Rearm(j, listed[j])
           /\ listed[j].enabled \/ active[j] = 0
           /\ arms'[j] = arms[j]
           /\ active'[j] = active[j]
  <2>1. N = M
    BY <1>8 DEF M, N, MayFire, FiresLater, Owns
  <2>2. ~ListArms(j)
    BY <1>8 DEF ListArms
  <2>3. Settles(j)' <=> Settles(j)
    BY <1>1, <1>2, <1>8 DEF Settles, Rearm
  <2>4. Credit(j)' = Credit(j)
    BY <1>2, <1>4, <2>2, <2>3 DEF Credit
  <2> QED BY <1>1, <1>2, <1>3, <2>1, <2>4 DEF Paid, M, N
<1> QED BY <1>6, <1>7, <1>8, ReconciledJob DEF IInv

\* A list moves the credit of the store to the reconcile.
LEMMA ListPaid ==
    ASSUME IInv, ListJobs, NEW j \in Jobs
    PROVE  Paid(j)'
<1>1. /\ listed = NoList /\ listed' = store
      /\ UNCHANGED <<store, active, arms, wanted, runs>>
      /\ Paid(j)
      /\ Cardinality(MayFire(j)) \in Nat /\ runs[j] \in Nat /\ wanted[j] \in Nat
  BY MayFireFinite, TypesOfJob DEF ListJobs, IInv, Budget
<1>2. MayFire(j)' = MayFire(j)
  BY <1>1 DEF MayFire, FiresLater, Owns
<1>3. Credit(j)' <= Credit(j)
  BY <1>1 DEF Credit, ListArms, Settles, Rearm
<1>4. Credit(j) \in 0 .. 2 /\ Credit(j)' \in 0 .. 2
  BY DEF Credit
<1> QED BY <1>1, <1>2, <1>3, <1>4 DEF Paid

\* The owner pays for what a change of the store may start.
LEMMA UpdatePaid ==
    ASSUME IInv, NEW i \in Jobs, NEW new \in Job, UpdateJob(i, new), NEW j \in Jobs
    PROVE  Paid(j)'
<1>1. /\ UNCHANGED <<listed, active, arms, runs>>
      /\ store' = [store EXCEPT ![i] = new]
      /\ wanted' = [wanted EXCEPT ![i] = IF new.enabled THEN @ + 1 ELSE @]
      /\ Paid(j)
      /\ store \in Store
      /\ wanted \in [Jobs -> Nat]
  BY DEF UpdateJob, IInv, Budget, TypeOK
<1>2. CASE i # j
  <2>1. store'[j] = store[j] /\ wanted'[j] = wanted[j]
    BY <1>1, <1>2 DEF Store
  <2> QED BY <1>1, <2>1, OtherPaid
<1>3. CASE i = j
  <2>1. /\ store'[j] = new
        /\ wanted'[j] = IF new.enabled THEN wanted[j] + 1 ELSE wanted[j]
        /\ Cardinality(MayFire(j)) \in Nat /\ runs[j] \in Nat /\ wanted[j] \in Nat
    BY <1>1, <1>3, MayFireFinite, TypesOfJob DEF Store, IInv
  <2>2. MayFire(j)' = MayFire(j)
    BY <1>1 DEF MayFire, FiresLater, Owns
  <2>3. ListArms(j)' <=> ListArms(j)
    BY <1>1 DEF ListArms, Rearm
  <2>4. Credit(j)' <= Credit(j) + (IF new.enabled THEN 1 ELSE 0)
    BY <2>1, <2>3 DEF Credit
  <2>5. Credit(j) \in 0 .. 2 /\ Credit(j)' \in 0 .. 2
    BY DEF Credit
  <2> QED BY <1>1, <2>1, <2>2, <2>4, <2>5 DEF Paid
<1> QED BY <1>2, <1>3

\* After a restart the store alone can start a watch, which one that was lost
\* or one that was still to come had paid for.
LEMMA RestartPaid ==
    ASSUME IInv, Restart, NEW j \in Jobs
    PROVE  Paid(j)'
<1> DEFINE M == MayFire(j)
<1>1. /\ listed' = NoList /\ active'[j] = 0 /\ arms'[j] = << >>
      /\ UNCHANGED <<store, wanted, runs>>
      /\ Paid(j)
      /\ IsFiniteSet(M) /\ Cardinality(M) \in Nat /\ runs[j] \in Nat /\ wanted[j] \in Nat
      /\ active[j] \in 0 .. Len(arms[j]) /\ DOMAIN arms[j] = 1 .. Len(arms[j])
      /\ Len(arms[j]) \in Nat
      /\ \A n \in DOMAIN arms[j] :
           arms[j][n] \in Arm /\ ArmMatches(arms[j][n], Owns(j, n))
  BY MayFireFinite, TypesOfJob DEF Restart, IInv, Budget, ArmsMatch
<1>2. MayFire(j)' = {}
  BY <1>1 DEF MayFire
<1>3. Cardinality({}) = 0
  BY FS_EmptySet
<1>4. Credit(j)' = IF store[j].enabled THEN 1 ELSE 0
  BY <1>1 DEF Credit, ListArms, Settles
<1>5. Credit(j) \in 0 .. 2
  BY DEF Credit
<1>6. ASSUME store[j].enabled, Credit(j) = 0
      PROVE  active[j] \in M
  <2>1. Settles(j) /\ ~ListArms(j)
    BY <1>6 DEF Credit
  <2>2. active[j] # 0 /\ ~arms[j][active[j]].fired
    BY <2>1 DEF Settles, ListArms, Rearm
  <2>3. active[j] \in DOMAIN arms[j] /\ Owns(j, active[j])
    BY <1>1, <2>2 DEF Owns
  <2>4. /\ arms[j][active[j]].phase
             \in {"spawning", "waiting", "persisting", "firing", "ended"}
        /\ arms[j][active[j]].phase \notin {"firing", "ended"}
    BY <1>1, <2>2, <2>3 DEF ArmMatches, Arm
  <2> QED BY <2>3, <2>4 DEF MayFire, FiresLater
<1> HIDE DEF M
<1>7. active[j] \in M => 1 <= Cardinality(M)
  <2>1. Cardinality({active[j]}) = 1
    BY FS_Singleton
  <2> QED BY <1>1, <2>1, FS_Subset
<1> QED BY <1>1, <1>2, <1>3, <1>4, <1>5, <1>6, <1>7 DEF Paid, M

-----------------------------------------------------------------------------
(* The theorems.                                                           *)

LEMMA InitIInv == Init => IInv
<1> SUFFICES ASSUME Init
             PROVE  IInv
  OBVIOUS
<1>1. TypeOK
  <2>1. arms \in [Jobs -> Seq(Arm)] /\ \A j \in Jobs : Len(arms[j]) = 0
    BY EmptySeq DEF Init
  <2>2. \A j \in Jobs : active[j] \in 0 .. Len(arms[j])
    <3> SUFFICES ASSUME NEW j \in Jobs
                 PROVE  active[j] \in 0 .. Len(arms[j])
      OBVIOUS
    <3>1. active[j] = 0 /\ Len(arms[j]) = 0
      BY <2>1 DEF Init
    <3>2. 0 \in 0 .. 0
      OBVIOUS
    <3> QED BY <3>1, <3>2
  <2>3. store \in Store /\ due \in BOOLEAN /\ listed \in Store \cup {NoList}
    BY DEF Init
  <2>4. active \in [Jobs -> Nat] /\ wanted \in [Jobs -> Nat] /\ runs \in [Jobs -> Nat]
    BY DEF Init
  <2>5. edits \in 0 .. MaxEdits /\ faults \in 0 .. MaxFaults /\ restarts \in 0 .. MaxRestarts
    BY ConstantsAssumption DEF Init
  <2> QED BY <2>1, <2>2, <2>3, <2>4, <2>5 DEF TypeOK
<1>2. ASSUME NEW j \in Jobs
      PROVE  arms[j] = << >> /\ active[j] = 0 /\ listed = NoList /\ runs[j] = 0
             /\ wanted[j] = IF store[j].enabled THEN 1 ELSE 0
  BY DEF Init
<1>3. ArmsMatch
  BY <1>2 DEF ArmsMatch
<1>4. ASSUME NEW j \in Jobs
      PROVE  Paid(j)
  <2>1. MayFire(j) = {}
    BY <1>2 DEF MayFire
  <2>2. Cardinality({}) = 0
    BY FS_EmptySet
  <2>3. Credit(j) = IF store[j].enabled THEN 1 ELSE 0
    BY <1>2 DEF Credit, ListArms, Settles
  <2> QED BY <1>2, <2>1, <2>2, <2>3 DEF Paid
<1> QED BY <1>1, <1>3, <1>4 DEF IInv, Budget

\* Every step keeps the types.
LEMMA NextTypeOK ==
    ASSUME TypeOK, [Next]_vars
    PROVE  TypeOK'
<1>a. /\ store \in Store
      /\ due \in BOOLEAN
      /\ listed \in Store \cup {NoList}
      /\ active \in [Jobs -> Nat]
      /\ arms \in [Jobs -> Seq(Arm)]
      /\ \A j \in Jobs : active[j] \in 0 .. Len(arms[j])
      /\ wanted \in [Jobs -> Nat]
      /\ runs \in [Jobs -> Nat]
      /\ edits \in 0 .. MaxEdits
      /\ faults \in 0 .. MaxFaults
      /\ restarts \in 0 .. MaxRestarts
  BY DEF TypeOK
<1>1. ASSUME NEW j \in Jobs, NEW new \in Job, UpdateJob(j, new)
      PROVE  TypeOK'
  <2>1. store' \in Store /\ wanted' \in [Jobs -> Nat] /\ due' \in BOOLEAN
    BY <1>a, <1>1 DEF UpdateJob, Store
  <2>2. edits' \in 0 .. MaxEdits
    BY <1>a, <1>1, ConstantsAssumption DEF UpdateJob
  <2>3. UNCHANGED <<listed, active, arms, runs, faults, restarts>>
    BY <1>1 DEF UpdateJob
  <2> QED BY <1>a, <2>1, <2>2, <2>3 DEF TypeOK
<1>2. CASE ListJobs
  BY <1>2, <1>a DEF ListJobs, TypeOK
<1>3. CASE Reconcile
  <2>1. /\ listed' = NoList
        /\ UNCHANGED <<store, due, wanted, runs, edits, faults, restarts>>
    BY <1>3 DEF Reconcile
  <2>2. /\ active' = [j \in Jobs |-> active'[j]]
        /\ arms' = [j \in Jobs |-> arms'[j]]
    BY <1>3 DEF Reconcile
  <2>3. \A j \in Jobs : /\ active' \in [Jobs -> Nat]
                        /\ arms' \in [Jobs -> Seq(Arm)]
                        /\ active'[j] \in 0 .. Len(arms'[j])
    BY <1>3, ReconciledJob
  <2>4. \A j \in Jobs : active'[j] \in Nat /\ arms'[j] \in Seq(Arm)
    BY <2>3
  <2>5. active' \in [Jobs -> Nat] /\ arms' \in [Jobs -> Seq(Arm)]
    BY <2>2, <2>4
  <2> QED BY <1>a, <2>1, <2>3, <2>5 DEF TypeOK
<1>4. ASSUME NEW j \in Jobs, NEW n \in DOMAIN arms[j], ArmStep(j, n) \/ ChildExits(j, n)
      PROVE  TypeOK'
  <2>1. PICK a \in Arm : ArmMoves(j, n, a)
    BY <1>4, ArmStepMoves
  <2>2. /\ arms' \in [Jobs -> Seq(Arm)]
        /\ Len(arms'[j]) = Len(arms[j])
        /\ \A i \in Jobs : i # j => arms'[i] = arms[i]
    BY <1>a, <2>1, OneArm DEF ArmMoves
  <2>3. /\ active'[j] = active[j] \/ active'[j] = 0
        /\ \A i \in Jobs : i # j => active'[i] = active[i]
    BY <2>1 DEF ArmMoves
  <2>4. \A i \in Jobs : active'[i] \in 0 .. Len(arms'[i])
    <3>1. \A i \in Jobs : Len(arms[i]) \in Nat /\ active[i] \in 0 .. Len(arms[i])
      BY <1>a
    <3>2. \A i \in Jobs : Len(arms'[i]) = Len(arms[i])
      BY <2>2
    <3>3. \A i \in Jobs : active'[i] = active[i] \/ active'[i] = 0
      BY <2>3
    <3> QED BY <3>1, <3>2, <3>3
  <2>5. active' \in [Jobs -> Nat]
    <3>1. Released(j, n) \in [Jobs -> Nat]
      BY SlotAfterArmStep
    <3>2. active' = active \/ active' = Released(j, n)
      BY <1>4 DEF ArmStep, SpawnReturns, SpawnFails, ChildExits, WaitFails,
                  PersistCompletion, PersistFails, FireOnExit
    <3> QED BY <1>a, <3>1, <3>2
  <2>6. store' \in Store /\ due' \in BOOLEAN
    <3>1. store' = store \/ store' = [store EXCEPT ![j].enabled = FALSE]
      BY <1>4 DEF ArmStep, SpawnReturns, SpawnFails, ChildExits, WaitFails,
                  PersistCompletion, PersistFails, FireOnExit
    <3>2. [store[j] EXCEPT !.enabled = FALSE] \in Job
      BY <1>a DEF Store, Job
    <3>3. store' \in Store
      BY <1>a, <3>1, <3>2 DEF Store
    <3>4. due' = due \/ due' = TRUE
      BY <1>4 DEF ArmStep, SpawnReturns, SpawnFails, ChildExits, WaitFails,
                  PersistCompletion, PersistFails, FireOnExit
    <3> QED BY <1>a, <3>3, <3>4
  <2>7. runs' \in [Jobs -> Nat]
    <3>1. runs' = runs \/ runs' = [runs EXCEPT ![j] = @ + 1]
      BY <1>4 DEF ArmStep, SpawnReturns, SpawnFails, ChildExits, WaitFails,
                  PersistCompletion, PersistFails, FireOnExit
    <3>2. runs[j] + 1 \in Nat
      BY <1>a
    <3> QED BY <1>a, <3>1, <3>2
  <2>8. faults' \in 0 .. MaxFaults
    <3>1. faults' = faults \/ (faults < MaxFaults /\ faults' = faults + 1)
      BY <1>4 DEF ArmStep, SpawnReturns, SpawnFails, ChildExits, WaitFails,
                  PersistCompletion, PersistFails, FireOnExit, Fails
    <3> QED BY <1>a, <3>1, ConstantsAssumption
  <2>9. UNCHANGED <<listed, wanted, edits, restarts>>
    BY <1>4 DEF ArmStep, SpawnReturns, SpawnFails, ChildExits, WaitFails,
                PersistCompletion, PersistFails, FireOnExit
  <2> QED BY <1>a, <2>2, <2>4, <2>5, <2>6, <2>7, <2>8, <2>9 DEF TypeOK
<1>5. CASE Restart
  <2>1. arms' \in [Jobs -> Seq(Arm)] /\ \A j \in Jobs : Len(arms'[j]) = 0
    BY <1>5, EmptySeq DEF Restart
  <2>2. active' \in [Jobs -> Nat] /\ \A j \in Jobs : active'[j] = 0
    BY <1>5 DEF Restart
  <2>3. restarts' \in 0 .. MaxRestarts
    BY <1>a, <1>5, ConstantsAssumption DEF Restart
  <2>4. \A j \in Jobs : active'[j] \in 0 .. Len(arms'[j])
    BY <2>1, <2>2
  <2>5. due' \in BOOLEAN /\ listed' = NoList /\ UNCHANGED <<store, wanted, runs, edits, faults>>
    BY <1>5 DEF Restart
  <2> QED BY <1>a, <2>1, <2>2, <2>3, <2>4, <2>5 DEF TypeOK
<1>6. CASE UNCHANGED vars
  BY <1>6 DEF vars, TypeOK
<1> QED BY <1>1, <1>2, <1>3, <1>4, <1>5, <1>6 DEF Next

\* Every step keeps arms, children and slots in agreement.
LEMMA NextArmsMatch ==
    ASSUME IInv, [Next]_vars
    PROVE  ArmsMatch'
<1>a. /\ TypeOK
      /\ \A j \in Jobs : \A n \in DOMAIN arms[j] : ArmMatches(arms[j][n], active[j] = n)
  BY DEF IInv, ArmsMatch, Owns
<1> SUFFICES ASSUME NEW j \in Jobs, NEW n \in DOMAIN arms'[j]
             PROVE  ArmMatches(arms'[j][n], active'[j] = n)
  BY DEF ArmsMatch, Owns
<1>b. /\ arms[j] \in Seq(Arm)
      /\ DOMAIN arms[j] = 1 .. Len(arms[j])
      /\ Len(arms[j]) \in Nat
      /\ active[j] \in 0 .. Len(arms[j])
      /\ listed # NoList => listed[j].command \in Commands
  BY <1>a, TypesOfJob
<1>1. CASE UNCHANGED <<arms, active>>
  BY <1>a, <1>1
<1>2. CASE Reconcile
  <2>1. CASE /\ arms'[j] = Armed(arms[j], listed[j].command)
             /\ active'[j] = Len(arms[j]) + 1
    <3> DEFINE s == arms[j]
               c == listed[j].command
    <3>1. c \in Commands
      BY <1>2, <1>b DEF Reconcile
    <3>2. /\ DOMAIN Armed(s, c) = 1 .. Len(s) + 1
          /\ \A m \in DOMAIN s : Armed(s, c)[m] = Killed(s)[m]
          /\ Armed(s, c)[Len(s) + 1] =
               [command |-> c, phase |-> "spawning", child |-> "none",
                killed |-> FALSE, fired |-> FALSE]
      BY <1>b, <3>1, ArmedArms
    <3>3. CASE n = Len(s) + 1
      BY <2>1, <3>2, <3>3 DEF ArmMatches
    <3>4. CASE n \in DOMAIN s
      <4>1. /\ arms'[j][n] = Killed(s)[n]
            /\ n # Len(s) + 1
        BY <1>b, <2>1, <3>2, <3>4
      <4>2. /\ Killed(s)[n].phase = s[n].phase
            /\ Killed(s)[n].child = s[n].child
            /\ Killed(s)[n].fired = s[n].fired
            /\ Killed(s)[n].killed = (s[n].killed \/ s[n].child = "running")
        BY <1>b, <3>4, KilledArms
      <4>3. ArmMatches(s[n], active[j] = n)
        BY <1>a, <3>4
      <4> QED BY <2>1, <4>1, <4>2, <4>3 DEF ArmMatches
    <3> QED BY <1>b, <2>1, <3>2, <3>3, <3>4
  <2>2. CASE /\ arms'[j] = Killed(arms[j])
             /\ active'[j] = 0
    <3> DEFINE s == arms[j]
    <3>1. n \in DOMAIN s /\ n # 0
      BY <1>b, <2>2, KilledArms
    <3>2. /\ Killed(s)[n].phase = s[n].phase
          /\ Killed(s)[n].child = s[n].child
          /\ Killed(s)[n].fired = s[n].fired
          /\ Killed(s)[n].killed = (s[n].killed \/ s[n].child = "running")
      BY <1>b, <3>1, KilledArms
    <3>3. ArmMatches(s[n], active[j] = n)
      BY <1>a, <3>1
    <3> QED BY <2>2, <3>1, <3>2, <3>3 DEF ArmMatches
  <2>3. CASE arms'[j] = arms[j] /\ active'[j] = active[j]
    BY <1>a, <2>3
  <2> QED BY <1>a, <1>2, <2>1, <2>2, <2>3, ReconciledJob
<1>3. ASSUME NEW i \in Jobs, NEW m \in DOMAIN arms[i], ArmStep(i, m) \/ ChildExits(i, m)
      PROVE  ArmMatches(arms'[j][n], active'[j] = n)
  <2>1. PICK a \in Arm : ArmMoves(i, m, a)
    BY <1>a, <1>3, ArmStepMoves
  <2>2. /\ arms'[i][m] = a
        /\ DOMAIN arms'[i] = DOMAIN arms[i]
        /\ \A k \in DOMAIN arms[i] : k # m => arms'[i][k] = arms[i][k]
        /\ \A k \in Jobs : k # i => arms'[k] = arms[k]
    BY <1>a, <2>1, OneArm DEF ArmMoves, TypeOK
  <2>3. /\ active'[i] = active[i] \/ (active[i] = m /\ active'[i] = 0)
        /\ \A k \in Jobs : k # i => active'[k] = active[k]
        /\ ArmMatches(arms[i][m], Owns(i, m)) => ArmMatches(a, active'[i] = m)
    BY <2>1 DEF ArmMoves
  <2>4. CASE j # i
    BY <1>a, <2>2, <2>3, <2>4
  <2>5. CASE j = i /\ n = m
    BY <1>a, <2>2, <2>3, <2>5 DEF Owns
  <2>6. CASE j = i /\ n # m
    <3>1. n \in DOMAIN arms[j] /\ n # 0 /\ arms'[j][n] = arms[j][n]
      BY <1>b, <2>2, <2>6
    <3>2. (active'[j] = n) <=> (active[j] = n)
      BY <2>3, <2>6, <3>1
    <3>3. ArmMatches(arms[j][n], active[j] = n)
      BY <1>a, <3>1
    <3> QED BY <3>1, <3>2, <3>3 DEF ArmMatches
  <2> QED BY <2>4, <2>5, <2>6
<1>4. CASE Restart
  BY <1>4 DEF Restart
<1> QED BY <1>1, <1>2, <1>3, <1>4 DEF Next, UpdateJob, ListJobs, vars

\* Every step keeps the budget.
LEMMA NextBudget ==
    ASSUME IInv, [Next]_vars
    PROVE  Budget'
<1> SUFFICES ASSUME NEW j \in Jobs
             PROVE  Paid(j)'
  BY DEF Budget
<1>1. Paid(j)
  BY DEF IInv, Budget
<1>2. ASSUME NEW i \in Jobs, NEW n \in DOMAIN arms[i], ArmStep(i, n) \/ ChildExits(i, n)
      PROVE  Paid(j)'
  <2>1. PICK a \in Arm : ArmMoves(i, n, a)
    BY <1>2, ArmStepMoves DEF IInv
  <2>2. CASE i = j
    BY <2>1, <2>2, ArmStepPaid
  <2>3. CASE i # j
    <3>1. arms'[j] = arms[j]
      BY <2>1, <2>3, OneArm DEF ArmMoves, IInv, TypeOK
    <3> QED BY <1>1, <2>1, <2>3, <3>1, OtherPaid DEF ArmMoves
  <2> QED BY <2>2, <2>3
<1>3. CASE UNCHANGED vars
  BY <1>1, <1>3, OtherPaid DEF vars
<1> QED BY <1>2, <1>3, UpdatePaid, ListPaid, ReconcilePaid, RestartPaid DEF Next

LEMMA NextIInv == IInv /\ [Next]_vars => IInv'
BY NextTypeOK, NextArmsMatch, NextBudget DEF IInv

\* Type correctness of reconciles, arms and restarts
THEOREM TypeCorrect == Spec => []TypeOK
<1>1. IInv => TypeOK
  BY DEF IInv
<1> QED BY InitIInv, NextIInv, <1>1, PTL DEF Spec

\* However often the owner edits a job, spawns, waits and writes fail and the
\* gateway restarts: the job runs at most once for each time it was enabled.
THEOREM OneRunPerRequest == Spec => []RunsOncePerRequest
<1>1. IInv => RunsOncePerRequest
  <2> SUFFICES ASSUME IInv, NEW j \in Jobs
               PROVE  runs[j] <= wanted[j]
    BY DEF RunsOncePerRequest
  <2>1. /\ Cardinality(MayFire(j)) \in Nat /\ runs[j] \in Nat /\ wanted[j] \in Nat
        /\ Paid(j)
    BY MayFireFinite, TypesOfJob DEF IInv, Budget
  <2>2. Credit(j) \in 0 .. 2
    BY CreditType
  <2> QED BY <2>1, <2>2 DEF Paid
<1> QED BY InitIInv, NextIInv, <1>1, PTL DEF Spec

\* No interleaving of cancels, edits and spawns leaves a child that runs on
\* without a watcher.
THEOREM ChildrenAreWatched == Spec => []NoOrphanChild
<1>1. IInv => NoOrphanChild
  BY DEF IInv, ArmsMatch, ArmMatches, Owns, NoOrphanChild
<1> QED BY InitIInv, NextIInv, <1>1, PTL DEF Spec

\* A child that the gateway ended itself never makes its job run.
THEOREM OnlyExitsFire == Spec => []RunsOnlyAfterExit
<1>1. IInv => RunsOnlyAfterExit
  BY DEF IInv, ArmsMatch, ArmMatches, RunsOnlyAfterExit
<1> QED BY InitIInv, NextIInv, <1>1, PTL DEF Spec
=============================================================================
