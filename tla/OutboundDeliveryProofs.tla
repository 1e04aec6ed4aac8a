------------------------ MODULE OutboundDeliveryProofs ------------------------
(***************************************************************************)
(* Theorems about OutboundDelivery and their proofs.                       *)
(***************************************************************************)
EXTENDS OutboundDelivery, FiniteSetTheorems, TLAPS

-----------------------------------------------------------------------------
(* The inductive invariant.  It speaks of one sender x, and of the options *)
(* o, the row r, the copies c, the waived units w and the hooks h of the   *)
(* delivery it works on, so that a step is a fact about these alone.       *)

NoCopies(c) == \A u \in Unit : c[u] = 0
SomeCopy(c) == \E u \in Unit : c[u] > 0

\* The sender is past its claim and before its release.
InCharge(x) == x.phase \notin {"idle", "queued", "next", "done"}

\* The loop of deliverOutboundPayloadsCore
InCore(x) == x.phase \in {"ready", "started", "dispatched", "reporting"}

\* No part of an attempt has happened.
Clean(x) == /\ x.unit = 1 /\ x.results = 0
            /\ x.pre = "none" /\ x.post = "none" /\ x.error = "none"
            /\ ~x.partial /\ x.allPre

\* What kind of sender is in which phase, and has a row
Shape(s, x) ==
    /\ s \in Deliveries => /\ x.delivery = s
                           /\ x.phase \notin {"next", "claimed", "reconciling"}
                           /\ x.phase = "queued" => x.queued
    /\ s \in Loops => /\ ~x.queued
                      /\ x.phase \notin {"queued", "done"}
                      /\ InCharge(x) => x.delivery \in Deliveries
    /\ ~InCharge(x) => Clean(x)

Keeps(s, x) == s \in Loops \/ x.queued

\* The unit a sender has come to, and what the platform has seen
Progress(x, o, c) ==
    /\ x.unit <= o.units + 1
    /\ x.phase \in {"started", "dispatched", "reporting"} => x.unit <= o.units
    /\ x.phase \in {"ready", "started", "dispatched"} =>
         \A u \in Unit : u >= x.unit => c[u] = 0
    /\ x.phase = "reporting" =>
         c[x.unit] = 1 /\ \A u \in Unit : u > x.unit => c[u] = 0
    /\ InCore(x) => x.results < x.unit
    /\ x.results > 0 => SomeCopy(c)
    /\ x.phase # "threw" => x.error = "none"
    /\ InCore(x) /\ ~o.bestEffort => x.allPre
    /\ x.error = "pre" => x.allPre
    /\ x.results = 0 /\ x.allPre /\ x.error \in {"none", "pre"}
         /\ x.phase \notin {"reporting", "claimed", "reconciling"} => NoCopies(c)

\* What was given up, of a delivery that nothing was sent of
GivenUp(x, w) ==
    /\ InCore(x) /\ x.unit > 1 /\ ~x.partial /\ x.results = 0 => w # {}
    /\ x.phase = "finishing" /\ x.results = 0 /\ ~(x.partial /\ x.queued) => w # {}
    /\ x.error = "abort" => w # {}

\* What the row of a sender says of its attempt
OnRow(x, o, r) ==
    /\ r.status \in {"pending", "acked"}
    /\ x.phase \in {"claimed", "reconciling"} =>
         /\ r.status = "pending" /\ Clean(x)
         /\ x.entryState = r.recoveryState
         /\ x.phase = "reconciling" => x.entryState # "none"
    /\ x.pre = "marked" /\ r.status = "pending" => r.recoveryState # "none"
    /\ x.pre = "acked" => r.status = "acked"
    /\ x.post = "acked" => r.status = "acked"
    /\ x.phase = "started" /\ ~o.exact => x.pre # "none"
    /\ x.phase \in {"dispatched", "reporting"} => x.pre # "none"
    /\ x.results > 0 => x.pre # "none"
    /\ x.post = "failed" => IF x.phase = "finishing" THEN x.queued ELSE x.results > 0
    /\ x.post # "none" => x.results > 0 \/ x.queued
    /\ r.status = "pending" /\ x.post # "failed" => r.retryCount < MaxRetries
    /\ x.results = 0 /\ x.phase \notin {"claimed", "reconciling"}
         /\ ~(x.phase = "finishing" /\ ~x.partial /\ x.queued)
         /\ r.status = "pending" =>
           r.recoveryState # "unknown_after_send"

\* A live send without a row
Direct(x, r) == r.status = "none" /\ (InCore(x) \/ x.phase = "threw")

Local(s, x, o, r, c, w, h) ==
    /\ h = 0
    /\ Progress(x, o, c)
    /\ GivenUp(x, w)
    /\ IF Keeps(s, x) THEN OnRow(x, o, r) ELSE Direct(x, r)

\* What a row says, whoever works on it
RowSound(o, r, c, w, h) ==
    /\ r.status = "none" => r.recoveryState = "none" /\ r.retryCount = 0
    /\ r.status = "pending" /\ SomeCopy(c) => r.recoveryState # "none"
    /\ r.status = "acked" /\ o.required => SomeCopy(c) \/ w # {}
    /\ h <= 1
    /\ h = 1 => r.status \in {"acked", "none"}
    /\ \A u \in Unit : c[u] <= 1

\* A live send that has not begun
Waits(x, r, c, h) ==
    /\ x.phase = "idle" => r.status = "none" /\ NoCopies(c) /\ h = 0
    /\ x.phase = "queued" => /\ r.status = "pending"
                             /\ r.recoveryState = "none"
                             /\ r.retryCount = 0

IInv ==
    /\ TypeOK
    /\ option \in [Deliveries -> Options]
    /\ \A s \in Senders : Shape(s, sender[s])
    /\ \A s \in Senders : InCharge(sender[s]) =>
         LET d == sender[s].delivery
         IN  /\ Local(s, sender[s], option[d], row[d], copies[d], waived[d], hooks[d])
             /\ Keeps(s, sender[s]) => d \in entriesInProgress
             /\ s \in Loops /\ sender[s].phase # "claimed" => sender[d].phase # "queued"
    /\ \A s, t \in Senders :
         InCharge(sender[s]) /\ InCharge(sender[t])
           /\ sender[s].delivery = sender[t].delivery => s = t
    /\ \A d \in entriesInProgress : \E s \in Senders :
         InCharge(sender[s]) /\ sender[s].delivery = d /\ Keeps(s, sender[s])
    /\ \A d \in Deliveries :
         /\ RowSound(option[d], row[d], copies[d], waived[d], hooks[d])
         /\ Waits(sender[d], row[d], copies[d], hooks[d])

-----------------------------------------------------------------------------
(* Steps that change one sender and one delivery.                          *)

\* The step makes x of the sender s, and r, c, w, h of the delivery d.
Changes(s, d, x, r, c, w, h) ==
    /\ sender' = [sender EXCEPT ![s] = x]
    /\ row' = [row EXCEPT ![d] = r]
    /\ copies' = [copies EXCEPT ![d] = c]
    /\ waived' = [waived EXCEPT ![d] = w]
    /\ hooks' = [hooks EXCEPT ![d] = h]
    /\ option' = option
    /\ crashes' = crashes

Typed(x, r, c, w, h) ==
    /\ x \in Sender
    /\ r \in Row
    /\ c \in [Unit -> Nat]
    /\ w \in SUBSET Unit
    /\ h \in Nat

\* A step of the row r and the copies c of a delivery with options o, as the
\* abstract queue allows it, that takes no evidence back
Moved(o, r, q, c, n) ==
    /\ \/ q.status = r.status /\ n = c
       \/ /\ q.status = r.status /\ r.status # "failed"
          /\ \E u \in Unit : c[u] = 0 /\ n = [c EXCEPT ![u] = 1]
       \/ r.status = "none" /\ q.status = "pending" /\ n = c
       \/ r.status = "pending" /\ q.status \in {"acked", "failed"} /\ n = c
    /\ \/ o.dispatches
       \/ r.status = "pending" /\ r.recoveryState = "unknown_after_send"
            => q.recoveryState = "unknown_after_send"

Moves ==
    \/ UNCHANGED <<row, copies>>
    \/ \E d \in Deliveries, q \in Row, n \in [Unit -> Nat] :
         /\ row' = [row EXCEPT ![d] = q]
         /\ copies' = [copies EXCEPT ![d] = n]
         /\ Moved(option[d], row[d], q, copies[d], n)

\* What every step of the specification does
Advances == IInv' /\ Moves

\* A step on a delivery that no other sender is in charge of
LEMMA Frame ==
    ASSUME IInv, NEW s \in Senders, NEW d \in Deliveries,
           NEW x, NEW r, NEW c, NEW w, NEW h, Typed(x, r, c, w, h),
           Changes(s, d, x, r, c, w, h),
           Moved(option[d], row[d], r, copies[d], c),
           s \in Deliveries => s = d,
           InCharge(sender[s]) => sender[s].delivery = d,
           \A t \in Senders : t # s /\ InCharge(sender[t]) => sender[t].delivery # d,
           Shape(s, x),
           InCharge(x) =>
             /\ x.delivery = d
             /\ Local(s, x, option[d], r, c, w, h)
             /\ s \in Loops /\ x.phase # "claimed" => sender[d].phase # "queued",
           RowSound(option[d], r, c, w, h),
           Waits(IF s = d THEN x ELSE sender[d], r, c, h),
           entriesInProgress' = IF InCharge(x) /\ Keeps(s, x)
                                THEN entriesInProgress \cup {d}
                                ELSE entriesInProgress \ {d}
    PROVE  Advances
<1>a. /\ TypeOK /\ option \in [Deliveries -> Options]
      /\ \A t \in Senders : Shape(t, sender[t])
      /\ \A t \in Senders : InCharge(sender[t]) =>
           LET e == sender[t].delivery
           IN  /\ Local(t, sender[t], option[e], row[e], copies[e], waived[e], hooks[e])
               /\ Keeps(t, sender[t]) => e \in entriesInProgress
               /\ t \in Loops /\ sender[t].phase # "claimed" => sender[e].phase # "queued"
      /\ \A t, u \in Senders :
           InCharge(sender[t]) /\ InCharge(sender[u])
             /\ sender[t].delivery = sender[u].delivery => t = u
      /\ \A e \in entriesInProgress : \E t \in Senders :
           InCharge(sender[t]) /\ sender[t].delivery = e /\ Keeps(t, sender[t])
      /\ \A e \in Deliveries :
           /\ RowSound(option[e], row[e], copies[e], waived[e], hooks[e])
           /\ Waits(sender[e], row[e], copies[e], hooks[e])
  BY DEF IInv
<1>b. /\ Senders = Deliveries \cup Loops
      /\ Deliveries \cap Loops = {}
  BY ConstantsAssumption DEF Senders
<1>1. TypeOK' /\ option' \in [Deliveries -> Options]
  BY <1>a DEF TypeOK, Changes, Typed
<1>c. /\ \A t \in Senders : sender'[t] = IF t = s THEN x ELSE sender[t]
      /\ \A e \in Deliveries :
           /\ row'[e] = IF e = d THEN r ELSE row[e]
           /\ copies'[e] = IF e = d THEN c ELSE copies[e]
           /\ waived'[e] = IF e = d THEN w ELSE waived[e]
           /\ hooks'[e] = IF e = d THEN h ELSE hooks[e]
           /\ option'[e] = option[e]
  BY <1>a DEF TypeOK, Changes
<1>d. \A t \in Senders : InCharge(sender[t]) => sender[t].delivery \in Deliveries
  BY <1>a, <1>b DEF Shape
<1>2. \A t \in Senders : Shape(t, sender'[t])
  BY <1>a, <1>c
<1>3. ASSUME NEW t \in Senders, InCharge(sender'[t])
      PROVE  LET e == sender'[t].delivery
             IN  /\ Local(t, sender'[t], option'[e], row'[e], copies'[e], waived'[e], hooks'[e])
                 /\ Keeps(t, sender'[t]) => e \in entriesInProgress'
                 /\ t \in Loops /\ sender'[t].phase # "claimed" => sender'[e].phase # "queued"
  <2>1. CASE t = s
    <3>1. sender'[t] = x /\ x.delivery = d
      BY <1>3, <1>c, <2>1
    <3>2. t \in Loops => sender'[d] = sender[d]
      BY <1>b, <1>c, <2>1
    <3> QED BY <1>3, <1>c, <2>1, <3>1, <3>2
  <2>2. CASE t # s
    <3>1. sender'[t] = sender[t]
      BY <1>c, <2>2
    <3> DEFINE e == sender[t].delivery
    <3>2. e \in Deliveries /\ e # d /\ e # s
      BY <1>3, <1>d, <2>2, <3>1
    <3>3. /\ row'[e] = row[e] /\ copies'[e] = copies[e] /\ waived'[e] = waived[e]
          /\ hooks'[e] = hooks[e] /\ option'[e] = option[e] /\ sender'[e] = sender[e]
          /\ e \in entriesInProgress => e \in entriesInProgress'
      BY <1>b, <1>c, <3>2
    <3>4. /\ Local(t, sender[t], option[e], row[e], copies[e], waived[e], hooks[e])
          /\ Keeps(t, sender[t]) => e \in entriesInProgress
          /\ t \in Loops /\ sender[t].phase # "claimed" => sender[e].phase # "queued"
      BY <1>a, <1>3, <3>1
    <3> HIDE DEF e
    <3>5. /\ Local(t, sender'[t], option'[e], row'[e], copies'[e], waived'[e], hooks'[e])
          /\ Keeps(t, sender'[t]) => e \in entriesInProgress'
          /\ t \in Loops /\ sender'[t].phase # "claimed" => sender'[e].phase # "queued"
      BY <3>1, <3>3, <3>4
    <3> QED BY <3>1, <3>5 DEF e
  <2> QED BY <2>1, <2>2
<1>4. ASSUME NEW t \in Senders, NEW u \in Senders,
             InCharge(sender'[t]), InCharge(sender'[u]),
             sender'[t].delivery = sender'[u].delivery
      PROVE  t = u
  BY <1>a, <1>4, <1>c
<1>5. ASSUME NEW e \in entriesInProgress'
      PROVE  \E t \in Senders :
               InCharge(sender'[t]) /\ sender'[t].delivery = e /\ Keeps(t, sender'[t])
  <2>1. CASE e = d
    <3>1. InCharge(x) /\ Keeps(s, x) /\ x.delivery = d
      BY <1>5, <2>1
    <3> QED BY <1>c, <2>1, <3>1
  <2>2. CASE e # d
    <3>1. PICK t \in Senders :
            InCharge(sender[t]) /\ sender[t].delivery = e /\ Keeps(t, sender[t])
      BY <1>a, <1>5, <2>2
    <3>2. t # s
      BY <2>2, <3>1
    <3> QED BY <1>c, <3>1, <3>2
  <2> QED BY <2>1, <2>2
<1>6. ASSUME NEW e \in Deliveries
      PROVE  /\ RowSound(option'[e], row'[e], copies'[e], waived'[e], hooks'[e])
             /\ Waits(sender'[e], row'[e], copies'[e], hooks'[e])
  <2>1. CASE e = d
    <3>1. sender'[d] = IF s = d THEN x ELSE sender[d]
      BY <1>b, <1>c
    <3> QED BY <1>c, <2>1, <3>1
  <2>2. CASE e # d
    <3>1. sender'[e] = sender[e]
      BY <1>b, <1>c, <2>2
    <3> QED BY <1>a, <1>c, <2>2, <3>1
  <2> QED BY <2>1, <2>2
<1>7. Moves
  BY DEF Moves, Changes, Typed
<1> QED BY <1>1, <1>2, <1>3, <1>4, <1>5, <1>6, <1>7 DEF IInv, Advances

\* A step of a sender that is and stays in charge of nothing
LEMMA Quiet ==
    ASSUME IInv, NEW s \in Senders, NEW x \in Sender,
           sender' = [sender EXCEPT ![s] = x],
           UNCHANGED <<row, option, copies, waived, hooks, entriesInProgress, crashes>>,
           ~InCharge(sender[s]), ~InCharge(x), Shape(s, x),
           x.phase \notin {"idle", "queued"} \/ s \in Loops
    PROVE  Advances
<1>b. /\ Senders = Deliveries \cup Loops
      /\ Deliveries \cap Loops = {}
  BY ConstantsAssumption DEF Senders
<1>1. TypeOK' /\ option' \in [Deliveries -> Options]
  BY DEF IInv, TypeOK
<1>2. \A t \in Senders : sender'[t] = IF t = s THEN x ELSE sender[t]
  BY DEF IInv, TypeOK
<1>3. \A t \in Senders : InCharge(sender'[t]) => t # s /\ sender'[t] = sender[t]
  BY <1>2
<1>4. \A e \in Deliveries : sender'[e].phase \in {"idle", "queued"} => sender'[e] = sender[e]
  BY <1>b, <1>2
<1>5. \A t \in Senders : Shape(t, sender'[t])
  BY <1>2 DEF IInv
<1>d. \A t \in Senders : InCharge(sender[t]) => sender[t].delivery \in Deliveries
  BY <1>b DEF IInv, Shape
<1>6. ASSUME NEW t \in Senders, InCharge(sender'[t])
      PROVE  LET e == sender'[t].delivery
             IN  /\ Local(t, sender'[t], option'[e], row'[e], copies'[e], waived'[e], hooks'[e])
                 /\ Keeps(t, sender'[t]) => e \in entriesInProgress'
                 /\ t \in Loops /\ sender'[t].phase # "claimed" => sender'[e].phase # "queued"
  BY <1>3, <1>4, <1>6, <1>d DEF IInv
<1>7. \A t, u \in Senders :
        InCharge(sender'[t]) /\ InCharge(sender'[u])
          /\ sender'[t].delivery = sender'[u].delivery => t = u
  BY <1>3 DEF IInv
<1>8. ASSUME NEW e \in entriesInProgress'
      PROVE  \E t \in Senders :
               InCharge(sender'[t]) /\ sender'[t].delivery = e /\ Keeps(t, sender'[t])
  <2>1. PICK t \in Senders :
          InCharge(sender[t]) /\ sender[t].delivery = e /\ Keeps(t, sender[t])
    BY DEF IInv
  <2>2. sender'[t] = sender[t]
    BY <1>2, <2>1
  <2> QED BY <2>1, <2>2
<1>9. ASSUME NEW e \in Deliveries
      PROVE  /\ RowSound(option'[e], row'[e], copies'[e], waived'[e], hooks'[e])
             /\ Waits(sender'[e], row'[e], copies'[e], hooks'[e])
  BY <1>4 DEF IInv, Waits
<1> QED BY <1>1, <1>5, <1>6, <1>7, <1>8, <1>9 DEF IInv, Advances, Moves

\* What is known of a sender x in charge, and of its delivery
Good(s, x, o, r, c, w, h) ==
    /\ Typed(x, r, c, w, h)
    /\ o \in Option /\ (o.exact => o.dispatches)
    /\ Shape(s, x)
    /\ InCharge(x)
    /\ Local(s, x, o, r, c, w, h)
    /\ RowSound(o, r, c, w, h)

LEMMA InChargeIsGood ==
    ASSUME IInv, NEW s \in Senders, InCharge(sender[s])
    PROVE  LET d == sender[s].delivery
           IN  /\ d \in Deliveries
               /\ s \in Deliveries => s = d
               /\ Good(s, sender[s], option[d], row[d], copies[d], waived[d], hooks[d])
               /\ d \in entriesInProgress <=> Keeps(s, sender[s])
               /\ \A t \in Senders : t # s /\ InCharge(sender[t]) => sender[t].delivery # d
<1>b. Senders = Deliveries \cup Loops
  BY DEF Senders
<1> DEFINE d == sender[s].delivery
<1>1. Shape(s, sender[s])
  BY DEF IInv
<1>2. d \in Deliveries /\ (s \in Deliveries => s = d)
  BY <1>1, <1>b DEF Shape
<1>3. option[d] \in Options
  BY <1>2 DEF IInv
<1>4. option[d] \in Option /\ (option[d].exact => option[d].dispatches)
  BY <1>3, ConstantsAssumption
<1>5. Typed(sender[s], row[d], copies[d], waived[d], hooks[d])
  BY <1>2 DEF IInv, TypeOK, Typed
<1>6. Local(s, sender[s], option[d], row[d], copies[d], waived[d], hooks[d])
      /\ (Keeps(s, sender[s]) => d \in entriesInProgress)
  BY DEF IInv
<1>7. RowSound(option[d], row[d], copies[d], waived[d], hooks[d])
  BY <1>2 DEF IInv
<1>8. \A t \in Senders : t # s /\ InCharge(sender[t]) => sender[t].delivery # d
  BY DEF IInv
<1>9. d \in entriesInProgress => Keeps(s, sender[s])
  <2>1. SUFFICES ASSUME d \in entriesInProgress PROVE Keeps(s, sender[s])
    OBVIOUS
  <2>2. PICK t \in Senders :
          InCharge(sender[t]) /\ sender[t].delivery = d /\ Keeps(t, sender[t])
    BY <2>1 DEF IInv
  <2> QED BY <1>8, <2>2
<1> QED BY <1>1, <1>2, <1>4, <1>5, <1>6, <1>7, <1>8, <1>9 DEF Good

\* A sender in charge goes on, and stays in charge.
LEMMA GoesOn ==
    ASSUME IInv, NEW s \in Senders, InCharge(sender[s]),
           NEW x, NEW r, NEW c, NEW w,
           LET d == sender[s].delivery
           IN  /\ Changes(s, d, x, r, c, w, hooks[d])
               /\ Good(s, x, option[d], r, c, w, hooks[d])
               /\ x.delivery = d /\ x.queued = sender[s].queued
               /\ Moved(option[d], row[d], r, copies[d], c)
               /\ sender[s].phase = "claimed" =>
                    /\ r = row[d] /\ c = copies[d]
                    /\ sender[d].phase # "queued",
           UNCHANGED entriesInProgress
    PROVE  Advances
<1>b. /\ Senders = Deliveries \cup Loops
      /\ Deliveries \cap Loops = {}
  BY ConstantsAssumption DEF Senders
<1> DEFINE d == sender[s].delivery
<1>1. /\ d \in Deliveries
      /\ s \in Deliveries => s = d
      /\ Good(s, sender[s], option[d], row[d], copies[d], waived[d], hooks[d])
      /\ d \in entriesInProgress <=> Keeps(s, sender[s])
      /\ \A t \in Senders : t # s /\ InCharge(sender[t]) => sender[t].delivery # d
  BY InChargeIsGood
<1>2. /\ Changes(s, d, x, r, c, w, hooks[d])
      /\ Typed(x, r, c, w, hooks[d])
      /\ Shape(s, x)
      /\ InCharge(x)
      /\ Local(s, x, option[d], r, c, w, hooks[d])
      /\ RowSound(option[d], r, c, w, hooks[d])
      /\ x.delivery = d
      /\ Keeps(s, x) <=> Keeps(s, sender[s])
  BY DEF Good, Keeps
<1>3. s \in Loops => sender[d].phase # "queued"
  <2>1. CASE sender[s].phase = "claimed"
    BY <2>1
  <2>2. CASE sender[s].phase # "claimed"
    BY <2>2 DEF IInv
  <2> QED BY <2>1, <2>2
<1>4. Waits(IF s = d THEN x ELSE sender[d], r, c, hooks[d])
  <2>1. CASE s = d
    BY <1>2, <2>1 DEF Waits, InCharge
  <2>2. CASE s # d
    <3>1. s \in Loops
      BY <1>1, <1>b, <2>2
    <3>2. row[d].status # "none"
      BY <1>1, <3>1 DEF Good, Local, Keeps, OnRow
    <3>3. sender[d].phase # "idle"
      BY <1>1, <3>2 DEF IInv, Waits
    <3> QED BY <1>3, <2>2, <3>1, <3>3 DEF Waits
  <2> QED BY <2>1, <2>2
<1>5. entriesInProgress' = IF InCharge(x) /\ Keeps(s, x)
                           THEN entriesInProgress \cup {d}
                           ELSE entriesInProgress \ {d}
  BY <1>1, <1>2
<1>6. InCharge(sender[s]) => sender[s].delivery = d
  OBVIOUS
<1>7. InCharge(x) =>
        /\ x.delivery = d
        /\ Local(s, x, option[d], r, c, w, hooks[d])
        /\ s \in Loops /\ x.phase # "claimed" => sender[d].phase # "queued"
  BY <1>2, <1>3
<1> HIDE DEF d
<1> QED BY <1>1, <1>2, <1>4, <1>5, <1>6, <1>7, Frame

\* A sender in charge releases its delivery.
LEMMA Releases ==
    ASSUME IInv, NEW s \in Senders, InCharge(sender[s]),
           NEW x, NEW r, NEW h,
           LET d == sender[s].delivery
           IN  /\ Changes(s, d, x, r, copies[d], waived[d], h)
               /\ x \in Sender /\ r \in Row /\ h \in Nat
               /\ RowSound(option[d], r, copies[d], waived[d], h)
               /\ Moved(option[d], row[d], r, copies[d], copies[d])
               /\ sender[s].phase = "claimed" => r = row[d] /\ h = hooks[d]
               /\ entriesInProgress' = entriesInProgress \ {d},
           Shape(s, x), ~InCharge(x), x.phase \notin {"idle", "queued"} \/ s \in Loops
    PROVE  Advances
<1>b. /\ Senders = Deliveries \cup Loops
      /\ Deliveries \cap Loops = {}
  BY ConstantsAssumption DEF Senders
<1> DEFINE d == sender[s].delivery
<1>1. /\ d \in Deliveries
      /\ s \in Deliveries => s = d
      /\ Good(s, sender[s], option[d], row[d], copies[d], waived[d], hooks[d])
      /\ \A t \in Senders : t # s /\ InCharge(sender[t]) => sender[t].delivery # d
  BY InChargeIsGood
<1>2. /\ Changes(s, d, x, r, copies[d], waived[d], h)
      /\ Typed(x, r, copies[d], waived[d], h)
      /\ RowSound(option[d], r, copies[d], waived[d], h)
      /\ entriesInProgress' = entriesInProgress \ {d}
  BY <1>1 DEF Good, Typed
<1>4. Waits(IF s = d THEN x ELSE sender[d], r, copies[d], h)
  <2>1. CASE s = d
    BY <1>b, <1>1, <2>1 DEF Waits
  <2>2. CASE s # d
    <3>1. s \in Loops
      BY <1>1, <1>b, <2>2
    <3>2. row[d].status # "none"
      BY <1>1, <3>1 DEF Good, Local, Keeps, OnRow
    <3>3. sender[d].phase # "idle"
      BY <1>1, <3>2 DEF IInv, Waits
    <3>4. CASE sender[s].phase = "claimed"
      BY <1>1, <2>2, <3>4 DEF IInv
    <3>5. CASE sender[s].phase # "claimed"
      BY <2>2, <3>1, <3>3, <3>5 DEF IInv, Waits
    <3> QED BY <3>4, <3>5
  <2> QED BY <2>1, <2>2
<1> HIDE DEF d
<1>5. InCharge(sender[s]) => sender[s].delivery = d
  BY DEF d
<1> QED BY <1>1, <1>2, <1>4, <1>5, Frame

-----------------------------------------------------------------------------
(* The calls of the store.                                                 *)

Acked(r) == IF r.status = "pending" THEN [r EXCEPT !.status = "acked"] ELSE r
Sent(r) == [r EXCEPT !.recoveryState = "send_attempt_started"]
Unknown(r) == [r EXCEPT !.recoveryState = "unknown_after_send"]
Tried(r) == [r EXCEPT !.retryCount = @ + 1]
TriedUnknown(r) == [r EXCEPT !.retryCount = @ + 1, !.recoveryState = "unknown_after_send"]
TriedClean(r) == [r EXCEPT !.retryCount = @ + 1, !.recoveryState = "none"]
DeadLetter(r) == [r EXCEPT !.status = "failed"]

\* A call returns with the new row or throws with the old one.
LEMMA CallOutcome ==
    ASSUME NEW r, NEW new, NEW can \in BOOLEAN, NEW m \in Call(r, new, can)
    PROVE  \/ can /\ m.ok = TRUE /\ m.row = new
           \/ m.ok = FALSE /\ m.row = r
BY DEF Call

LEMMA UpdateOutcome ==
    ASSUME NEW r, NEW new, NEW m \in Update(r, new)
    PROVE  \/ r.status = "pending" /\ m.ok = TRUE /\ m.row = new
           \/ m.ok = FALSE /\ m.row = r
BY CallOutcome DEF Update

LEMMA AckOutcome ==
    ASSUME NEW r, NEW m \in AckDelivery(r)
    PROVE  \/ m.ok = TRUE /\ m.row = Acked(r)
           \/ m.ok = FALSE /\ m.row = r
<1>1. m \in Call(r, Acked(r), TRUE)
  BY DEF AckDelivery, Acked
<1> QED BY <1>1, CallOutcome

LEMMA FailureOutcome ==
    ASSUME NEW r, NEW pre \in BOOLEAN, NEW m \in RecordFailure(r, pre)
    PROVE  \/ /\ r.status = "pending" /\ m.ok = TRUE
              /\ m.row = IF pre THEN TriedClean(r) ELSE Tried(r)
           \/ m.ok = FALSE /\ m.row = r
BY UpdateOutcome DEF RecordFailure, FailDeliveryBeforePlatformSend, FailDelivery,
     TriedClean, Tried

LEMMA PreSendOutcome ==
    ASSUME NEW r, NEW required \in BOOLEAN, NEW m \in PersistPreSendState(r, required)
    PROVE  \/ r.status = "pending" /\ m.state = "marked" /\ m.row = Sent(r)
           \/ ~required /\ m.state = "acked" /\ m.row = Acked(r)
           \/ m.state = "threw" /\ m.row = r
<1>1. PICK k \in MarkSendStarted(r) :
        m \in IF k.ok THEN {[row |-> k.row, state |-> "marked"]}
              ELSE IF required THEN {[row |-> k.row, state |-> "threw"]}
              ELSE {[row |-> a.row, state |-> IF a.ok THEN "acked" ELSE "threw"] :
                      a \in AckDelivery(k.row)}
  BY DEF PersistPreSendState
<1>2. \/ r.status = "pending" /\ k.ok = TRUE /\ k.row = Sent(r)
      \/ k.ok = FALSE /\ k.row = r
  BY UpdateOutcome DEF MarkSendStarted, Sent
<1>3. CASE k.ok = FALSE /\ ~required
  <2>1. PICK a \in AckDelivery(r) :
          m = [row |-> a.row, state |-> IF a.ok THEN "acked" ELSE "threw"]
    BY <1>1, <1>2, <1>3
  <2> QED BY <1>3, <2>1, AckOutcome
<1>4. CASE k.ok = TRUE
  <2>1. m = [row |-> k.row, state |-> "marked"]
    BY <1>1, <1>4
  <2> QED BY <1>2, <1>4, <2>1
<1>5. CASE k.ok = FALSE /\ required
  <2>1. m = [row |-> k.row, state |-> "threw"]
    BY <1>1, <1>5
  <2> QED BY <1>2, <1>5, <2>1
<1> QED BY <1>2, <1>3, <1>4, <1>5

LEMMA PostSendOutcome ==
    ASSUME NEW r, NEW m \in PersistPostSendState(r)
    PROVE  \/ r.status = "pending" /\ m.state = "marked" /\ m.row = Unknown(r)
           \/ m.state = "acked" /\ m.row = Acked(r)
           \/ r.status = "pending" /\ m.state = "failed" /\ m.row = TriedUnknown(r)
           \/ m.state = "threw" /\ m.row = r
<1>1. PICK k \in MarkOutcomeUnknown(r) :
        m \in IF k.ok THEN {[row |-> k.row, state |-> "marked"]}
              ELSE UNION {IF a.ok THEN {[row |-> a.row, state |-> "acked"]}
                          ELSE {[row |-> f.row,
                                 state |-> IF f.ok THEN "failed" ELSE "threw"] :
                                  f \in FailDeliveryAfterPlatformSend(a.row)} :
                          a \in AckDelivery(k.row)}
  BY DEF PersistPostSendState
<1>2. \/ r.status = "pending" /\ k.ok = TRUE /\ k.row = Unknown(r)
      \/ k.ok = FALSE /\ k.row = r
  BY UpdateOutcome DEF MarkOutcomeUnknown, Unknown
<1>3. CASE k.ok = FALSE
  <2>1. PICK a \in AckDelivery(r) :
          m \in IF a.ok THEN {[row |-> a.row, state |-> "acked"]}
                ELSE {[row |-> f.row, state |-> IF f.ok THEN "failed" ELSE "threw"] :
                        f \in FailDeliveryAfterPlatformSend(a.row)}
    BY <1>1, <1>2, <1>3
  <2>2. \/ a.ok = TRUE /\ a.row = Acked(r)
        \/ a.ok = FALSE /\ a.row = r
    BY AckOutcome
  <2>3. CASE a.ok = FALSE
    <3>1. PICK f \in FailDeliveryAfterPlatformSend(r) :
            m = [row |-> f.row, state |-> IF f.ok THEN "failed" ELSE "threw"]
      BY <2>1, <2>2, <2>3
    <3>2. \/ r.status = "pending" /\ f.ok = TRUE /\ f.row = TriedUnknown(r)
          \/ f.ok = FALSE /\ f.row = r
      BY UpdateOutcome DEF FailDeliveryAfterPlatformSend, TriedUnknown
    <3>3. CASE f.ok = TRUE
      BY <3>1, <3>2, <3>3
    <3>4. CASE f.ok = FALSE
      BY <3>1, <3>2, <3>4
    <3> QED BY <3>2, <3>3, <3>4
  <2>4. CASE a.ok = TRUE
    <3>1. m = [row |-> a.row, state |-> "acked"]
      BY <2>1, <2>4
    <3> QED BY <2>2, <2>4, <3>1
  <2> QED BY <2>2, <2>3, <2>4
<1>4. CASE k.ok = TRUE
  <2>1. m = [row |-> k.row, state |-> "marked"]
    BY <1>1, <1>4
  <2> QED BY <1>2, <1>4, <2>1
<1> QED BY <1>2, <1>3, <1>4

\* What persistQueuedPostSendState leaves, and whether it ran at all
PostState(r, post, m) ==
    \/ post # "none" /\ m.state = post /\ m.row = r
    \/ /\ post = "none"
       /\ \/ r.status = "pending" /\ m.state = "marked" /\ m.row = Unknown(r)
          \/ m.state = "acked" /\ m.row = Acked(r)
          \/ r.status = "pending" /\ m.state = "failed" /\ m.row = TriedUnknown(r)
          \/ m.state = "threw" /\ m.row = r

LEMMA PersistOnceOutcome ==
    ASSUME NEW r, NEW post, NEW m \in PersistOnce(r, post)
    PROVE  PostState(r, post, m)
BY PostSendOutcome DEF PersistOnce, PostState

-----------------------------------------------------------------------------
(* The core of a send.                                                     *)

\* The rows a sender in charge leaves behind when it releases its delivery
RowLeft(o, x, r, c, w, new) ==
    \/ new = r
    \/ new = Acked(r) /\ (o.required => SomeCopy(c) \/ w # {})
    \/ r.status = "pending" /\ new = Unknown(r)
    \/ /\ r.status = "pending" /\ x.post # "failed"
       /\ new \in {Tried(r), TriedUnknown(r)}
    \/ /\ r.status = "pending" /\ x.post # "failed" /\ NoCopies(c)
       /\ r.recoveryState # "unknown_after_send"
       /\ new = TriedClean(r)
    \/ r.status = "pending" /\ new = DeadLetter(r)

\* What these rows are to the abstract queue
LEMMA Still ==
    ASSUME NEW o, NEW r, NEW c
    PROVE  Moved(o, r, r, c, c)
BY DEF Moved

LEMMA SentMoved ==
    ASSUME NEW o, NEW r \in Row, NEW c,
           o.dispatches \/ (r.status = "pending" => r.recoveryState # "unknown_after_send")
    PROVE  Moved(o, r, Sent(r), c, c)
BY DEF Moved, Sent, Row

LEMMA LeftMoved ==
    ASSUME NEW o, NEW x, NEW r \in Row, NEW c, NEW w, NEW new, RowLeft(o, x, r, c, w, new)
    PROVE  Moved(o, r, new, c, c)
<1>1. CASE new = r
  BY <1>1, Still
<1>2. CASE new = Acked(r)
  BY <1>2 DEF Acked, Moved, Row
<1>3. CASE new = Unknown(r)
  BY <1>3 DEF Unknown, Moved, Row
<1>4. CASE new \in {Tried(r), TriedUnknown(r)}
  BY <1>4 DEF Tried, TriedUnknown, Moved, Row
<1>5. CASE r.recoveryState # "unknown_after_send" /\ new = TriedClean(r)
  BY <1>5 DEF TriedClean, Moved, Row
<1>6. CASE r.status = "pending" /\ new = DeadLetter(r)
  BY <1>6 DEF DeadLetter, Moved, Row
<1> QED BY <1>1, <1>2, <1>3, <1>4, <1>5, <1>6 DEF RowLeft

LEMMA PostStateMoved ==
    ASSUME NEW o, NEW r \in Row, NEW c, NEW post, NEW m, PostState(r, post, m)
    PROVE  Moved(o, r, m.row, c, c)
<1>1. m.row \in {r, Unknown(r), Acked(r), TriedUnknown(r)}
  BY DEF PostState
<1>2. CASE m.row = r
  BY <1>2, Still
<1>3. CASE m.row = Unknown(r)
  BY <1>3 DEF Unknown, Moved, Row
<1>4. CASE m.row = Acked(r)
  BY <1>4 DEF Acked, Moved, Row
<1>5. CASE m.row = TriedUnknown(r)
  BY <1>5 DEF TriedUnknown, Moved, Row
<1> QED BY <1>1, <1>2, <1>3, <1>4, <1>5

LEMMA RowLeftSound ==
    ASSUME NEW s \in Senders, NEW x, NEW o, NEW r, NEW c, NEW w, NEW h, NEW new, NEW k,
           Good(s, x, o, r, c, w, h), Keeps(s, x), RowLeft(o, x, r, c, w, new),
           k = h \/ (k = h + 1 /\ new.status = "acked")
    PROVE  new \in Row /\ k \in Nat /\ RowSound(o, new, c, w, k)
<1>1. /\ x \in Sender /\ r \in Row /\ c \in [Unit -> Nat] /\ h = 0
      /\ OnRow(x, o, r) /\ RowSound(o, r, c, w, 0)
  BY DEF Good, Typed, Local
<1> DEFINE n == r.retryCount + 1
<1>2. r.status = "pending" /\ x.post # "failed" => n \in 0 .. MaxRetries
  BY <1>1, ConstantsAssumption DEF OnRow, Row
<1>a. /\ Tried(r) = [r EXCEPT !.retryCount = n]
      /\ TriedUnknown(r) = [r EXCEPT !.retryCount = n, !.recoveryState = "unknown_after_send"]
      /\ TriedClean(r) = [r EXCEPT !.retryCount = n, !.recoveryState = "none"]
  BY DEF Tried, TriedUnknown, TriedClean
<1> HIDE DEF n
<1>3. r.status \in {"pending", "acked"}
  BY <1>1 DEF OnRow
<1>4. CASE new = r
  BY <1>1, <1>3, <1>4 DEF RowSound
<1>5. CASE new = Acked(r) /\ (o.required => SomeCopy(c) \/ w # {})
  BY <1>1, <1>3, <1>5 DEF RowSound, Acked, Row
<1>6. CASE r.status = "pending" /\ new = Unknown(r)
  BY <1>1, <1>6 DEF RowSound, Unknown, Row, Evidence
<1>7. CASE /\ r.status = "pending" /\ x.post # "failed"
           /\ new \in {Tried(r), TriedUnknown(r)}
  <2>1. new \in Row /\ new.status = "pending"
        /\ new.recoveryState \in {r.recoveryState, "unknown_after_send"}
    <3>1. CASE new = Tried(r)
      BY <1>1, <1>2, <1>7, <1>a, <3>1 DEF Row
    <3>2. CASE new = TriedUnknown(r)
      BY <1>1, <1>2, <1>7, <1>a, <3>2 DEF Row, Evidence
    <3> QED BY <1>7, <3>1, <3>2
  <2> QED BY <1>1, <1>7, <2>1 DEF RowSound
<1>8. CASE /\ r.status = "pending" /\ x.post # "failed" /\ NoCopies(c)
           /\ new = TriedClean(r)
  <2>1. new \in Row /\ new.status = "pending"
    BY <1>1, <1>2, <1>8, <1>a DEF Row, Evidence
  <2>2. ~SomeCopy(c)
    BY <1>8 DEF NoCopies, SomeCopy
  <2> QED BY <1>1, <2>1, <2>2 DEF RowSound
<1>9. CASE r.status = "pending" /\ new = DeadLetter(r)
  BY <1>1, <1>9 DEF RowSound, DeadLetter, Row
<1> QED BY <1>4, <1>5, <1>6, <1>7, <1>8, <1>9 DEF RowLeft

\* What is known of a sender whose unit fails with a class of error
Failing(s, x, o, r, c, w, class) ==
    /\ x \in Sender /\ o \in Option
    /\ Shape(s, x) /\ InCore(x) /\ x.error = "none" /\ x.unit <= o.units
    /\ x.results <= x.unit
    /\ \A u \in Unit : u > x.unit => c[u] = 0
    /\ x.results > 0 => SomeCopy(c)
    /\ x.results = 0 /\ x.allPre /\ class = "pre" => NoCopies(c)
    /\ ~o.bestEffort => x.allPre
    /\ class = "abort" => w # {}
    /\ IF Keeps(s, x) THEN OnRow(x, o, r) ELSE r.status = "none"

\* A unit failed: a best-effort send goes on to the next unit, any other
\* throws.
LEMMA FailedUnit ==
    ASSUME NEW s \in Senders, NEW x, NEW o, NEW r, NEW c, NEW w, NEW class,
           class \in {"pre", "permanent", "other", "abort"},
           Failing(s, x, o, r, c, w, class)
    PROVE  LET y == UnitFailed(x, o, class)
           IN  /\ y \in Sender
               /\ y.delivery = x.delivery /\ y.queued = x.queued
               /\ Shape(s, y)
               /\ InCharge(y)
               /\ Local(s, y, o, r, c, w, 0)
<1> DEFINE y == UnitFailed(x, o, class)
           n == x.unit + 1
<1> USE DEF Failing
<1>1. n \in 1 .. MaxUnits + 1 /\ n <= o.units + 1 /\ o.bestEffort \in BOOLEAN
      /\ x.unit \in Nat /\ o.units \in Nat /\ x.results \in Nat /\ x.results < n
      /\ \A u \in Unit : u >= n => u > x.unit
  BY ConstantsAssumption DEF Sender, Option, Unit
<1>a. /\ x.unit # n
      /\ \A u \in Unit : u >= n => c[u] = 0
  BY <1>1
<1>2. y = IF o.bestEffort
          THEN [x EXCEPT !.phase = "ready", !.unit = n, !.partial = TRUE,
                         !.allPre = x.allPre /\ class = "pre"]
          ELSE [x EXCEPT !.phase = "threw", !.error = class]
  BY DEF UnitFailed
<1> HIDE DEF y, n
<1>3. CASE o.bestEffort
  <2>1. /\ y \in Sender
        /\ y.phase = "ready" /\ y.unit = n /\ y.partial = TRUE
        /\ y.allPre = (x.allPre /\ class = "pre")
        /\ y.delivery = x.delivery /\ y.queued = x.queued /\ y.results = x.results
        /\ y.pre = x.pre /\ y.post = x.post /\ y.error = x.error
        /\ y.entryState = x.entryState
    BY <1>1, <1>2, <1>3 DEF Sender
  <2>2. Shape(s, y) /\ InCharge(y) /\ InCore(y)
    BY <2>1 DEF Shape, InCharge, InCore
  <2>3. Progress(y, o, c)
    BY <1>1, <1>a, <1>3, <2>1 DEF Progress, InCore
  <2>4. GivenUp(y, w)
    BY <2>1 DEF GivenUp, InCore
  <2>5. Keeps(s, x) => OnRow(y, o, r)
    BY <2>1 DEF OnRow, InCore
  <2> QED BY <2>1, <2>2, <2>3, <2>4, <2>5 DEF Local, Direct, Keeps, y
<1>4. CASE ~o.bestEffort
  <2>1. /\ y \in Sender
        /\ y.phase = "threw" /\ y.error = class
        /\ y.unit = x.unit /\ y.partial = x.partial /\ y.allPre = x.allPre
        /\ y.delivery = x.delivery /\ y.queued = x.queued /\ y.results = x.results
        /\ y.pre = x.pre /\ y.post = x.post
        /\ y.entryState = x.entryState
    BY <1>1, <1>2, <1>4 DEF Sender
  <2>2. Shape(s, y) /\ InCharge(y)
    BY <2>1 DEF Shape, InCharge, InCore
  <2>3. Progress(y, o, c)
    BY <1>1, <1>4, <2>1 DEF Progress, InCore
  <2>4. GivenUp(y, w)
    BY <2>1 DEF GivenUp, InCore
  <2>5. Keeps(s, x) => OnRow(y, o, r)
    BY <2>1 DEF OnRow, InCore
  <2> QED BY <2>1, <2>2, <2>3, <2>4, <2>5 DEF Local, Direct, Keeps, y
<1> QED BY <1>1, <1>3, <1>4

\* What a sender at a unit it has not transmitted knows
LEMMA BeforeUnit ==
    ASSUME NEW s \in Senders, NEW x, NEW o, NEW r, NEW c, NEW w, NEW h,
           Good(s, x, o, r, c, w, h),
           x.phase \in {"ready", "started", "dispatched"}, x.unit <= o.units
    PROVE  /\ x \in Sender /\ o \in Option /\ r \in Row /\ c \in [Unit -> Nat]
           /\ w \in SUBSET Unit /\ h = 0
           /\ (o.exact => o.dispatches)
           /\ Shape(s, x) /\ InCore(x) /\ x.error = "none"
           /\ x.unit \in Unit /\ c[x.unit] = 0
           /\ x.results < x.unit
           /\ \A u \in Unit : u >= x.unit => c[u] = 0
           /\ \A u \in Unit : c[u] <= 1
           /\ x.results > 0 => SomeCopy(c)
           /\ x.results = 0 /\ x.allPre => NoCopies(c)
           /\ ~o.bestEffort => x.allPre
           /\ Progress(x, o, c) /\ GivenUp(x, w) /\ RowSound(o, r, c, w, 0)
           /\ IF Keeps(s, x) THEN OnRow(x, o, r) ELSE r.status = "none"
<1>1. x \in Sender /\ o \in Option /\ r \in Row /\ c \in [Unit -> Nat]
      /\ w \in SUBSET Unit /\ h = 0 /\ (o.exact => o.dispatches)
      /\ Shape(s, x) /\ InCore(x)
      /\ Progress(x, o, c) /\ GivenUp(x, w) /\ RowSound(o, r, c, w, 0)
      /\ IF Keeps(s, x) THEN OnRow(x, o, r) ELSE r.status = "none"
  BY DEF Good, Typed, Local, Direct, InCore
<1>2. x.unit \in Unit
  BY <1>1, ConstantsAssumption DEF Sender, Option, Unit
<1>3. /\ x.error = "none"
      /\ x.results < x.unit
      /\ \A u \in Unit : u >= x.unit => c[u] = 0
      /\ x.results > 0 => SomeCopy(c)
      /\ x.results = 0 /\ x.allPre => NoCopies(c)
      /\ ~o.bestEffort => x.allPre
  BY <1>1 DEF Progress, InCore
<1>4. c[x.unit] = 0
  BY <1>2, <1>3 DEF Unit
<1>5. \A u \in Unit : c[u] <= 1
  BY <1>1 DEF RowSound
<1> QED BY <1>1, <1>2, <1>3, <1>4, <1>5

\* The unit before x fails before anything of it is transmitted.
LEMMA FailsUnseen ==
    ASSUME NEW s \in Senders, NEW x, NEW o, NEW r, NEW c, NEW w, NEW h,
           NEW class \in {"pre", "permanent", "other", "abort"},
           Good(s, x, o, r, c, w, h),
           x.phase \in {"ready", "started", "dispatched"}, x.unit <= o.units,
           class = "abort" => w # {}
    PROVE  LET y == UnitFailed(x, o, class)
           IN  /\ Good(s, y, o, r, c, w, h)
               /\ y.delivery = x.delivery /\ y.queued = x.queued
<1>1. /\ x \in Sender /\ o \in Option
      /\ h = 0
      /\ Shape(s, x) /\ InCore(x) /\ x.error = "none"
      /\ x.unit \in Unit
      /\ x.results < x.unit
      /\ \A u \in Unit : u >= x.unit => c[u] = 0
      /\ x.results > 0 => SomeCopy(c)
      /\ x.results = 0 /\ x.allPre => NoCopies(c)
      /\ ~o.bestEffort => x.allPre
      /\ IF Keeps(s, x) THEN OnRow(x, o, r) ELSE r.status = "none"
  BY BeforeUnit
<1>2. x.results <= x.unit /\ \A u \in Unit : u > x.unit => c[u] = 0
  BY <1>1 DEF Sender, Unit
<1>5. Failing(s, x, o, r, c, w, class)
  BY <1>1, <1>2 DEF Failing
<1> DEFINE y == UnitFailed(x, o, class)
<1>3. /\ y \in Sender
      /\ y.delivery = x.delivery /\ y.queued = x.queued
      /\ Shape(s, y)
      /\ InCharge(y)
      /\ Local(s, y, o, r, c, w, 0)
  BY <1>5, FailedUnit
<1> HIDE DEF y
<1>4. Good(s, y, o, r, c, w, h)
  BY <1>1, <1>3 DEF Good, Typed
<1> QED BY <1>3, <1>4 DEF y

\* The units v are given up with those of w; x, at a unit, goes on at n as y.
MovesTo(x, o, w, y, n, v) ==
    /\ x.phase \in {"ready", "started", "dispatched"} /\ x.unit <= o.units
    /\ n \in x.unit .. o.units + 1
    /\ v \in SUBSET Unit /\ w \subseteq v /\ v # {}
    /\ y = [x EXCEPT !.phase = "ready", !.unit = n]

\* The sender gives up its unit, or several, and goes on.
LEMMA MovesOn ==
    ASSUME NEW s \in Senders, NEW x, NEW o, NEW r, NEW c, NEW w, NEW h,
           Good(s, x, o, r, c, w, h),
           NEW y, NEW n, NEW v, MovesTo(x, o, w, y, n, v)
    PROVE  /\ Good(s, y, o, r, c, v, h)
           /\ y.delivery = x.delivery /\ y.queued = x.queued
<1>a. /\ x.phase \in {"ready", "started", "dispatched"} /\ x.unit <= o.units
      /\ n \in x.unit .. o.units + 1
      /\ v \in SUBSET Unit /\ w \subseteq v /\ v # {}
      /\ y = [x EXCEPT !.phase = "ready", !.unit = n]
  BY DEF MovesTo
<1>1. /\ x \in Sender /\ o \in Option /\ r \in Row /\ c \in [Unit -> Nat]
      /\ w \in SUBSET Unit /\ h = 0
      /\ (o.exact => o.dispatches)
      /\ Shape(s, x) /\ InCore(x) /\ x.error = "none"
      /\ x.unit \in Unit
      /\ x.results < x.unit
      /\ \A u \in Unit : u >= x.unit => c[u] = 0
      /\ x.results > 0 => SomeCopy(c)
      /\ x.results = 0 /\ x.allPre => NoCopies(c)
      /\ ~o.bestEffort => x.allPre
      /\ RowSound(o, r, c, w, 0)
      /\ IF Keeps(s, x) THEN OnRow(x, o, r) ELSE r.status = "none"
  BY <1>a, BeforeUnit
<1>2. /\ n \in 1 .. MaxUnits + 1 /\ n <= o.units + 1
      /\ x.unit \in Nat /\ n \in Nat /\ o.units \in Nat /\ x.results \in Nat
      /\ x.unit <= n
  BY <1>a, <1>1, ConstantsAssumption DEF Sender, Option, Unit
<1>3. /\ y \in Sender
      /\ y.phase = "ready" /\ y.unit = n
      /\ y.delivery = x.delivery /\ y.queued = x.queued /\ y.results = x.results
      /\ y.partial = x.partial /\ y.allPre = x.allPre
      /\ y.pre = x.pre /\ y.post = x.post /\ y.error = x.error
      /\ y.entryState = x.entryState
  BY <1>a, <1>1, <1>2 DEF Sender
<1>4. Shape(s, y) /\ InCharge(y) /\ InCore(y)
  BY <1>a, <1>1, <1>3 DEF Shape, InCharge, InCore
<1>5. x.results < n /\ \A u \in Unit : u >= n => c[u] = 0
  BY <1>a, <1>1, <1>2 DEF Unit
<1>6. Progress(y, o, c)
  BY <1>a, <1>1, <1>2, <1>3, <1>5 DEF Progress, InCore
<1>7. GivenUp(y, v)
  BY <1>a, <1>1, <1>3 DEF GivenUp
<1>8. Keeps(s, x) => OnRow(y, o, r)
  BY <1>a, <1>1, <1>3 DEF OnRow, InCore
<1>9. RowSound(o, r, c, v, 0)
  BY <1>a, <1>1 DEF RowSound
<1>10. Local(s, y, o, r, c, v, 0)
  BY <1>a, <1>1, <1>3, <1>4, <1>6, <1>7, <1>8 DEF Local, Direct, Keeps
<1>11. Good(s, y, o, r, c, v, h)
  BY <1>a, <1>1, <1>3, <1>4, <1>9, <1>10 DEF Good, Typed
<1> QED BY <1>3, <1>11

\* x, before its unit, goes to a phase as y, and the row r becomes new.
Takes(s, x, o, r, y, new, phase, pre, post) ==
    /\ x.phase \in {"ready", "started"} /\ x.unit <= o.units
    /\ phase \in {"started", "dispatched"}
    /\ y = [x EXCEPT !.phase = phase, !.pre = pre, !.post = post]
    /\ \/ new = r /\ pre = x.pre /\ post = x.post
       \/ /\ r.status = "pending" /\ new = Sent(r) /\ x.pre # "acked"
          /\ pre = "marked" /\ post = x.post
       \/ /\ ~o.required /\ new = Acked(r)
          /\ pre = "acked"
          /\ post = IF x.queued THEN "acked" ELSE x.post
    /\ Keeps(s, x) => pre # "none" \/ (o.exact /\ phase = "started")
    /\ ~Keeps(s, x) => new = r

\* The sender takes its unit one step further, and may write the marker or,
\* failing that, ack its row.
LEMMA TakesUnit ==
    ASSUME NEW s \in Senders, NEW x, NEW o, NEW r, NEW c, NEW w, NEW h,
           Good(s, x, o, r, c, w, h),
           NEW y, NEW new, NEW phase, NEW pre, NEW post,
           Takes(s, x, o, r, y, new, phase, pre, post)
    PROVE  /\ Good(s, y, o, new, c, w, h)
           /\ y.delivery = x.delivery /\ y.queued = x.queued
<1>a. /\ x.phase \in {"ready", "started"} /\ x.unit <= o.units
      /\ phase \in {"started", "dispatched"}
      /\ y = [x EXCEPT !.phase = phase, !.pre = pre, !.post = post]
      /\ \/ new = r /\ pre = x.pre /\ post = x.post
         \/ /\ r.status = "pending" /\ new = Sent(r) /\ x.pre # "acked"
            /\ pre = "marked" /\ post = x.post
         \/ /\ ~o.required /\ new = Acked(r)
            /\ pre = "acked"
            /\ post = IF x.queued THEN "acked" ELSE x.post
      /\ Keeps(s, x) => pre # "none" \/ (o.exact /\ phase = "started")
      /\ ~Keeps(s, x) => new = r
  BY DEF Takes
<1>1. /\ x \in Sender /\ o \in Option /\ r \in Row /\ c \in [Unit -> Nat]
      /\ w \in SUBSET Unit /\ h = 0
      /\ (o.exact => o.dispatches)
      /\ Shape(s, x) /\ InCore(x) /\ x.error = "none"
      /\ x.unit \in Unit
      /\ x.results < x.unit
      /\ \A u \in Unit : u >= x.unit => c[u] = 0
      /\ x.results > 0 => SomeCopy(c)
      /\ x.results = 0 /\ x.allPre => NoCopies(c)
      /\ ~o.bestEffort => x.allPre
      /\ Progress(x, o, c) /\ GivenUp(x, w) /\ RowSound(o, r, c, w, 0)
      /\ IF Keeps(s, x) THEN OnRow(x, o, r) ELSE r.status = "none"
  BY <1>a, BeforeUnit
<1>2. /\ pre \in {"none", "marked", "acked"}
      /\ post \in {"none", "marked", "acked", "failed"}
      /\ new \in Row
  BY <1>a, <1>1 DEF Sender, Row, Sent, Acked, Evidence
<1>3. /\ y \in Sender
      /\ y.phase = phase /\ y.unit = x.unit
      /\ y.delivery = x.delivery /\ y.queued = x.queued /\ y.results = x.results
      /\ y.partial = x.partial /\ y.allPre = x.allPre
      /\ y.pre = pre /\ y.post = post /\ y.error = x.error
      /\ y.entryState = x.entryState
  BY <1>a, <1>1, <1>2 DEF Sender
<1>4. Shape(s, y) /\ InCharge(y) /\ InCore(y)
  BY <1>a, <1>1, <1>3 DEF Shape, InCharge, InCore
<1>5. Progress(y, o, c)
  BY <1>a, <1>1, <1>3 DEF Progress, InCore
<1>6. GivenUp(y, w)
  BY <1>a, <1>1, <1>3 DEF GivenUp, InCore
<1>7. /\ new.status = r.status /\ new.recoveryState = r.recoveryState
         /\ new.retryCount = r.retryCount /\ pre = x.pre /\ post = x.post
      \/ /\ r.status = "pending" /\ new.status = "pending"
         /\ new.recoveryState = "send_attempt_started" /\ pre = "marked" /\ post = x.post
         /\ new.retryCount = r.retryCount
      \/ /\ ~o.required /\ pre = "acked" /\ (r.status = "pending" => new.status = "acked")
         /\ (r.status # "pending" => new = r)
         /\ post = IF x.queued THEN "acked" ELSE x.post
  BY <1>a, <1>1 DEF Sent, Acked, Row
<1>8. ASSUME Keeps(s, x)
      PROVE  OnRow(y, o, new)
  BY <1>a, <1>1, <1>3, <1>7, <1>8 DEF OnRow, InCore
<1>9. RowSound(o, new, c, w, 0)
  BY <1>a, <1>1, <1>7, <1>2 DEF RowSound, Row
<1>10. Local(s, y, o, new, c, w, 0)
  BY <1>a, <1>1, <1>3, <1>4, <1>5, <1>6, <1>8 DEF Local, Direct, Keeps
<1>11. Good(s, y, o, new, c, w, h)
  BY <1>a, <1>1, <1>2, <1>3, <1>4, <1>9, <1>10 DEF Good, Typed
<1> QED BY <1>3, <1>11

\* The unit of x reaches the platform.
LEMMA Arrives ==
    ASSUME NEW s \in Senders, NEW x, NEW o, NEW r, NEW c, NEW w, NEW h,
           Good(s, x, o, r, c, w, h),
           x.phase = "dispatched" \/ (x.phase = "started" /\ ~o.dispatches)
    PROVE  LET c1 == [c EXCEPT ![x.unit] = @ + 1]
               y == [x EXCEPT !.phase = "reporting"]
               z == UnitFailed(x, o, "other")
           IN  /\ Good(s, y, o, r, c1, w, h)
               /\ y.delivery = x.delivery /\ y.queued = x.queued
               /\ Good(s, z, o, r, c1, w, h)
               /\ z.delivery = x.delivery /\ z.queued = x.queued
<1>0. x.phase \in {"started", "dispatched"} /\ x.unit <= o.units
  BY DEF Good, Local, Progress
<1>1. /\ x \in Sender /\ o \in Option /\ r \in Row /\ c \in [Unit -> Nat]
      /\ w \in SUBSET Unit /\ h = 0
      /\ (o.exact => o.dispatches)
      /\ Shape(s, x) /\ InCore(x) /\ x.error = "none"
      /\ x.unit \in Unit /\ c[x.unit] = 0
      /\ x.results < x.unit
      /\ \A u \in Unit : u >= x.unit => c[u] = 0
      /\ \A u \in Unit : c[u] <= 1
      /\ ~o.bestEffort => x.allPre
      /\ Progress(x, o, c) /\ GivenUp(x, w) /\ RowSound(o, r, c, w, 0)
      /\ IF Keeps(s, x) THEN OnRow(x, o, r) ELSE r.status = "none"
  BY <1>0, BeforeUnit
<1> DEFINE c1 == [c EXCEPT ![x.unit] = @ + 1]
           y == [x EXCEPT !.phase = "reporting"]
           z == UnitFailed(x, o, "other")
<1>2. /\ c1 \in [Unit -> Nat]
      /\ c1[x.unit] = 1
      /\ \A u \in Unit : u # x.unit => c1[u] = c[u]
      /\ \A u \in Unit : u > x.unit => u >= x.unit /\ u # x.unit
      /\ x.results \in Nat /\ x.unit \in Nat /\ x.results <= x.unit
  BY <1>1 DEF Sender, Unit
<1>3. /\ \A u \in Unit : u > x.unit => c1[u] = 0
      /\ \A u \in Unit : c1[u] <= 1
      /\ SomeCopy(c1)
  BY <1>1, <1>2 DEF SomeCopy
<1>4. /\ y \in Sender
      /\ y.phase = "reporting" /\ y.unit = x.unit
      /\ y.delivery = x.delivery /\ y.queued = x.queued /\ y.results = x.results
      /\ y.partial = x.partial /\ y.allPre = x.allPre
      /\ y.pre = x.pre /\ y.post = x.post /\ y.error = x.error
      /\ y.entryState = x.entryState
  BY <1>1 DEF Sender
<1> HIDE DEF c1, y, z
<1>5. Keeps(s, x) => x.pre # "none" /\ (r.status = "pending" => r.recoveryState # "none")
  <2>1. SUFFICES ASSUME Keeps(s, x)
                 PROVE  x.pre # "none" /\ (r.status = "pending" => r.recoveryState # "none")
    OBVIOUS
  <2>2. OnRow(x, o, r)
    BY <1>1, <2>1
  <2>3. x.pre # "none"
    BY <1>1, <2>2 DEF OnRow
  <2>4. x.pre \in {"marked", "acked"}
    BY <1>1, <2>3 DEF Sender
  <2> QED BY <2>2, <2>3, <2>4 DEF OnRow
<1>6. RowSound(o, r, c1, w, 0)
  BY <1>1, <1>3, <1>5 DEF RowSound
<1>7. Good(s, y, o, r, c1, w, h)
  <2>1. Shape(s, y) /\ InCharge(y) /\ InCore(y)
    BY <1>1, <1>4 DEF Shape, InCharge, InCore
  <2>2. Progress(y, o, c1)
    BY <1>0, <1>1, <1>2, <1>3, <1>4 DEF Progress, InCore
  <2>3. GivenUp(y, w)
    BY <1>1, <1>4 DEF GivenUp
  <2>4. Keeps(s, x) => OnRow(y, o, r)
    BY <1>1, <1>0, <1>4, <1>5 DEF OnRow
  <2>5. Local(s, y, o, r, c1, w, 0)
    BY <1>1, <1>4, <2>1, <2>2, <2>3, <2>4 DEF Local, Direct, Keeps
  <2> QED BY <1>1, <1>2, <1>4, <1>6, <2>1, <2>5 DEF Good, Typed
<1>8. Good(s, z, o, r, c1, w, h) /\ z.delivery = x.delivery /\ z.queued = x.queued
  <2>1. Failing(s, x, o, r, c1, w, "other")
    BY <1>0, <1>1, <1>2, <1>3 DEF Failing
  <2>2. /\ z \in Sender
        /\ z.delivery = x.delivery /\ z.queued = x.queued
        /\ Shape(s, z) /\ InCharge(z)
        /\ Local(s, z, o, r, c1, w, 0)
    BY <2>1, FailedUnit DEF z
  <2> QED BY <1>1, <1>2, <1>6, <2>2 DEF Good, Typed
<1> QED BY <1>4, <1>7, <1>8 DEF c1, y, z

\* What x becomes once the result of its unit is persisted as m says
Reported(x, o, m) ==
    LET z == [x EXCEPT !.results = @ + 1]
    IN  IF m.state = "threw" THEN UnitFailed(z, o, "other")
        ELSE [z EXCEPT !.phase = "ready", !.unit = @ + 1, !.post = m.state]

\* The result of the unit of x is reported, and persisted as m says.
LEMMA Reports ==
    ASSUME NEW s \in Senders, NEW x, NEW o, NEW r, NEW c, NEW w, NEW h,
           Good(s, x, o, r, c, w, h),
           x.phase = "reporting",
           NEW m, IF Keeps(s, x) THEN PostState(r, x.post, m)
                  ELSE m.row = r /\ m.state = x.post,
           NEW y, y = Reported(x, o, m)
    PROVE  /\ Good(s, y, o, m.row, c, w, h)
           /\ y.delivery = x.delivery /\ y.queued = x.queued
<1>1. /\ x \in Sender /\ o \in Option /\ r \in Row /\ c \in [Unit -> Nat]
      /\ w \in SUBSET Unit /\ h = 0
      /\ (o.exact => o.dispatches)
      /\ Shape(s, x) /\ InCore(x) /\ x.error = "none"
      /\ x.unit <= o.units /\ x.results < x.unit
      /\ c[x.unit] = 1
      /\ \A u \in Unit : u > x.unit => c[u] = 0
      /\ ~o.bestEffort => x.allPre
      /\ Progress(x, o, c) /\ GivenUp(x, w) /\ RowSound(o, r, c, w, 0)
      /\ IF Keeps(s, x) THEN OnRow(x, o, r) ELSE r.status = "none"
  BY DEF Good, Typed, Local, Direct, InCore, Progress
<1> DEFINE k == x.results + 1
           n == x.unit + 1
           z == [x EXCEPT !.results = @ + 1]
<1>2. /\ x.unit \in Unit
      /\ x.unit \in Nat /\ x.results \in Nat /\ o.units \in Nat
      /\ k \in 0 .. MaxUnits /\ k > 0 /\ k <= x.unit /\ k < n /\ k # 0
      /\ n \in 1 .. MaxUnits + 1 /\ n <= o.units + 1
      /\ \A u \in Unit : u >= n => u > x.unit
  <2>1. /\ x.unit \in Nat /\ x.results \in Nat /\ o.units \in Nat
        /\ x.unit >= 1 /\ o.units <= MaxUnits /\ MaxUnits \in Nat
    BY <1>1, ConstantsAssumption DEF Sender, Option
  <2>2. x.unit <= o.units /\ x.results < x.unit
    BY <1>1
  <2> QED BY <2>1, <2>2 DEF Unit
<1>3. SomeCopy(c)
  BY <1>1, <1>2 DEF SomeCopy
<1>4. z = [x EXCEPT !.results = k]
  OBVIOUS
<1> HIDE DEF z
<1>5. /\ z \in Sender
      /\ z.phase = "reporting" /\ z.unit = x.unit /\ z.results = k
      /\ z.delivery = x.delivery /\ z.queued = x.queued
      /\ z.partial = x.partial /\ z.allPre = x.allPre
      /\ z.pre = x.pre /\ z.post = x.post /\ z.error = x.error
      /\ z.entryState = x.entryState
  BY <1>1, <1>2, <1>4 DEF Sender
<1>6. CASE m.state = "threw"
  <2>a. y = UnitFailed(z, o, "other")
    BY <1>6 DEF Reported, z
  <2>1. m.row = r
    <3>1. CASE Keeps(s, x)
      BY <1>1, <1>6, <3>1 DEF PostState, Sender
    <3>2. CASE ~Keeps(s, x)
      BY <3>2
    <3> QED BY <3>1, <3>2
  <2>2. Keeps(s, x) => OnRow(z, o, r)
    BY <1>1, <1>2, <1>5 DEF OnRow, Sender
  <2>3. Shape(s, z) /\ InCore(z)
    BY <1>1, <1>5 DEF Shape, InCore, InCharge
  <2>4. Failing(s, z, o, r, c, w, "other")
    BY <1>1, <1>2, <1>3, <1>5, <2>2, <2>3 DEF Failing, Keeps
  <2>5. /\ y \in Sender
        /\ y.delivery = z.delivery /\ y.queued = z.queued
        /\ Shape(s, y) /\ InCharge(y)
        /\ Local(s, y, o, r, c, w, 0)
    BY <2>4, <2>a, FailedUnit
  <2>6. Good(s, y, o, m.row, c, w, h)
    BY <1>1, <2>1, <2>5 DEF Good, Typed
  <2> QED BY <1>5, <1>6, <2>5, <2>6
<1>7. CASE m.state # "threw"
  <2>0. y = [z EXCEPT !.phase = "ready", !.unit = n, !.post = m.state]
    BY <1>5, <1>7 DEF Reported, z
  <2>1. m.state \in {"none", "marked", "acked", "failed"} /\ m.row \in Row
    <3>1. CASE ~Keeps(s, x)
      BY <1>1, <3>1 DEF Sender
    <3>2. CASE Keeps(s, x) /\ x.post # "none"
      BY <1>1, <3>2 DEF Sender, PostState
    <3>3. CASE Keeps(s, x) /\ x.post = "none"
      <4>1. r.status = "pending" /\ m.row = TriedUnknown(r) => m.row \in Row
        <5>1. SUFFICES ASSUME r.status = "pending" PROVE TriedUnknown(r) \in Row
          OBVIOUS
        <5> DEFINE q == r.retryCount + 1
        <5>2. q \in 0 .. MaxRetries
          BY <1>1, <3>3, <5>1, ConstantsAssumption DEF OnRow, Row
        <5>3. TriedUnknown(r) = [r EXCEPT !.retryCount = q,
                                          !.recoveryState = "unknown_after_send"]
          BY DEF TriedUnknown
        <5> HIDE DEF q
        <5> QED BY <1>1, <5>2, <5>3 DEF Row, Evidence
      <4>2. Unknown(r) \in Row /\ Acked(r) \in Row
        BY <1>1 DEF Row, Unknown, Acked, Evidence
      <4> QED BY <1>7, <3>3, <4>1, <4>2 DEF PostState
    <3> QED BY <3>1, <3>2, <3>3
  <2>2. /\ y \in Sender
        /\ y.phase = "ready" /\ y.unit = n /\ y.results = k
        /\ y.delivery = x.delivery /\ y.queued = x.queued
        /\ y.partial = x.partial /\ y.allPre = x.allPre
        /\ y.pre = x.pre /\ y.post = m.state /\ y.error = x.error
        /\ y.entryState = x.entryState
    <3>1. z \in Sender
      BY <1>5
    <3>2. y \in Sender
      BY <1>2, <2>0, <2>1, <3>1 DEF Sender
    <3>3. /\ y.phase = "ready" /\ y.unit = n /\ y.post = m.state
          /\ y.results = z.results
          /\ y.delivery = z.delivery /\ y.queued = z.queued
          /\ y.partial = z.partial /\ y.allPre = z.allPre
          /\ y.pre = z.pre /\ y.error = z.error
          /\ y.entryState = z.entryState
      BY <2>0, <3>1 DEF Sender
    <3> QED BY <1>5, <3>2, <3>3
  <2>3. Shape(s, y) /\ InCharge(y) /\ InCore(y)
    BY <1>1, <2>2 DEF Shape, InCharge, InCore
  <2>4. Progress(y, o, c)
    BY <1>1, <1>2, <1>3, <2>2 DEF Progress, InCore
  <2>5. GivenUp(y, w)
    BY <1>1, <1>2, <2>2 DEF GivenUp
  <2>6. \/ /\ m.state = x.post /\ m.row = r
        \/ /\ Keeps(s, x) /\ x.post = "none"
           /\ \/ /\ m.state = "acked" /\ (r.status = "pending" => m.row.status = "acked")
                 /\ (r.status # "pending" => m.row = r)
              \/ /\ r.status = "pending" /\ m.row.status = "pending"
                 /\ m.row.recoveryState = "unknown_after_send"
                 /\ \/ m.state = "marked" /\ m.row.retryCount = r.retryCount
                    \/ m.state = "failed"
    <3>1. CASE ~Keeps(s, x)
      BY <3>1
    <3>2. CASE Keeps(s, x) /\ x.post # "none"
      BY <3>2 DEF PostState
    <3>3. CASE Keeps(s, x) /\ x.post = "none"
      BY <1>1, <1>7, <3>3 DEF PostState, Acked, Unknown, TriedUnknown, Row
    <3> QED BY <3>1, <3>2, <3>3
  <2>7. ASSUME Keeps(s, x)
        PROVE  OnRow(y, o, m.row)
    <3>1. OnRow(x, o, r)
      BY <1>1, <2>7
    <3> QED BY <1>1, <1>2, <2>2, <2>6, <3>1 DEF OnRow
  <2>8. ~Keeps(s, x) => m.row = r
    BY <2>6
  <2>9. RowSound(o, m.row, c, w, 0)
    BY <1>1, <1>3, <2>6 DEF RowSound
  <2>10. Local(s, y, o, m.row, c, w, 0)
    BY <1>1, <2>2, <2>3, <2>4, <2>5, <2>7, <2>8 DEF Local, Direct, Keeps
  <2>11. Good(s, y, o, m.row, c, w, h)
    BY <1>1, <2>1, <2>2, <2>3, <2>9, <2>10 DEF Good, Typed
  <2> QED BY <1>7, <2>2, <2>11
<1> QED BY <1>6, <1>7

-----------------------------------------------------------------------------
(* The actions.                                                            *)

LEMMA Unchanging ==
    ASSUME IInv, NEW d \in Deliveries
    PROVE  /\ row = [row EXCEPT ![d] = row[d]]
           /\ copies = [copies EXCEPT ![d] = copies[d]]
           /\ waived = [waived EXCEPT ![d] = waived[d]]
           /\ hooks = [hooks EXCEPT ![d] = hooks[d]]
BY DEF IInv, TypeOK

LEMMA SuppressUnitSafe ==
    ASSUME IInv, NEW s \in Senders, SuppressUnit(s)
    PROVE  Advances
<1> DEFINE d == sender[s].delivery
           x == sender[s]
           v == waived[d] \cup {x.unit}
           n == x.unit + 1
           y == [x EXCEPT !.phase = "ready", !.unit = n]
<1>1. x.phase = "ready" /\ ~Returned(s) /\ InCharge(x)
  BY DEF SuppressUnit, AtUnit, InCharge
<1>2. d \in Deliveries /\ Good(s, x, option[d], row[d], copies[d], waived[d], hooks[d])
  BY <1>1, InChargeIsGood
<1>3. x \in Sender /\ option[d] \in Option /\ waived[d] \in SUBSET Unit
  BY <1>2 DEF Good, Typed
<1>4. /\ x.unit \in Nat /\ option[d].units \in Nat /\ option[d].units <= MaxUnits
      /\ x.unit \in 1 .. MaxUnits + 1
  BY <1>3, ConstantsAssumption DEF Sender, Option
<1>5. x.unit <= option[d].units
  BY <1>1, <1>4 DEF Returned
<1>6. n \in x.unit .. option[d].units + 1 /\ v \in SUBSET Unit /\ waived[d] \subseteq v /\ v # {}
  BY <1>3, <1>4, <1>5, ConstantsAssumption DEF Unit
<1>c. MovesTo(x, option[d], waived[d], y, n, v) /\ x.delivery = d
  BY <1>1, <1>5, <1>6 DEF MovesTo
<1> HIDE DEF n, v
<1> HIDE DEF y
<1>7. Good(s, y, option[d], row[d], copies[d], v, hooks[d])
      /\ y.delivery = d /\ y.queued = x.queued
  BY <1>2, <1>c, MovesOn
<1>8. y = [x EXCEPT !.unit = @ + 1]
  BY <1>1, <1>3 DEF Sender, n, y
<1>9. Changes(s, d, y, row[d], copies[d], v, hooks[d]) /\ UNCHANGED entriesInProgress
  <2>1. /\ UNCHANGED <<row, option, copies, hooks, entriesInProgress, crashes>>
        /\ waived' = [waived EXCEPT ![d] = @ \cup {x.unit}]
        /\ sender' = [sender EXCEPT ![s] = y]
    BY <1>8 DEF SuppressUnit, Set
  <2>2. waived' = [waived EXCEPT ![d] = v]
    BY <1>2, <2>1 DEF IInv, TypeOK, v
  <2> HIDE DEF y, v
  <2> QED BY <1>2, <2>1, <2>2, Unchanging DEF Changes
<1>10. x.phase # "claimed"
  BY <1>1
<1> HIDE DEF y, v, n
<1> QED BY <1>1, <1>7, <1>9, <1>10, Still, GoesOn

LEMMA AbortSendSafe ==
    ASSUME IInv, NEW s \in Deliveries, AbortSend(s)
    PROVE  Advances
<1> DEFINE d == sender[s].delivery
           x == sender[s]
           o == option[d]
           v == waived[d] \cup (x.unit .. o.units)
           z == [x EXCEPT !.phase = "ready", !.unit = o.units]
           z0 == [x EXCEPT !.phase = "ready", !.unit = x.unit]
           y == UnitFailed(IF o.bestEffort THEN z ELSE x, o, "abort")
<1>0. s \in Senders
  BY DEF Senders
<1>1. x.phase = "ready" /\ ~Returned(s) /\ InCharge(x)
  BY DEF AbortSend, AtUnit, InCharge
<1>2. /\ d \in Deliveries /\ s = d
      /\ Good(s, x, o, row[d], copies[d], waived[d], hooks[d])
  BY <1>0, <1>1, InChargeIsGood
<1>3. x \in Sender /\ o \in Option /\ waived[d] \in SUBSET Unit
  BY <1>2 DEF Good, Typed
<1>4. /\ x.unit \in Nat /\ o.units \in Nat /\ o.units \in Unit
      /\ x.unit \in 1 .. MaxUnits + 1
  BY <1>3, ConstantsAssumption DEF Sender, Option, Unit
<1>5. x.unit <= o.units
  BY <1>1, <1>4 DEF Returned
<1>6. /\ o.units \in x.unit .. o.units + 1 /\ v \in SUBSET Unit
      /\ x.unit \in x.unit .. o.units + 1
      /\ waived[d] \subseteq v /\ v # {}
  BY <1>3, <1>4, <1>5, ConstantsAssumption DEF Unit
<1> HIDE DEF v
<1>7. z.phase = "ready" /\ z.unit = o.units /\ o.units <= o.units
  BY <1>3, <1>4 DEF Sender
<1>a. x = z0
  BY <1>1, <1>3 DEF Sender
<1>c. /\ MovesTo(x, o, waived[d], z, o.units, v)
      /\ MovesTo(x, o, waived[d], z0, x.unit, v)
      /\ x.delivery = d
  BY <1>1, <1>5, <1>6 DEF MovesTo
<1> HIDE DEF z, z0
<1>8. Good(s, z, o, row[d], copies[d], v, hooks[d])
      /\ z.delivery = d /\ z.queued = x.queued
  BY <1>0, <1>2, <1>c, MovesOn
<1>9. Good(s, z0, o, row[d], copies[d], v, hooks[d])
  BY <1>0, <1>2, <1>c, MovesOn
<1>10. Good(s, y, o, row[d], copies[d], v, hooks[d])
       /\ y.delivery = d /\ y.queued = x.queued
  <2>1. CASE o.bestEffort
    <3> HIDE DEF z, v
    <3>1. LET u == UnitFailed(z, o, "abort")
          IN  /\ Good(s, u, o, row[d], copies[d], v, hooks[d])
              /\ u.delivery = z.delivery /\ u.queued = z.queued
      BY <1>0, <1>6, <1>7, <1>8, FailsUnseen
    <3> QED BY <1>8, <2>1, <3>1
  <2>2. CASE ~o.bestEffort
    <3> HIDE DEF z0, v
    <3>1. Good(s, x, o, row[d], copies[d], v, hooks[d])
      BY <1>a, <1>9
    <3>2. LET u == UnitFailed(x, o, "abort")
          IN  /\ Good(s, u, o, row[d], copies[d], v, hooks[d])
              /\ u.delivery = x.delivery /\ u.queued = x.queued
      BY <1>0, <1>1, <1>5, <1>6, <3>1, FailsUnseen
    <3> QED BY <1>2, <2>2, <3>2
  <2> QED BY <2>1, <2>2
<1>11. Changes(s, d, y, row[d], copies[d], v, hooks[d]) /\ UNCHANGED entriesInProgress
  <2>0. z = [x EXCEPT !.unit = o.units]
    BY <1>1, <1>3 DEF Sender, z
  <2>1. /\ UNCHANGED <<row, option, copies, hooks, entriesInProgress, crashes>>
        /\ waived' = [waived EXCEPT ![d] = @ \cup (x.unit .. o.units)]
        /\ sender' = [sender EXCEPT ![s] = y]
    BY <1>2, <2>0 DEF AbortSend, Set
  <2>2. waived' = [waived EXCEPT ![d] = v]
    BY <1>2, <2>1 DEF IInv, TypeOK, v
  <2> HIDE DEF y, v
  <2> QED BY <1>2, <2>1, <2>2, Unchanging DEF Changes
<1>12. x.phase # "claimed"
  BY <1>1
<1> HIDE DEF y, v, z, z0
<1> QED BY <1>0, <1>1, <1>10, <1>11, <1>12, Still, GoesOn

LEMMA StartUnitSafe ==
    ASSUME IInv, NEW s \in Senders, StartUnit(s)
    PROVE  Advances
<1> DEFINE d == sender[s].delivery
           x == sender[s]
           o == option[d]
<1>1. x.phase = "ready" /\ ~Returned(s) /\ InCharge(x)
  BY DEF StartUnit, AtUnit, InCharge
<1>2. /\ d \in Deliveries
      /\ Good(s, x, o, row[d], copies[d], waived[d], hooks[d])
  BY <1>1, InChargeIsGood
<1>3. x \in Sender /\ o \in Option /\ o.required \in BOOLEAN
  BY <1>2 DEF Good, Typed, Option
<1>4. x.unit \in Nat /\ o.units \in Nat /\ x.unit <= o.units
  <2>1. x.unit \in Nat /\ o.units \in Nat
    BY <1>3, ConstantsAssumption DEF Sender, Option
  <2> QED BY <1>1, <2>1 DEF Returned
<1>5. Keeps(s, x) <=> Backed(s)
  BY DEF Keeps, Backed, IsLoop
<1>6. ASSUME NEW y, NEW new,
             sender' = [sender EXCEPT ![s] = y],
             row' = [row EXCEPT ![d] = new],
             Good(s, y, o, new, copies[d], waived[d], hooks[d])
               /\ y.delivery = x.delivery /\ y.queued = x.queued,
             Moved(o, row[d], new, copies[d], copies[d])
      PROVE  Advances
  <2>1. /\ UNCHANGED <<option, copies, waived, hooks, entriesInProgress, crashes>>
    BY DEF StartUnit
  <2>2. Changes(s, d, y, new, copies[d], waived[d], hooks[d])
    BY <1>2, <1>6, <2>1, Unchanging DEF Changes
  <2> QED BY <1>1, <1>6, <2>1, <2>2, GoesOn
<1>7. CASE ~(Backed(s) /\ ~o.exact /\ x.pre = "none")
  <2> DEFINE y == [x EXCEPT !.phase = "started"]
  <2>1. sender' = [sender EXCEPT ![s] = y] /\ row' = row
    BY <1>7 DEF StartUnit, Set
  <2>2. y = [x EXCEPT !.phase = "started", !.pre = x.pre, !.post = x.post]
    BY <1>3 DEF Sender
  <2>3. Takes(s, x, o, row[d], y, row[d], "started", x.pre, x.post)
    BY <1>1, <1>4, <1>5, <1>7, <2>2 DEF Takes
  <2> HIDE DEF y
  <2>4. Good(s, y, o, row[d], copies[d], waived[d], hooks[d])
        /\ y.delivery = x.delivery /\ y.queued = x.queued
    BY <1>2, <2>3, TakesUnit
  <2>5. row' = [row EXCEPT ![d] = row[d]]
    BY <1>2, <2>1, Unchanging
  <2> QED BY <1>6, <2>1, <2>4, <2>5, Still
<1>8. CASE Backed(s) /\ ~o.exact /\ x.pre = "none"
  <2>1. PICK m \in PersistPreSendState(row[d], o.required) :
          /\ row' = [row EXCEPT ![d] = m.row]
          /\ Set(s, IF m.state = "threw" THEN UnitFailed(x, o, "other")
                    ELSE [x EXCEPT
                      !.phase = "started", !.pre = m.state,
                      !.post = IF x.queued /\ m.state = "acked"
                               THEN "acked" ELSE @])
    BY <1>8 DEF StartUnit
  <2>2. \/ row[d].status = "pending" /\ m.state = "marked" /\ m.row = Sent(row[d])
        \/ ~o.required /\ m.state = "acked" /\ m.row = Acked(row[d])
        \/ m.state = "threw" /\ m.row = row[d]
    BY <1>3, PreSendOutcome
  <2>3. CASE m.state = "threw"
    <3> DEFINE y == UnitFailed(x, o, "other")
    <3>1. Good(s, y, o, row[d], copies[d], waived[d], hooks[d])
          /\ y.delivery = x.delivery /\ y.queued = x.queued
      BY <1>1, <1>2, <1>4, FailsUnseen
    <3>2. sender' = [sender EXCEPT ![s] = y] /\ row' = [row EXCEPT ![d] = row[d]]
      BY <2>1, <2>2, <2>3 DEF Set
    <3> HIDE DEF y
    <3> QED BY <1>6, <3>1, <3>2, Still
  <2>4. CASE m.state # "threw"
    <3> DEFINE post == IF x.queued /\ m.state = "acked" THEN "acked" ELSE x.post
               y == [x EXCEPT !.phase = "started", !.pre = m.state, !.post = post]
    <3>1. sender' = [sender EXCEPT ![s] = y]
      BY <2>1, <2>4 DEF Set
    <3>2. Takes(s, x, o, row[d], y, m.row, "started", m.state, post)
      BY <1>1, <1>4, <1>5, <1>8, <2>2, <2>4 DEF Takes
    <3> HIDE DEF y, post
    <3>3. Good(s, y, o, m.row, copies[d], waived[d], hooks[d])
          /\ y.delivery = x.delivery /\ y.queued = x.queued
      BY <1>2, <3>2, TakesUnit
    <3>4. RowLeft(o, x, row[d], copies[d], waived[d], m.row) \/ m.row = Sent(row[d])
      BY <2>2, <2>4 DEF RowLeft
    <3>5. row[d].status = "pending" => row[d].recoveryState # "unknown_after_send"
      BY <1>1, <1>2, <1>3, <1>5, <1>8, ConstantsAssumption
         DEF Good, Local, OnRow, Sender
    <3>6. row[d] \in Row
      BY <1>2 DEF Good, Typed
    <3>7. Moved(o, row[d], m.row, copies[d], copies[d])
      BY <3>4, <3>5, <3>6, LeftMoved, SentMoved
    <3> QED BY <1>6, <2>1, <3>1, <3>3, <3>7
  <2> QED BY <2>3, <2>4
<1> QED BY <1>7, <1>8

LEMMA DispatchUnitSafe ==
    ASSUME IInv, NEW s \in Senders, DispatchUnit(s)
    PROVE  Advances
<1> DEFINE d == sender[s].delivery
           x == sender[s]
           o == option[d]
<1>1. x.phase = "started" /\ InCharge(x)
  BY DEF DispatchUnit, InCharge
<1>2. /\ d \in Deliveries
      /\ Good(s, x, o, row[d], copies[d], waived[d], hooks[d])
  BY <1>1, InChargeIsGood
<1>3. x \in Sender /\ x.unit <= o.units
  BY <1>1, <1>2 DEF Good, Typed, Local, Progress
<1>5. /\ Keeps(s, x) <=> Backed(s)
      /\ Keeps(s, x) /\ ~o.exact => x.pre # "none"
  BY <1>1, <1>2 DEF Keeps, Backed, IsLoop, Good, Local, OnRow
<1>6. ASSUME NEW y, NEW new,
             sender' = [sender EXCEPT ![s] = y],
             row' = [row EXCEPT ![d] = new],
             Good(s, y, o, new, copies[d], waived[d], hooks[d])
               /\ y.delivery = x.delivery /\ y.queued = x.queued,
             Moved(o, row[d], new, copies[d], copies[d])
      PROVE  Advances
  <2>1. /\ UNCHANGED <<option, copies, waived, hooks, entriesInProgress, crashes>>
    BY DEF DispatchUnit
  <2>2. Changes(s, d, y, new, copies[d], waived[d], hooks[d])
    BY <1>2, <1>6, <2>1, Unchanging DEF Changes
  <2> QED BY <1>1, <1>6, <2>1, <2>2, GoesOn
<1> DEFINE z == [x EXCEPT !.phase = "dispatched"]
<1>7. ASSUME sender' = [sender EXCEPT ![s] = z], row' = [row EXCEPT ![d] = row[d]],
             ~Backed(s) \/ x.pre # "none"
      PROVE  Advances
  <2>2. z = [x EXCEPT !.phase = "dispatched", !.pre = x.pre, !.post = x.post]
    BY <1>3 DEF Sender
  <2>3. Takes(s, x, o, row[d], z, row[d], "dispatched", x.pre, x.post)
    BY <1>1, <1>3, <1>5, <1>7, <2>2 DEF Takes
  <2> HIDE DEF z
  <2>4. Good(s, z, o, row[d], copies[d], waived[d], hooks[d])
        /\ z.delivery = x.delivery /\ z.queued = x.queued
    BY <1>2, <2>3, TakesUnit
  <2> QED BY <1>6, <1>7, <2>4, Still
<1>8. CASE ~(Backed(s) /\ x.pre # "acked")
  <2>1. sender' = [sender EXCEPT ![s] = z] /\ row' = row
    BY <1>8 DEF DispatchUnit, Set
  <2>2. row' = [row EXCEPT ![d] = row[d]]
    BY <1>2, <2>1, Unchanging
  <2> QED BY <1>7, <1>8, <2>1, <2>2
<1>9. CASE Backed(s) /\ x.pre # "acked"
  <2>1. PICK m \in MarkSendStarted(row[d]) :
          /\ row' = [row EXCEPT ![d] = m.row]
          /\ Set(s, IF m.ok THEN [z EXCEPT !.pre = "marked"]
                    ELSE IF o.exact THEN UnitFailed(x, o, "other")
                    ELSE z)
    BY <1>9 DEF DispatchUnit
  <2>2. \/ row[d].status = "pending" /\ m.ok = TRUE /\ m.row = Sent(row[d])
        \/ m.ok = FALSE /\ m.row = row[d]
    <3> DEFINE q == row[d]
    <3>1. m \in Update(q, Sent(q))
      BY DEF MarkSendStarted, Sent
    <3> HIDE DEF q
    <3>2. \/ q.status = "pending" /\ m.ok = TRUE /\ m.row = Sent(q)
          \/ m.ok = FALSE /\ m.row = q
      BY <3>1, UpdateOutcome
    <3> QED BY <3>2 DEF q
  <2>3. CASE m.ok = TRUE
    <3> DEFINE y == [z EXCEPT !.pre = "marked"]
    <3>1. sender' = [sender EXCEPT ![s] = y]
      BY <2>1, <2>3 DEF Set
    <3>2. y = [x EXCEPT !.phase = "dispatched", !.pre = "marked", !.post = x.post]
      BY <1>3 DEF Sender
    <3>3. Takes(s, x, o, row[d], y, m.row, "dispatched", "marked", x.post)
      BY <1>1, <1>3, <1>5, <1>9, <2>2, <2>3, <3>2 DEF Takes
    <3> HIDE DEF y
    <3>4. Good(s, y, o, m.row, copies[d], waived[d], hooks[d])
          /\ y.delivery = x.delivery /\ y.queued = x.queued
      BY <1>2, <3>3, TakesUnit
    <3>5. o.dispatches /\ row[d] \in Row
      BY <1>2 DEF DispatchUnit, Good, Typed
    <3> QED BY <1>6, <2>1, <2>2, <2>3, <3>1, <3>4, <3>5, SentMoved
  <2>4. CASE m.ok = FALSE /\ o.exact
    <3> DEFINE y == UnitFailed(x, o, "other")
    <3>1. Good(s, y, o, row[d], copies[d], waived[d], hooks[d])
          /\ y.delivery = x.delivery /\ y.queued = x.queued
      BY <1>1, <1>2, <1>3, FailsUnseen
    <3>2. sender' = [sender EXCEPT ![s] = y] /\ row' = [row EXCEPT ![d] = row[d]]
      BY <2>1, <2>2, <2>4 DEF Set
    <3> HIDE DEF y
    <3> QED BY <1>6, <3>1, <3>2, Still
  <2>5. CASE m.ok = FALSE /\ ~o.exact
    <3>1. sender' = [sender EXCEPT ![s] = z] /\ row' = [row EXCEPT ![d] = row[d]]
      BY <2>1, <2>2, <2>5 DEF Set
    <3> QED BY <1>5, <1>7, <2>5, <3>1
  <2> QED BY <2>2, <2>3, <2>4, <2>5
<1> QED BY <1>8, <1>9

LEMMA TransmitUnitSafe ==
    ASSUME IInv, NEW s \in Senders, TransmitUnit(s)
    PROVE  Advances
<1> DEFINE d == sender[s].delivery
           x == sender[s]
           o == option[d]
           c == copies[d]
           w == waived[d]
           c1 == [c EXCEPT ![x.unit] = @ + 1]
           arrived == [copies EXCEPT ![d][x.unit] = @ + 1]
<1>1. /\ x.phase \in {"started", "dispatched"} /\ x.phase # "claimed" /\ InCharge(x)
      /\ x.phase = "dispatched" \/ (x.phase = "started" /\ ~o.dispatches)
  BY DEF TransmitUnit, InCharge
<1>2. /\ d \in Deliveries
      /\ Good(s, x, o, row[d], c, w, hooks[d])
  BY <1>1, InChargeIsGood
<1>3. /\ x \in Sender /\ x.unit <= o.units /\ o \in Option
      /\ c \in [Unit -> Nat] /\ w \in SUBSET Unit
  BY <1>1, <1>2 DEF Good, Typed, Local, Progress
<1>4. /\ x.unit \in Unit /\ o.units \in Nat
      /\ x.unit + 1 \in x.unit .. o.units + 1
  BY <1>3, ConstantsAssumption DEF Sender, Option, Unit
<1>a. /\ x.unit \in Unit /\ c[x.unit] = 0 /\ c1 = [c EXCEPT ![x.unit] = 1]
      /\ row[d].status # "failed"
  <2>a. Progress(x, o, c) /\ row[d].status # "failed"
    BY <1>2 DEF Good, Local, OnRow, Direct
  <2>1. c[x.unit] = 0 /\ row[d].status # "failed"
    <3>1. x.unit >= x.unit
      BY <1>3, ConstantsAssumption DEF Sender
    <3> QED BY <1>1, <1>4, <2>a, <3>1 DEF Progress
  <2> DEFINE u == x.unit
  <2>2. [c EXCEPT ![u] = @ + 1] = [c EXCEPT ![u] = c[u] + 1]
    OBVIOUS
  <2>3. c[u] + 1 = 1
    BY <2>1
  <2> QED BY <1>4, <2>1, <2>2, <2>3
<1>5. arrived = [copies EXCEPT ![d] = c1]
  BY <1>2 DEF IInv, TypeOK
<1>6. ASSUME NEW y, NEW cc, NEW v,
             sender' = [sender EXCEPT ![s] = y],
             copies' = [copies EXCEPT ![d] = cc],
             waived' = [waived EXCEPT ![d] = v],
             cc \in {c, c1},
             Good(s, y, o, row[d], cc, v, hooks[d])
               /\ y.delivery = x.delivery /\ y.queued = x.queued
      PROVE  Advances
  <2>1. UNCHANGED <<row, option, hooks, entriesInProgress, crashes>>
    BY DEF TransmitUnit
  <2>2. Changes(s, d, y, row[d], cc, v, hooks[d])
    BY <1>2, <1>6, <2>1, Unchanging DEF Changes
  <2>3. Moved(o, row[d], row[d], c, cc)
    <3>1. CASE cc = c
      BY <3>1, Still
    <3>2. CASE cc = c1
      <4>1. \E u \in Unit : c[u] = 0 /\ c1 = [c EXCEPT ![u] = 1]
        BY <1>a
      <4> HIDE DEF c1
      <4> QED BY <1>a, <3>2, <4>1 DEF Moved
    <3> QED BY <1>6, <3>1, <3>2
  <2> QED BY <1>1, <1>6, <2>1, <2>2, <2>3, GoesOn
<1>7. LET y == [x EXCEPT !.phase = "reporting"]
          z == UnitFailed(x, o, "other")
      IN  /\ Good(s, y, o, row[d], c1, w, hooks[d])
          /\ y.delivery = x.delivery /\ y.queued = x.queued
          /\ Good(s, z, o, row[d], c1, w, hooks[d])
          /\ z.delivery = x.delivery /\ z.queued = x.queued
  BY <1>1, <1>2, Arrives
<1>8. CASE /\ copies' = arrived
           /\ Set(s, [x EXCEPT !.phase = "reporting"])
           /\ UNCHANGED waived
  <2> DEFINE y == [x EXCEPT !.phase = "reporting"]
  <2>1. sender' = [sender EXCEPT ![s] = y]
    BY <1>8 DEF Set
  <2>2. copies' = [copies EXCEPT ![d] = c1] /\ waived' = [waived EXCEPT ![d] = w]
    BY <1>2, <1>5, <1>8, Unchanging
  <2>3. Good(s, y, o, row[d], c1, w, hooks[d])
        /\ y.delivery = x.delivery /\ y.queued = x.queued
    BY <1>7
  <2> HIDE DEF y, c1
  <2> QED BY <1>6, <2>1, <2>2, <2>3
<1>9. CASE /\ waived' = [waived EXCEPT ![d] = @ \cup {x.unit}]
           /\ Set(s, [x EXCEPT !.phase = "ready", !.unit = @ + 1])
           /\ UNCHANGED copies
  <2> DEFINE v == w \cup {x.unit}
             n == x.unit + 1
             y == [x EXCEPT !.phase = "ready", !.unit = n]
  <2>1. v \in SUBSET Unit /\ w \subseteq v /\ v # {}
    BY <1>3, <1>4
  <2>2. MovesTo(x, o, w, y, n, v)
    BY <1>1, <1>3, <1>4, <2>1 DEF MovesTo
  <2>3. sender' = [sender EXCEPT ![s] = y]
    BY <1>9 DEF Set
  <2>4. copies' = [copies EXCEPT ![d] = c] /\ waived' = [waived EXCEPT ![d] = v]
    BY <1>2, <1>9, Unchanging DEF IInv, TypeOK
  <2> HIDE DEF y, v, n
  <2>5. Good(s, y, o, row[d], c, v, hooks[d])
        /\ y.delivery = x.delivery /\ y.queued = x.queued
    BY <1>2, <2>2, MovesOn
  <2> QED BY <1>6, <2>3, <2>4, <2>5
<1>10. CASE /\ \E class \in {"pre", "permanent", "other"} :
                 Set(s, UnitFailed(x, o, class))
            /\ UNCHANGED <<copies, waived>>
  <2>1. PICK class \in {"pre", "permanent", "other"} :
          sender' = [sender EXCEPT ![s] = UnitFailed(x, o, class)]
    BY <1>10 DEF Set
  <2> DEFINE y == UnitFailed(x, o, class)
  <2>a. /\ class \in {"pre", "permanent", "other", "abort"}
        /\ class = "abort" => w # {}
        /\ x.phase \in {"ready", "started", "dispatched"}
    BY <1>1
  <2>2. Good(s, y, o, row[d], c, w, hooks[d])
        /\ y.delivery = x.delivery /\ y.queued = x.queued
    <3>1. LET u == UnitFailed(x, o, "pre")
          IN  /\ Good(s, u, o, row[d], c, w, hooks[d])
              /\ u.delivery = x.delivery /\ u.queued = x.queued
      BY <1>2, <1>3, <2>a, FailsUnseen
    <3>2. LET u == UnitFailed(x, o, "permanent")
          IN  /\ Good(s, u, o, row[d], c, w, hooks[d])
              /\ u.delivery = x.delivery /\ u.queued = x.queued
      BY <1>2, <1>3, <2>a, FailsUnseen
    <3>3. LET u == UnitFailed(x, o, "other")
          IN  /\ Good(s, u, o, row[d], c, w, hooks[d])
              /\ u.delivery = x.delivery /\ u.queued = x.queued
      BY <1>2, <1>3, <2>a, FailsUnseen
    <3> QED BY <3>1, <3>2, <3>3
  <2>3. copies' = [copies EXCEPT ![d] = c] /\ waived' = [waived EXCEPT ![d] = w]
    BY <1>2, <1>10, Unchanging
  <2>4. sender' = [sender EXCEPT ![s] = y]
    BY <2>1
  <2> HIDE DEF y
  <2> QED BY <1>6, <2>2, <2>3, <2>4
<1>11. CASE /\ copies' = arrived
            /\ Set(s, UnitFailed(x, o, "other"))
            /\ UNCHANGED waived
  <2> DEFINE y == UnitFailed(x, o, "other")
  <2>1. sender' = [sender EXCEPT ![s] = y]
    BY <1>11 DEF Set
  <2>2. copies' = [copies EXCEPT ![d] = c1] /\ waived' = [waived EXCEPT ![d] = w]
    BY <1>2, <1>5, <1>11, Unchanging
  <2>3. Good(s, y, o, row[d], c1, w, hooks[d])
        /\ y.delivery = x.delivery /\ y.queued = x.queued
    BY <1>7
  <2> HIDE DEF y, c1
  <2> QED BY <1>6, <2>1, <2>2, <2>3
<1> QED BY <1>8, <1>9, <1>10, <1>11 DEF TransmitUnit

LEMMA ReportResultSafe ==
    ASSUME IInv, NEW s \in Senders, ReportResult(s)
    PROVE  Advances
<1> DEFINE d == sender[s].delivery
           x == sender[s]
           o == option[d]
           z == [x EXCEPT !.results = @ + 1]
<1>3. x \in Sender
  BY DEF IInv, TypeOK
<1>a. z.phase = x.phase /\ z.post = x.post /\ z.delivery = d
  BY <1>3 DEF Sender
<1>1. x.phase = "reporting" /\ x.phase # "claimed" /\ InCharge(x)
  BY <1>a DEF ReportResult, InCharge
<1>2. /\ d \in Deliveries
      /\ Good(s, x, o, row[d], copies[d], waived[d], hooks[d])
  BY <1>1, InChargeIsGood
<1>5. Keeps(s, x) <=> Backed(s)
  BY DEF Keeps, Backed, IsLoop
<1>6. ASSUME NEW y, NEW new,
             sender' = [sender EXCEPT ![s] = y],
             row' = [row EXCEPT ![d] = new],
             Good(s, y, o, new, copies[d], waived[d], hooks[d])
               /\ y.delivery = x.delivery /\ y.queued = x.queued,
             Moved(o, row[d], new, copies[d], copies[d])
      PROVE  Advances
  <2>1. UNCHANGED <<option, copies, waived, hooks, entriesInProgress, crashes>>
    BY DEF ReportResult
  <2>2. Changes(s, d, y, new, copies[d], waived[d], hooks[d])
    BY <1>2, <1>6, <2>1, Unchanging DEF Changes
  <2> QED BY <1>1, <1>6, <2>1, <2>2, GoesOn
<1>7. ASSUME NEW m, IF Keeps(s, x) THEN PostState(row[d], x.post, m)
                    ELSE m.row = row[d] /\ m.state = x.post,
             row' = [row EXCEPT ![d] = m.row],
             sender' = [sender EXCEPT ![s] = Reported(x, o, m)]
      PROVE  Advances
  <2> DEFINE y == Reported(x, o, m)
  <2>1. Good(s, y, o, m.row, copies[d], waived[d], hooks[d])
        /\ y.delivery = x.delivery /\ y.queued = x.queued
    <3>1. y = Reported(x, o, m)
      OBVIOUS
    <3> HIDE DEF y
    <3> QED BY <1>1, <1>2, <1>7, <3>1, Reports
  <2>2. sender' = [sender EXCEPT ![s] = y]
    BY <1>7
  <2> HIDE DEF y
  <2>3. row[d] \in Row
    BY <1>2 DEF Good, Typed
  <2>4. Moved(o, row[d], m.row, copies[d], copies[d])
    BY <1>7, <2>3, Still, PostStateMoved
  <2> QED BY <1>6, <1>7, <2>1, <2>2, <2>4
<1>8. CASE Backed(s)
  <2>1. PICK m \in PersistOnce(row[d], x.post) :
          /\ row' = [row EXCEPT ![d] = m.row]
          /\ Set(s, IF m.state = "threw" THEN UnitFailed(z, o, "other")
                    ELSE [z EXCEPT !.phase = "ready", !.unit = @ + 1, !.post = m.state])
    BY <1>8, <1>a DEF ReportResult
  <2>2. PostState(row[d], x.post, m)
    BY PersistOnceOutcome
  <2>3. sender' = [sender EXCEPT ![s] = Reported(x, o, m)]
    BY <2>1 DEF Set, Reported
  <2> HIDE DEF z
  <2> QED BY <1>5, <1>7, <1>8, <2>1, <2>2, <2>3
<1>9. CASE ~Backed(s)
  <2> DEFINE m == [row |-> row[d], state |-> x.post]
             y == [z EXCEPT !.phase = "ready", !.unit = @ + 1, !.post = m.state]
  <2>1. row' = [row EXCEPT ![d] = m.row]
    BY <1>2, <1>9, Unchanging DEF ReportResult
  <2>2. sender' = [sender EXCEPT ![s] = [z EXCEPT !.phase = "ready", !.unit = @ + 1]]
    BY <1>9 DEF ReportResult, Set
  <2>a. m.state # "threw" /\ m.row = row[d] /\ m.state = x.post
    BY <1>3 DEF Sender
  <2>b. x.results \in Nat /\ x.unit \in Nat
    BY <1>3, ConstantsAssumption DEF Sender
  <2>3. [z EXCEPT !.phase = "ready", !.unit = @ + 1]
          = [x EXCEPT !.results = x.results + 1, !.phase = "ready", !.unit = x.unit + 1]
    BY <1>3 DEF Sender
  <2>4. y = [x EXCEPT !.results = x.results + 1, !.phase = "ready", !.unit = x.unit + 1,
                      !.post = x.post]
    BY <1>3 DEF Sender
  <2>5. y = [z EXCEPT !.phase = "ready", !.unit = @ + 1]
    BY <1>3, <2>3, <2>4 DEF Sender
  <2>6. sender' = [sender EXCEPT ![s] = Reported(x, o, m)]
    BY <2>2, <2>5, <2>a DEF Reported
  <2>7. IF Keeps(s, x) THEN PostState(row[d], x.post, m)
        ELSE m.row = row[d] /\ m.state = x.post
    BY <1>5, <1>9, <2>a
  <2> HIDE DEF m, z
  <2> QED BY <1>7, <2>1, <2>6, <2>7
<1> QED BY <1>8, <1>9

-----------------------------------------------------------------------------
(* The end of a send.                                                      *)

\* x has gone through its units and goes on to the ack as y, with the row new.
Ends(x, o, r, y, new, post) ==
    /\ x.phase = "ready" /\ x.unit > o.units
    /\ y = [x EXCEPT !.phase = "finishing", !.post = post]
    /\ post = "failed" => x.queued
    /\ \/ /\ new = r /\ post = x.post
          /\ x.queued \/ ~x.partial
       \/ /\ x.results > 0 \/ (x.queued /\ ~x.partial)
          /\ post # "threw"
          /\ \E m : PostState(r, x.post, m) /\ m.row = new /\ m.state = post

LEMMA GoesToAck ==
    ASSUME NEW s \in Senders, NEW x, NEW o, NEW r, NEW c, NEW w, NEW h,
           Good(s, x, o, r, c, w, h), Keeps(s, x),
           NEW y, NEW new, NEW post, Ends(x, o, r, y, new, post)
    PROVE  /\ Good(s, y, o, new, c, w, h)
           /\ y.delivery = x.delivery /\ y.queued = x.queued
<1>1. /\ x \in Sender /\ o \in Option /\ r \in Row /\ c \in [Unit -> Nat]
      /\ w \in SUBSET Unit /\ h = 0
      /\ (o.exact => o.dispatches)
      /\ Shape(s, x) /\ InCore(x)
      /\ Progress(x, o, c) /\ GivenUp(x, w) /\ RowSound(o, r, c, w, 0)
      /\ OnRow(x, o, r)
      /\ x.phase = "ready" /\ x.unit > o.units
      /\ y = [x EXCEPT !.phase = "finishing", !.post = post]
      /\ post = "failed" => x.queued
  BY DEF Good, Typed, Local, InCore, Ends
<1>2. x.unit \in Nat /\ o.units \in Nat \ {0} /\ x.unit > 1 /\ x.results \in Nat
  <2>1. x.unit \in Nat /\ o.units \in Nat \ {0} /\ x.results \in Nat
    BY <1>1, ConstantsAssumption DEF Sender, Option
  <2> QED BY <1>1, <2>1
<1>3. \/ /\ new = r /\ post = x.post
         /\ x.queued \/ ~x.partial
      \/ /\ x.results > 0 \/ (x.queued /\ ~x.partial)
         /\ post # "threw"
         /\ \/ post = x.post /\ new = r
            \/ /\ x.post = "none"
               /\ \/ /\ post = "acked" /\ new = Acked(r)
                  \/ /\ r.status = "pending" /\ post = "marked" /\ new = Unknown(r)
                  \/ /\ r.status = "pending" /\ post = "failed" /\ new = TriedUnknown(r)
  BY DEF Ends, PostState
<1>4. post \in {"none", "marked", "acked", "failed"} /\ new \in Row
  <2>1. r.status = "pending" /\ x.post = "none" => TriedUnknown(r) \in Row
    <3>1. SUFFICES ASSUME r.status = "pending", x.post = "none" PROVE TriedUnknown(r) \in Row
      OBVIOUS
    <3> DEFINE q == r.retryCount + 1
    <3>2. q \in 0 .. MaxRetries
      BY <1>1, <3>1, ConstantsAssumption DEF OnRow, Row
    <3>3. TriedUnknown(r) = [r EXCEPT !.retryCount = q, !.recoveryState = "unknown_after_send"]
      BY DEF TriedUnknown
    <3> HIDE DEF q
    <3> QED BY <1>1, <3>2, <3>3 DEF Row, Evidence
  <2>2. Unknown(r) \in Row /\ Acked(r) \in Row
    BY <1>1 DEF Row, Unknown, Acked, Evidence
  <2> QED BY <1>1, <1>3, <2>1, <2>2 DEF Sender
<1>5. /\ y \in Sender
      /\ y.phase = "finishing" /\ y.unit = x.unit /\ y.results = x.results
      /\ y.delivery = x.delivery /\ y.queued = x.queued
      /\ y.partial = x.partial /\ y.allPre = x.allPre
      /\ y.pre = x.pre /\ y.post = post /\ y.error = x.error
      /\ y.entryState = x.entryState
  BY <1>1, <1>4 DEF Sender
<1>6. Shape(s, y) /\ InCharge(y)
  BY <1>1, <1>5 DEF Shape, InCharge, InCore
<1>7. Progress(y, o, c)
  BY <1>1, <1>5 DEF Progress, InCore
<1>8. GivenUp(y, w)
  BY <1>1, <1>2, <1>3, <1>5 DEF GivenUp, InCore
<1>9. \/ new = r /\ post = x.post /\ (x.queued \/ ~x.partial)
      \/ /\ x.results > 0 \/ (x.queued /\ ~x.partial)
         /\ \/ post = x.post /\ new = r
            \/ /\ x.post = "none"
               /\ \/ /\ post = "acked" /\ (r.status = "pending" => new.status = "acked")
                     /\ (r.status # "pending" => new = r)
                  \/ /\ r.status = "pending" /\ new.status = "pending"
                     /\ new.recoveryState = "unknown_after_send"
                     /\ \/ post = "marked" /\ new.retryCount = r.retryCount
                        \/ post = "failed"
  BY <1>1, <1>3 DEF Acked, Unknown, TriedUnknown, Row
<1>10. OnRow(y, o, new)
  BY <1>1, <1>2, <1>5, <1>9 DEF OnRow, InCore
<1>11. RowSound(o, new, c, w, 0)
  <2>1. x.results > 0 => SomeCopy(c)
    BY <1>1 DEF Progress
  <2>2. x.results = 0 /\ ~x.partial => w # {}
    BY <1>1, <1>2 DEF GivenUp
  <2>3. x.results = 0 \/ x.results > 0
    BY <1>2
  <2> QED BY <1>1, <1>9, <2>1, <2>2, <2>3 DEF RowSound
<1>12. Local(s, y, o, new, c, w, 0)
  BY <1>5, <1>7, <1>8, <1>10 DEF Local, Keeps
<1>13. Good(s, y, o, new, c, w, h)
  BY <1>1, <1>4, <1>5, <1>6, <1>11, <1>12 DEF Good, Typed
<1> QED BY <1>5, <1>13

\* A loop fails to record the end of its send.
ThrowsAs(x, y) ==
    /\ x.phase \in {"ready", "finishing"}
    /\ y = [x EXCEPT !.phase = "threw", !.error = "other"]

LEMMA LoopThrows ==
    ASSUME NEW s \in Loops, NEW x, NEW o, NEW r, NEW c, NEW w, NEW h,
           Good(s, x, o, r, c, w, h),
           NEW y, ThrowsAs(x, y)
    PROVE  /\ Good(s, y, o, r, c, w, h)
           /\ y.delivery = x.delivery /\ y.queued = x.queued
<1>1. /\ x \in Sender /\ o \in Option /\ r \in Row /\ c \in [Unit -> Nat]
      /\ w \in SUBSET Unit /\ h = 0
      /\ (o.exact => o.dispatches)
      /\ Shape(s, x) /\ InCharge(x) /\ ~x.queued
      /\ Progress(x, o, c) /\ GivenUp(x, w) /\ RowSound(o, r, c, w, 0)
      /\ OnRow(x, o, r)
      /\ x.phase \in {"ready", "finishing"}
      /\ y = [x EXCEPT !.phase = "threw", !.error = "other"]
  BY DEF Good, Typed, Local, ThrowsAs, Keeps, Shape
<1>5. /\ y \in Sender
      /\ y.phase = "threw" /\ y.unit = x.unit /\ y.results = x.results
      /\ y.delivery = x.delivery /\ y.queued = x.queued
      /\ y.partial = x.partial /\ y.allPre = x.allPre
      /\ y.pre = x.pre /\ y.post = x.post /\ y.error = "other"
      /\ y.entryState = x.entryState
  BY <1>1 DEF Sender
<1>6. Shape(s, y) /\ InCharge(y)
  BY <1>1, <1>5 DEF Shape, InCharge
<1>7. Progress(y, o, c)
  BY <1>1, <1>5 DEF Progress, InCore
<1>8. GivenUp(y, w)
  BY <1>1, <1>5 DEF GivenUp, InCore
<1>10. OnRow(y, o, r)
  BY <1>1, <1>5 DEF OnRow, InCore
<1>12. Local(s, y, o, r, c, w, 0)
  BY <1>5, <1>7, <1>8, <1>10 DEF Local, Keeps
<1>13. Good(s, y, o, r, c, w, h)
  BY <1>1, <1>5, <1>6, <1>12 DEF Good, Typed
<1> QED BY <1>5, <1>13

\* A sender that has done nothing but keeps a list
LEMMA FreshSender ==
    ASSUME NEW s \in Senders, NEW phase, NEW todo,
           s \in Deliveries => phase = "done" /\ todo = {},
           s \in Loops => phase \in {"idle", "next"} /\ todo \subseteq Deliveries
    PROVE  LET y == [Fresh(IF s \in Deliveries THEN s ELSE NoDelivery)
                       EXCEPT !.phase = phase, !.todo = todo]
           IN  /\ y \in Sender
               /\ Shape(s, y) /\ ~InCharge(y)
               /\ y.phase = phase
<1> DEFINE y == [Fresh(IF s \in Deliveries THEN s ELSE NoDelivery)
                   EXCEPT !.phase = phase, !.todo = todo]
<1>b. /\ Senders = Deliveries \cup Loops
      /\ Deliveries \cap Loops = {}
  BY ConstantsAssumption DEF Senders
<1>1. /\ phase \in {"idle", "next", "done"} /\ todo \in SUBSET Deliveries
      /\ 0 \in 0 .. MaxUnits /\ 1 \in 1 .. MaxUnits + 1
  BY <1>b, ConstantsAssumption
<1> DEFINE e == IF s \in Deliveries THEN s ELSE NoDelivery
<1>e. /\ y = [Fresh(e) EXCEPT !.phase = phase, !.todo = todo]
      /\ e \in Deliveries \cup {NoDelivery}
      /\ s \in Deliveries => e = s
  OBVIOUS
<1> HIDE DEF y, e
<1>2. y = [phase |-> phase, delivery |-> e,
           todo |-> todo, queued |-> FALSE, entryState |-> "none", unit |-> 1,
           pre |-> "none", post |-> "none", results |-> 0, partial |-> FALSE,
           allPre |-> TRUE, error |-> "none"]
  BY <1>e DEF Fresh
<1>3. y \in Sender
  BY <1>1, <1>2, <1>e DEF Sender, Evidence
<1>4. Shape(s, y) /\ ~InCharge(y) /\ y.phase = phase
  BY <1>1, <1>2, <1>b, <1>e DEF Shape, InCharge, Clean
<1> QED BY <1>3, <1>4 DEF y, e

\* Release, by a sender that leaves its row as r and its hooks at h
LEMMA Released ==
    ASSUME IInv, NEW s \in Senders, InCharge(sender[s]), sender[s].phase # "claimed",
           Release(s), UNCHANGED <<option, copies, waived, crashes>>,
           NEW r \in Row, NEW h \in Nat,
           row' = [row EXCEPT ![sender[s].delivery] = r],
           hooks' = [hooks EXCEPT ![sender[s].delivery] = h],
           RowSound(option[sender[s].delivery], r, copies[sender[s].delivery],
                    waived[sender[s].delivery], h),
           Moved(option[sender[s].delivery], row[sender[s].delivery], r,
                 copies[sender[s].delivery], copies[sender[s].delivery])
    PROVE  Advances
<1> DEFINE d == sender[s].delivery
           rest == sender[s].todo \ {d}
           loop == [Fresh(NoDelivery) EXCEPT
                      !.phase = IF rest = {} THEN "idle" ELSE "next", !.todo = rest]
           live == [Fresh(d) EXCEPT !.phase = "done"]
           phase == IF s \in Loops THEN IF rest = {} THEN "idle" ELSE "next" ELSE "done"
           todo == IF s \in Loops THEN rest ELSE {}
           e == IF s \in Deliveries THEN s ELSE NoDelivery
           y == [Fresh(e) EXCEPT !.phase = phase, !.todo = todo]
<1>b. /\ Senders = Deliveries \cup Loops
      /\ Deliveries \cap Loops = {}
  BY ConstantsAssumption DEF Senders
<1>1. d \in Deliveries /\ (s \in Deliveries => s = d)
  BY InChargeIsGood
<1>2. rest \subseteq Deliveries
  BY DEF IInv, TypeOK, Sender
<1>3. entriesInProgress' = entriesInProgress \ {d}
      /\ sender' = [sender EXCEPT ![s] = IF s \in Loops THEN loop ELSE live]
  BY DEF Release, Set, IsLoop
<1>4. (IF s \in Loops THEN loop ELSE live) = y
  <2>1. CASE s \in Loops
    BY <1>b, <2>1
  <2>2. CASE s \notin Loops
    <3>1. s \in Deliveries /\ s = d
      BY <1>1, <1>b, <2>2
    <3>2. live = [Fresh(s) EXCEPT !.phase = "done", !.todo = {}]
      <4>1. live = [Fresh(s) EXCEPT !.phase = "done"]
        BY <3>1
      <4>2. [Fresh(s) EXCEPT !.phase = "done"]
              = [Fresh(s) EXCEPT !.phase = "done", !.todo = {}]
        <5> DEFINE u == [Fresh(s) EXCEPT !.phase = "done"]
                   v == [Fresh(s) EXCEPT !.phase = "done", !.todo = {}]
        <5>1. /\ u = [Fresh(s) EXCEPT !.phase = "done"]
              /\ v = [Fresh(s) EXCEPT !.phase = "done", !.todo = {}]
          OBVIOUS
        <5> HIDE DEF u, v
        <5> DEFINE done ==
              [phase |-> "done", delivery |-> s, todo |-> {}, queued |-> FALSE,
               entryState |-> "none", unit |-> 1, pre |-> "none", post |-> "none",
               results |-> 0, partial |-> FALSE, allPre |-> TRUE, error |-> "none"]
        <5>2. u = done
          BY <5>1 DEF Fresh
        <5>3. v = done
          BY <5>1 DEF Fresh
        <5> QED BY <5>2, <5>3 DEF u, v
      <4> QED BY <4>1, <4>2
    <3>3. phase = "done" /\ todo = {}
      BY <2>2
    <3>a. e = s
      BY <3>1
    <3> HIDE DEF live, phase, todo, e
    <3>4. y = [Fresh(s) EXCEPT !.phase = "done", !.todo = {}]
      BY <3>a, <3>3
    <3> QED BY <2>2, <3>2, <3>4
  <2> QED BY <2>1, <2>2
<1>5. /\ s \in Deliveries => phase = "done" /\ todo = {}
      /\ s \in Loops => phase \in {"idle", "next"} /\ todo \subseteq Deliveries
  BY <1>b, <1>2
<1> HIDE DEF phase, todo, loop, live
<1>6. y \in Sender /\ Shape(s, y) /\ ~InCharge(y) /\ y.phase = phase
  BY <1>5, FreshSender
<1>7. y.phase \notin {"idle", "queued"} \/ s \in Loops
  BY <1>b, <1>5, <1>6
<1>8. sender' = [sender EXCEPT ![s] = y]
  BY <1>3, <1>4
<1> HIDE DEF y
<1>9. Changes(s, d, y, r, copies[d], waived[d], h)
  BY <1>1, <1>8, Unchanging DEF Changes
<1> QED BY <1>3, <1>6, <1>7, <1>9, Releases

\* Release, by a sender that ends as RowLeft says
LEMMA Leaves ==
    ASSUME IInv, NEW s \in Senders, InCharge(sender[s]), sender[s].phase # "claimed",
           Release(s), UNCHANGED <<option, copies, waived, crashes>>,
           NEW r, NEW when \in BOOLEAN,
           LET d == sender[s].delivery
           IN  /\ row' = [row EXCEPT ![d] = r]
               /\ RunCommitHooks(d, when)
               /\ when => r.status = "acked"
               /\ RowLeft(option[d], sender[s], row[d], copies[d], waived[d], r),
           Keeps(s, sender[s])
    PROVE  Advances
<1> DEFINE d == sender[s].delivery
           h == IF when THEN hooks[d] + 1 ELSE hooks[d]
<1>1. /\ d \in Deliveries
      /\ Good(s, sender[s], option[d], row[d], copies[d], waived[d], hooks[d])
  BY InChargeIsGood
<1>2. h = hooks[d] \/ (h = hooks[d] + 1 /\ r.status = "acked")
  OBVIOUS
<1>3. hooks' = [hooks EXCEPT ![d] = h]
  BY <1>1 DEF RunCommitHooks, IInv, TypeOK
<1> HIDE DEF h
<1>4. r \in Row /\ h \in Nat /\ RowSound(option[d], r, copies[d], waived[d], h)
  BY <1>1, <1>2, RowLeftSound
<1>5. Moved(option[d], row[d], r, copies[d], copies[d])
  BY <1>1, LeftMoved DEF Good, Typed
<1> QED BY <1>3, <1>4, <1>5, Released

LEMMA FinishDirectSafe ==
    ASSUME IInv, NEW s \in Deliveries, FinishDirect(s)
    PROVE  Advances
<1> DEFINE d == sender[s].delivery
           x == sender[s]
<1>0. s \in Senders
  BY DEF Senders
<1>1. x.phase \in {"ready", "threw"} /\ x.phase # "claimed" /\ InCharge(x) /\ ~x.queued
  BY DEF FinishDirect, Returned, InCharge
<1>2. /\ d \in Deliveries /\ s = d
      /\ Good(s, x, option[d], row[d], copies[d], waived[d], hooks[d])
  BY <1>0, <1>1, InChargeIsGood
<1>3. s \notin Loops
  BY ConstantsAssumption
<1>4. /\ row[d].status = "none" /\ hooks[d] = 0 /\ row[d] \in Row
      /\ RowSound(option[d], row[d], copies[d], waived[d], 0)
  BY <1>1, <1>2, <1>3 DEF Good, Local, Keeps, Direct, Typed
<1>5. PICK h \in {0, 1} : hooks' = [hooks EXCEPT ![d] = h]
  <2> DEFINE when == Returned(s) /\ x.results > 0
  <2>1. hooks' = [hooks EXCEPT ![d] = IF when THEN @ + 1 ELSE @]
    BY <1>2 DEF FinishDirect, RunCommitHooks
  <2> HIDE DEF when
  <2>2. hooks' = [hooks EXCEPT ![d] = IF when THEN 1 ELSE 0]
    BY <1>2, <1>4, <2>1 DEF IInv, TypeOK
  <2>3. CASE when
    BY <2>2, <2>3
  <2>4. CASE ~when
    BY <2>2, <2>4
  <2> QED BY <2>3, <2>4
<1>6. RowSound(option[d], row[d], copies[d], waived[d], h) /\ h \in Nat
  BY <1>4 DEF RowSound
<1>7. row' = [row EXCEPT ![d] = row[d]]
  BY <1>2, Unchanging DEF FinishDirect
<1>8. Release(s) /\ UNCHANGED <<option, copies, waived, crashes>>
  BY DEF FinishDirect
<1> QED BY <1>0, <1>1, <1>4, <1>5, <1>6, <1>7, <1>8, Still, Released

LEMMA RetryOutcome ==
    ASSUME NEW r, NEW m,
           m \in FailDeliveryAfterPlatformSend(r) \/ m \in FailDelivery(r)
    PROVE  \/ r.status = "pending" /\ m.ok = TRUE /\ m.row \in {Tried(r), TriedUnknown(r)}
           \/ m.ok = FALSE /\ m.row = r
<1>1. CASE m \in FailDeliveryAfterPlatformSend(r)
  <2>1. \/ r.status = "pending" /\ m.ok = TRUE /\ m.row = TriedUnknown(r)
        \/ m.ok = FALSE /\ m.row = r
    BY <1>1, UpdateOutcome DEF FailDeliveryAfterPlatformSend, TriedUnknown
  <2> QED BY <2>1
<1>2. CASE m \in FailDelivery(r)
  <2>1. \/ r.status = "pending" /\ m.ok = TRUE /\ m.row = Tried(r)
        \/ m.ok = FALSE /\ m.row = r
    BY <1>2, UpdateOutcome DEF FailDelivery, Tried
  <2> QED BY <2>1
<1> QED BY <1>1, <1>2

LEMMA NoHooks ==
    ASSUME IInv, NEW d \in Deliveries, UNCHANGED hooks
    PROVE  RunCommitHooks(d, FALSE)
BY DEF RunCommitHooks, IInv, TypeOK

\* What a sender that keeps a row knows
LEMMA KeeperKnows ==
    ASSUME IInv, NEW s \in Senders, InCharge(sender[s]), Keeps(s, sender[s])
    PROVE  LET d == sender[s].delivery
               x == sender[s]
           IN  /\ x \in Sender /\ option[d] \in Option /\ row[d] \in Row
               /\ Shape(s, x)
               /\ Progress(x, option[d], copies[d])
               /\ GivenUp(x, waived[d])
               /\ OnRow(x, option[d], row[d])
BY InChargeIsGood DEF Good, Typed, Local

LEMMA PersistLiveOutcomeSafe ==
    ASSUME IInv, NEW s \in Deliveries, PersistLiveOutcome(s)
    PROVE  Advances
<1> DEFINE d == sender[s].delivery
           x == sender[s]
           o == option[d]
           mayHaveSent == x.results > 0 \/ (~x.partial /\ x.pre = "marked")
<1>0. s \in Senders
  BY DEF Senders
<1>1. x.phase = "ready" /\ x.phase # "claimed" /\ InCharge(x) /\ x.queued /\ Keeps(s, x)
      /\ Returned(s)
  BY DEF PersistLiveOutcome, Returned, InCharge, Keeps
<1>b. d \in Deliveries /\ s = d
  BY <1>0, <1>1, InChargeIsGood
<1>2. /\ d \in Deliveries
      /\ Good(s, x, o, row[d], copies[d], waived[d], hooks[d])
  BY <1>0, <1>1, InChargeIsGood
<1>3. /\ x \in Sender /\ o \in Option /\ row[d] \in Row
      /\ Progress(x, o, copies[d]) /\ GivenUp(x, waived[d]) /\ OnRow(x, o, row[d])
  BY <1>0, <1>1, KeeperKnows
<1>4. x.unit > o.units /\ x.unit > 1 /\ x.results \in Nat
  <2>1. x.unit \in Nat /\ o.units \in Nat \ {0} /\ x.results \in Nat
    BY <1>3, ConstantsAssumption DEF Sender, Option
  <2> QED BY <1>1, <2>1 DEF Returned
<1>5. UNCHANGED <<option, copies, waived, hooks, crashes>>
  BY DEF PersistLiveOutcome
<1>6. ASSUME NEW post, NEW new, UNCHANGED entriesInProgress,
             row' = [row EXCEPT ![d] = new],
             sender' = [sender EXCEPT ![s] = [x EXCEPT !.phase = "finishing", !.post = post]],
             \/ new = row[d] /\ post = x.post
             \/ /\ x.results > 0 \/ ~x.partial
                /\ post # "threw"
                /\ \E m : PostState(row[d], x.post, m) /\ m.row = new /\ m.state = post
      PROVE  Advances
  <2> DEFINE y == [x EXCEPT !.phase = "finishing", !.post = post]
  <2>1. Ends(x, o, row[d], y, new, post)
    BY <1>1, <1>4, <1>6 DEF Ends
  <2>2. sender' = [sender EXCEPT ![s] = y]
    BY <1>6
  <2> HIDE DEF y
  <2>3. Good(s, y, o, new, copies[d], waived[d], hooks[d])
        /\ y.delivery = x.delivery /\ y.queued = x.queued
    <3>1. Keeps(s, x) /\ Good(s, x, o, row[d], copies[d], waived[d], hooks[d])
      BY <1>1, <1>2
    <3> HIDE DEF x, o
    <3> QED BY <1>0, <2>1, <3>1, GoesToAck
  <2>4. Changes(s, d, y, new, copies[d], waived[d], hooks[d])
    BY <1>2, <1>5, <1>6, <2>2, Unchanging DEF Changes
  <2>5. Moved(o, row[d], new, copies[d], copies[d])
    BY <1>3, <1>6, Still, PostStateMoved
  <2> QED BY <1>0, <1>1, <1>6, <2>3, <2>4, <2>5, GoesOn
<1>7. CASE ~mayHaveSent
  <2> DEFINE y == [x EXCEPT !.phase = "finishing"]
  <2>1. sender' = [sender EXCEPT ![s] = y] /\ row' = row /\ UNCHANGED entriesInProgress
    BY <1>b, <1>7 DEF PersistLiveOutcome, Set
  <2>2. y = [x EXCEPT !.phase = "finishing", !.post = x.post]
    BY <1>3 DEF Sender
  <2>3. row' = [row EXCEPT ![d] = row[d]]
    BY <1>2, <2>1, Unchanging
  <2> HIDE DEF y
  <2> QED BY <1>6, <2>1, <2>2, <2>3
<1>8. CASE mayHaveSent
  <2>1. PICK m \in PersistOnce(row[d], x.post) :
          /\ row' = [row EXCEPT ![d] = m.row]
          /\ IF \/ m.state = "threw"
                \/ x.partial /\ x.post = "none" /\ m.state # "marked"
             THEN Release(s)
             ELSE /\ Set(s, [x EXCEPT !.phase = "finishing", !.post = m.state])
                  /\ UNCHANGED entriesInProgress
    BY <1>b, <1>8 DEF PersistLiveOutcome
  <2>2. PostState(row[d], x.post, m)
    BY PersistOnceOutcome
  <2>3. CASE ~(m.state = "threw" \/ (x.partial /\ x.post = "none" /\ m.state # "marked"))
    <3> DEFINE new == m.row
               post == m.state
    <3>1. /\ row' = [row EXCEPT ![d] = new]
          /\ sender' = [sender EXCEPT ![s] = [x EXCEPT !.phase = "finishing", !.post = post]]
          /\ UNCHANGED entriesInProgress
      BY <2>1, <2>3 DEF Set
    <3>2. /\ x.results > 0 \/ ~x.partial
          /\ post # "threw"
          /\ \E k : PostState(row[d], x.post, k) /\ k.row = new /\ k.state = post
      BY <1>8, <2>2, <2>3
    <3> HIDE DEF new, post
    <3> QED BY <1>6, <3>1, <3>2
  <2>4. CASE m.state = "threw" \/ (x.partial /\ x.post = "none" /\ m.state # "marked")
    <3>1. SomeCopy(copies[d]) \/ waived[d] # {}
      BY <1>1, <1>3, <1>4, <1>8 DEF Progress, GivenUp, InCore
    <3>2. m.row = row[d] \/ x.post = "none"
      BY <2>2 DEF PostState
    <3>3. RowLeft(o, x, row[d], copies[d], waived[d], m.row)
      BY <2>2, <3>1, <3>2 DEF PostState, RowLeft
    <3>4. RunCommitHooks(d, FALSE)
      BY <1>2, <1>5, NoHooks
    <3> QED BY <1>0, <1>1, <1>5, <2>1, <2>4, <3>3, <3>4, Leaves
  <2> QED BY <2>3, <2>4
<1> QED BY <1>7, <1>8

LEMMA FinishLiveSafe ==
    ASSUME IInv, NEW s \in Deliveries, FinishLive(s)
    PROVE  Advances
<1> DEFINE d == sender[s].delivery
           x == sender[s]
           o == option[d]
           sent == x.results > 0
           outcomes ==
             IF x.post \in {"acked", "failed"} THEN {row[d]}
             ELSE IF x.partial
             THEN {w.row : w \in RecordFailure(row[d], ~sent /\ x.allPre)}
             ELSE UNION {IF a.ok THEN {a.row}
                         ELSE {w.row : w \in IF sent \/ x.pre # "none"
                                             THEN FailDeliveryAfterPlatformSend(a.row)
                                             ELSE FailDelivery(a.row)} :
                         a \in AckDelivery(row[d])}
<1>0. s \in Senders
  BY DEF Senders
<1>1. x.phase = "finishing" /\ x.phase # "claimed" /\ InCharge(x)
  BY DEF FinishLive, InCharge
<1>2. /\ d \in Deliveries /\ s = d
      /\ Good(s, x, o, row[d], copies[d], waived[d], hooks[d])
  BY <1>0, <1>1, InChargeIsGood
<1>a. Keeps(s, x)
  BY <1>1, <1>2 DEF Good, Local, Direct, InCore
<1>3. /\ x \in Sender /\ o \in Option /\ row[d] \in Row
      /\ Progress(x, o, copies[d]) /\ GivenUp(x, waived[d]) /\ OnRow(x, o, row[d])
  BY <1>0, <1>1, <1>a, KeeperKnows
<1>4. UNCHANGED <<option, copies, waived, crashes>> /\ Release(s)
  BY <1>2 DEF FinishLive
<1>5. PICK r \in outcomes :
        /\ row' = [row EXCEPT ![d] = r]
        /\ RunCommitHooks(d, sent /\ r.status = "acked")
  <2> DEFINE left(e) ==
        IF sender[e].post \in {"acked", "failed"} THEN {row[e]}
        ELSE IF sender[e].partial
        THEN {w.row : w \in RecordFailure(row[e], ~(sender[e].results > 0) /\ sender[e].allPre)}
        ELSE UNION {IF a.ok THEN {a.row}
                    ELSE {w.row : w \in IF sender[e].results > 0 \/ sender[e].pre # "none"
                                        THEN FailDeliveryAfterPlatformSend(a.row)
                                        ELSE FailDelivery(a.row)} :
                    a \in AckDelivery(row[e])}
  <2>1. \E r \in left(s) :
          /\ row' = [row EXCEPT ![s] = r]
          /\ RunCommitHooks(s, sender[s].results > 0 /\ r.status = "acked")
    BY DEF FinishLive
  <2>2. s = d
    BY <1>2
  <2>3. left(s) = outcomes
    BY <2>2
  <2> HIDE DEF left, outcomes
  <2> QED BY <2>1, <2>2, <2>3
<1>6. RowLeft(o, x, row[d], copies[d], waived[d], r)
  <2>1. CASE x.post \in {"acked", "failed"}
    <3>1. r = row[d]
      BY <1>5, <2>1
    <3> QED BY <3>1 DEF RowLeft
  <2>2. CASE x.post \notin {"acked", "failed"} /\ x.partial
    <3> DEFINE pre == ~sent /\ x.allPre
    <3>0. pre \in BOOLEAN
      OBVIOUS
    <3>1. PICK m \in RecordFailure(row[d], pre) : r = m.row
      BY <1>5, <2>2
    <3>a. pre => NoCopies(copies[d]) /\ (row[d].status = "pending"
                    => row[d].recoveryState # "unknown_after_send")
      <4>1. SUFFICES ASSUME pre PROVE NoCopies(copies[d]) /\ (row[d].status = "pending"
                    => row[d].recoveryState # "unknown_after_send")
        OBVIOUS
      <4>2. x.results = 0 /\ x.allPre /\ x.error = "none"
        BY <1>1, <1>3, <4>1, ConstantsAssumption DEF Sender, Progress
      <4> QED BY <1>1, <1>3, <2>2, <4>2 DEF Progress, OnRow
    <3> HIDE DEF pre
    <3>2. \/ /\ row[d].status = "pending"
             /\ r = IF pre THEN TriedClean(row[d]) ELSE Tried(row[d])
          \/ r = row[d]
      <4> DEFINE q == row[d]
      <4>1. m \in RecordFailure(q, pre)
        BY <3>1
      <4> HIDE DEF q
      <4>2. \/ /\ q.status = "pending" /\ m.ok = TRUE
               /\ m.row = IF pre THEN TriedClean(q) ELSE Tried(q)
            \/ m.ok = FALSE /\ m.row = q
        BY <3>0, <4>1, FailureOutcome, Zenon
      <4> QED BY <3>1, <4>2 DEF q
    <3>3. CASE pre
      BY <2>2, <3>2, <3>3, <3>a DEF RowLeft
    <3>4. CASE ~pre
      BY <2>2, <3>2, <3>4 DEF RowLeft
    <3> QED BY <3>3, <3>4
  <2>3. CASE x.post \notin {"acked", "failed"} /\ ~x.partial
    <3>a. SomeCopy(copies[d]) \/ waived[d] # {}
      <4>1. x.results = 0 \/ x.results > 0
        BY <1>3, ConstantsAssumption DEF Sender
      <4> QED BY <1>1, <1>3, <2>3, <4>1 DEF Progress, GivenUp
    <3>1. PICK a \in AckDelivery(row[d]) :
            r \in IF a.ok THEN {a.row}
                  ELSE {w.row : w \in IF sent \/ x.pre # "none"
                                      THEN FailDeliveryAfterPlatformSend(a.row)
                                      ELSE FailDelivery(a.row)}
      BY <1>5, <2>3
    <3>2. \/ a.ok = TRUE /\ a.row = Acked(row[d])
          \/ a.ok = FALSE /\ a.row = row[d]
      BY AckOutcome
    <3>3. CASE a.ok = TRUE
      <4>1. r = Acked(row[d])
        BY <3>1, <3>2, <3>3
      <4> QED BY <3>a, <4>1 DEF RowLeft
    <3>4. CASE a.ok = FALSE
      <4>1. PICK m : /\ m \in FailDeliveryAfterPlatformSend(row[d])
                            \/ m \in FailDelivery(row[d])
                     /\ r = m.row
        <5>1. r \in {w.row : w \in IF sent \/ x.pre # "none"
                                   THEN FailDeliveryAfterPlatformSend(row[d])
                                   ELSE FailDelivery(row[d])}
          BY <3>1, <3>2, <3>4
        <5>2. CASE sent \/ x.pre # "none"
          BY <5>1, <5>2
        <5>3. CASE ~(sent \/ x.pre # "none")
          BY <5>1, <5>3
        <5> QED BY <5>2, <5>3
      <4>2. \/ row[d].status = "pending" /\ m.row \in {Tried(row[d]), TriedUnknown(row[d])}
            \/ m.row = row[d]
        BY <4>1, RetryOutcome
      <4> QED BY <2>3, <4>1, <4>2 DEF RowLeft
    <3> QED BY <3>2, <3>3, <3>4
  <2> QED BY <2>1, <2>2, <2>3
<1> HIDE DEF outcomes
<1> QED BY <1>0, <1>1, <1>a, <1>4, <1>5, <1>6, Leaves

LEMMA DeadLetterOutcome ==
    ASSUME NEW r, NEW m \in MoveToFailed(r)
    PROVE  \/ r.status = "pending" /\ m.ok = TRUE /\ m.row = DeadLetter(r)
           \/ m.ok = FALSE /\ m.row = r
BY UpdateOutcome DEF MoveToFailed, DeadLetter

LEMMA FailureLeft ==
    ASSUME NEW o, NEW x, NEW r, NEW c, NEW w, NEW pre \in BOOLEAN,
           NEW m \in RecordFailure(r, pre),
           x.post # "failed",
           pre => NoCopies(c),
           pre /\ r.status = "pending" => r.recoveryState # "unknown_after_send"
    PROVE  RowLeft(o, x, r, c, w, m.row)
<1>1. \/ /\ r.status = "pending" /\ m.ok = TRUE
         /\ m.row = IF pre THEN TriedClean(r) ELSE Tried(r)
      \/ m.ok = FALSE /\ m.row = r
  BY FailureOutcome
<1>2. CASE pre
  BY <1>1, <1>2 DEF RowLeft
<1>3. CASE ~pre
  BY <1>1, <1>3 DEF RowLeft
<1> QED BY <1>2, <1>3

LEMMA PostStateLeft ==
    ASSUME NEW o, NEW x, NEW r, NEW c, NEW w, NEW m,
           PostState(r, x.post, m),
           SomeCopy(c) \/ w # {}
    PROVE  RowLeft(o, x, r, c, w, m.row)
<1>1. CASE x.post # "none"
  BY <1>1 DEF PostState, RowLeft
<1>2. CASE x.post = "none"
  BY <1>2 DEF PostState, RowLeft
<1> QED BY <1>1, <1>2

LEMMA CatchLiveSafe ==
    ASSUME IInv, NEW s \in Deliveries, CatchLive(s)
    PROVE  Advances
<1> DEFINE d == sender[s].delivery
           x == sender[s]
           o == option[d]
           sent == x.results > 0
           outcomes ==
             IF x.error = "abort" THEN {w.row : w \in AckDelivery(row[d])}
             ELSE IF sent
             THEN UNION {IF w.state = "marked"
                         THEN {f.row : f \in FailDeliveryAfterPlatformSend(w.row)}
                         ELSE {w.row} : w \in PersistOnce(row[d], x.post)}
             ELSE {w.row : w \in RecordFailure(row[d], x.error = "pre")}
<1>0. s \in Senders
  BY DEF Senders
<1>1. x.phase = "threw" /\ x.phase # "claimed" /\ InCharge(x) /\ x.queued /\ Keeps(s, x)
  BY DEF CatchLive, InCharge, Keeps
<1>2. d \in Deliveries /\ s = d
  BY <1>0, <1>1, InChargeIsGood
<1>3. /\ x \in Sender /\ o \in Option /\ row[d] \in Row
      /\ Progress(x, o, copies[d]) /\ GivenUp(x, waived[d]) /\ OnRow(x, o, row[d])
  BY <1>0, <1>1, KeeperKnows
<1>4. UNCHANGED <<option, copies, waived, crashes>> /\ Release(s)
  BY <1>2 DEF CatchLive
<1>5. PICK r \in outcomes :
        /\ row' = [row EXCEPT ![d] = r]
        /\ RunCommitHooks(d, x.error # "abort" /\ sent /\ r.status = "acked")
  BY <1>2 DEF CatchLive
<1>6. RowLeft(o, x, row[d], copies[d], waived[d], r)
  <2>1. CASE x.error = "abort"
    <3>1. waived[d] # {}
      BY <1>3, <2>1 DEF GivenUp
    <3>2. PICK a \in AckDelivery(row[d]) : r = a.row
      BY <1>5, <2>1
    <3>3. r = Acked(row[d]) \/ r = row[d]
      BY <3>2, AckOutcome
    <3> QED BY <3>1, <3>3 DEF RowLeft
  <2>2. CASE x.error # "abort" /\ sent
    <3>1. SomeCopy(copies[d])
      BY <1>3, <2>2 DEF Progress
    <3>2. PICK m \in PersistOnce(row[d], x.post) :
            r \in IF m.state = "marked"
                  THEN {f.row : f \in FailDeliveryAfterPlatformSend(m.row)}
                  ELSE {m.row}
      BY <1>5, <2>2
    <3>3. PostState(row[d], x.post, m)
      BY PersistOnceOutcome
    <3>4. CASE m.state # "marked"
      <4>1. r = m.row
        BY <3>2, <3>4
      <4> QED BY <3>1, <3>3, <4>1, PostStateLeft
    <3>5. CASE m.state = "marked"
      <4>1. PICK f \in FailDeliveryAfterPlatformSend(m.row) : r = f.row
        BY <3>2, <3>5
      <4>2. \/ m.row.status = "pending" /\ r = TriedUnknown(m.row)
            \/ r = m.row
        <5>1. f \in Update(m.row, TriedUnknown(m.row))
          BY <4>1 DEF FailDeliveryAfterPlatformSend, TriedUnknown
        <5> DEFINE q == m.row
        <5>2. f \in Update(q, TriedUnknown(q))
          BY <5>1
        <5> HIDE DEF q
        <5>3. \/ q.status = "pending" /\ f.row = TriedUnknown(q)
              \/ f.row = q
          BY <5>2, UpdateOutcome
        <5> QED BY <4>1, <5>3 DEF q
      <4>3. \/ m.row = row[d] /\ x.post = "marked"
            \/ row[d].status = "pending" /\ m.row = Unknown(row[d]) /\ x.post = "none"
        BY <3>3, <3>5 DEF PostState
      <4>4. row[d] \in Row
        BY <1>3
      <4>5. TriedUnknown(Unknown(row[d])) = TriedUnknown(row[d])
        BY <4>4 DEF TriedUnknown, Unknown, Row
      <4>6. m.row.status = row[d].status
        BY <4>3, <4>4 DEF Unknown, Row
      <4> QED BY <4>2, <4>3, <4>5, <4>6 DEF RowLeft
    <3> QED BY <3>4, <3>5
  <2>3. CASE x.error # "abort" /\ ~sent
    <3> DEFINE pre == x.error = "pre"
    <3>1. PICK m \in RecordFailure(row[d], pre) : r = m.row
      BY <1>5, <2>3
    <3>2. x.results = 0
      BY <1>3, <2>3, ConstantsAssumption DEF Sender
    <3>3. pre => NoCopies(copies[d])
      BY <1>1, <1>3, <3>2 DEF Progress
    <3>4. x.post # "failed"
      BY <1>1, <1>3, <3>2 DEF OnRow
    <3>5. row[d].status = "pending" => row[d].recoveryState # "unknown_after_send"
      BY <1>1, <1>3, <3>2 DEF OnRow
    <3>6. pre \in BOOLEAN
      OBVIOUS
    <3> HIDE DEF pre
    <3> QED BY <3>1, <3>3, <3>4, <3>5, <3>6, FailureLeft
  <2> QED BY <2>1, <2>2, <2>3
<1> DEFINE when == x.error # "abort" /\ sent /\ r.status = "acked"
<1>7. when \in BOOLEAN /\ (when => r.status = "acked") /\ RunCommitHooks(d, when)
  BY <1>5
<1> HIDE DEF outcomes, when
<1> QED BY <1>0, <1>1, <1>4, <1>5, <1>6, <1>7, Leaves

LEMMA CatchLoopSafe ==
    ASSUME IInv, NEW s \in Loops, CatchLoop(s)
    PROVE  Advances
<1> DEFINE d == sender[s].delivery
           x == sender[s]
           o == option[d]
           hasSendEvidence == x.results > 0 \/ x.post # "none"
           outcomes ==
             IF hasSendEvidence
             THEN {[row |-> w.row, acked |-> w.state = "acked"] :
                     w \in PersistOnce(row[d], x.post)}
             ELSE {[row |-> w.row, acked |-> FALSE] :
                     w \in IF x.error = "permanent" THEN MoveToFailed(row[d])
                           ELSE RecordFailure(row[d], x.error = "pre")}
<1>0. s \in Senders
  BY DEF Senders
<1>1. x.phase = "threw" /\ x.phase # "claimed" /\ InCharge(x) /\ Keeps(s, x)
  BY DEF CatchLoop, InCharge, Keeps
<1>2. d \in Deliveries
  BY <1>0, <1>1, InChargeIsGood
<1>3. /\ x \in Sender /\ o \in Option /\ row[d] \in Row /\ ~x.queued
      /\ Progress(x, o, copies[d]) /\ GivenUp(x, waived[d]) /\ OnRow(x, o, row[d])
  BY <1>0, <1>1, KeeperKnows DEF Shape
<1>4. UNCHANGED <<option, copies, waived, crashes>> /\ Release(s)
  BY DEF CatchLoop
<1>5. PICK a \in outcomes :
        /\ row' = [row EXCEPT ![d] = a.row]
        /\ RunCommitHooks(d, a.acked /\ x.results > 0)
  BY DEF CatchLoop
<1>6. RowLeft(o, x, row[d], copies[d], waived[d], a.row)
      /\ (a.acked => a.row.status = "acked") /\ a.acked \in BOOLEAN
  <2>1. CASE hasSendEvidence
    <3>1. x.results > 0
      BY <1>3, <2>1 DEF OnRow
    <3>2. SomeCopy(copies[d])
      BY <1>3, <3>1 DEF Progress
    <3>3. PICK m \in PersistOnce(row[d], x.post) :
            a = [row |-> m.row, acked |-> m.state = "acked"]
      BY <1>5, <2>1
    <3>4. PostState(row[d], x.post, m)
      BY PersistOnceOutcome
    <3>5. RowLeft(o, x, row[d], copies[d], waived[d], m.row)
      BY <3>2, <3>4, PostStateLeft
    <3>6. m.state = "acked" => m.row.status = "acked"
      BY <1>3, <3>4 DEF PostState, OnRow, Acked, Row
    <3> QED BY <3>3, <3>5, <3>6
  <2>2. CASE ~hasSendEvidence /\ x.error = "permanent"
    <3>1. PICK m \in MoveToFailed(row[d]) : a = [row |-> m.row, acked |-> FALSE]
      BY <1>5, <2>2
    <3>2. \/ row[d].status = "pending" /\ m.ok = TRUE /\ m.row = DeadLetter(row[d])
          \/ m.ok = FALSE /\ m.row = row[d]
      BY DeadLetterOutcome
    <3>3. a.row = m.row /\ a.acked = FALSE
      BY <3>1
    <3> QED BY <3>2, <3>3 DEF RowLeft
  <2>3. CASE ~hasSendEvidence /\ x.error # "permanent"
    <3> DEFINE pre == x.error = "pre"
    <3>1. PICK m \in RecordFailure(row[d], pre) : a = [row |-> m.row, acked |-> FALSE]
      BY <1>5, <2>3
    <3>2. x.results = 0 /\ x.post # "failed"
      BY <1>3, <2>3, ConstantsAssumption DEF Sender
    <3>3. pre => NoCopies(copies[d])
      BY <1>1, <1>3, <3>2 DEF Progress
    <3>5. row[d].status = "pending" => row[d].recoveryState # "unknown_after_send"
      BY <1>1, <1>3, <3>2 DEF OnRow
    <3>6. pre \in BOOLEAN
      OBVIOUS
    <3>7. a.row = m.row /\ a.acked = FALSE
      BY <3>1
    <3> HIDE DEF pre
    <3>8. RowLeft(o, x, row[d], copies[d], waived[d], m.row)
      BY <3>1, <3>2, <3>3, <3>5, <3>6, FailureLeft
    <3> QED BY <3>7, <3>8
  <2> QED BY <2>1, <2>2, <2>3
<1> DEFINE when == a.acked /\ x.results > 0
           r == a.row
<1>7. /\ when \in BOOLEAN /\ (when => r.status = "acked") /\ RunCommitHooks(d, when)
      /\ row' = [row EXCEPT ![d] = r]
      /\ RowLeft(o, x, row[d], copies[d], waived[d], r)
  BY <1>5, <1>6
<1> HIDE DEF outcomes, when, r
<1> QED BY <1>0, <1>1, <1>4, <1>7, Leaves

LEMMA PersistLoopOutcomeSafe ==
    ASSUME IInv, NEW s \in Loops, PersistLoopOutcome(s)
    PROVE  Advances
<1> DEFINE d == sender[s].delivery
           x == sender[s]
           o == option[d]
           sent == x.results > 0
<1>0. s \in Senders
  BY DEF Senders
<1>1. x.phase = "ready" /\ x.phase # "claimed" /\ InCharge(x) /\ Keeps(s, x) /\ Returned(s)
  BY DEF PersistLoopOutcome, Returned, InCharge, Keeps
<1>2. d \in Deliveries
      /\ Good(s, x, o, row[d], copies[d], waived[d], hooks[d])
  BY <1>0, <1>1, InChargeIsGood
<1>3. /\ x \in Sender /\ o \in Option /\ row[d] \in Row /\ ~x.queued
      /\ Progress(x, o, copies[d]) /\ GivenUp(x, waived[d]) /\ OnRow(x, o, row[d])
  BY <1>0, <1>1, KeeperKnows DEF Shape
<1>4. x.unit > o.units /\ x.unit > 1 /\ (x.results = 0 \/ sent)
  <2>1. x.unit \in Nat /\ o.units \in Nat \ {0} /\ x.results \in Nat
    BY <1>3, ConstantsAssumption DEF Sender, Option
  <2> QED BY <1>1, <2>1 DEF Returned
<1>5. UNCHANGED <<option, copies, waived, crashes>>
  BY DEF PersistLoopOutcome
<1>6. ASSUME NEW y, NEW new, UNCHANGED <<hooks, entriesInProgress>>,
             row' = [row EXCEPT ![d] = new],
             sender' = [sender EXCEPT ![s] = y],
             Good(s, y, o, new, copies[d], waived[d], hooks[d])
               /\ y.delivery = x.delivery /\ y.queued = x.queued,
             Moved(o, row[d], new, copies[d], copies[d])
      PROVE  Advances
  <2>1. Changes(s, d, y, new, copies[d], waived[d], hooks[d])
    BY <1>2, <1>5, <1>6, Unchanging DEF Changes
  <2> QED BY <1>0, <1>1, <1>6, <2>1, GoesOn
\* The failure to persist is caught by the loop.
<1>7. ASSUME NEW post, post = x.post, UNCHANGED <<hooks, entriesInProgress>>,
             row' = [row EXCEPT ![d] = row[d]],
             sender' = [sender EXCEPT ![s] =
               [x EXCEPT !.phase = "threw", !.error = "other", !.post = post]]
      PROVE  Advances
  <2> DEFINE y == [x EXCEPT !.phase = "threw", !.error = "other"]
  <2>1. ThrowsAs(x, y)
    BY <1>1 DEF ThrowsAs
  <2>2. [x EXCEPT !.phase = "threw", !.error = "other", !.post = post] = y
    BY <1>3, <1>7 DEF Sender
  <2>3. sender' = [sender EXCEPT ![s] = y]
    BY <1>7, <2>2
  <2> HIDE DEF y
  <2>4. Good(s, y, o, row[d], copies[d], waived[d], hooks[d])
        /\ y.delivery = x.delivery /\ y.queued = x.queued
    BY <1>2, <2>1, LoopThrows
  <2> QED BY <1>6, <1>7, <2>3, <2>4, Still
<1>8. ASSUME NEW post, NEW new, UNCHANGED <<hooks, entriesInProgress>>,
             row' = [row EXCEPT ![d] = new],
             sender' = [sender EXCEPT ![s] = [x EXCEPT !.phase = "finishing", !.post = post]],
             \/ new = row[d] /\ post = x.post /\ ~x.partial
             \/ /\ sent /\ post # "threw"
                /\ \E m : PostState(row[d], x.post, m) /\ m.row = new /\ m.state = post,
             post # "failed"
      PROVE  Advances
  <2> DEFINE y == [x EXCEPT !.phase = "finishing", !.post = post]
  <2>1. Ends(x, o, row[d], y, new, post)
    BY <1>1, <1>4, <1>8 DEF Ends
  <2>2. sender' = [sender EXCEPT ![s] = y]
    BY <1>8
  <2> HIDE DEF y
  <2>3. Good(s, y, o, new, copies[d], waived[d], hooks[d])
        /\ y.delivery = x.delivery /\ y.queued = x.queued
    <3>1. Keeps(s, x) /\ Good(s, x, o, row[d], copies[d], waived[d], hooks[d])
      BY <1>1, <1>2
    <3> HIDE DEF x, o
    <3> QED BY <1>0, <2>1, <3>1, GoesToAck
  <2>4. Moved(o, row[d], new, copies[d], copies[d])
    BY <1>3, <1>8, Still, PostStateMoved
  <2> QED BY <1>6, <1>8, <2>2, <2>3, <2>4
<1>9. CASE sent
  <2>1. PICK m \in PersistOnce(row[d], x.post) :
          /\ row' = [row EXCEPT ![d] = m.row]
          /\ IF m.state = "threw"
             THEN /\ Set(s, [x EXCEPT !.phase = "threw", !.error = "other", !.post = "none"])
                  /\ UNCHANGED <<hooks, entriesInProgress>>
             ELSE IF m.state = "marked" /\ ~x.partial
             THEN /\ Set(s, [x EXCEPT !.phase = "finishing", !.post = "marked"])
                  /\ UNCHANGED <<hooks, entriesInProgress>>
             ELSE Release(s) /\ RunCommitHooks(d, m.state = "acked")
    BY <1>9 DEF PersistLoopOutcome
  <2>2. PostState(row[d], x.post, m)
    BY PersistOnceOutcome
  <2>3. CASE m.state = "threw"
    <3>1. m.row = row[d] /\ x.post = "none"
      BY <1>3, <2>2, <2>3 DEF PostState, Sender
    <3>2. sender' = [sender EXCEPT ![s] =
            [x EXCEPT !.phase = "threw", !.error = "other", !.post = "none"]]
          /\ UNCHANGED <<hooks, entriesInProgress>>
      BY <2>1, <2>3 DEF Set
    <3> QED BY <1>7, <2>1, <3>1, <3>2
  <2>4. CASE m.state = "marked" /\ ~x.partial
    <3> DEFINE new == m.row
               post == m.state
    <3>1. /\ row' = [row EXCEPT ![d] = new]
          /\ sender' = [sender EXCEPT ![s] = [x EXCEPT !.phase = "finishing", !.post = post]]
          /\ UNCHANGED <<hooks, entriesInProgress>>
      BY <2>1, <2>4 DEF Set
    <3>2. /\ sent /\ post # "threw" /\ post # "failed"
          /\ \E k : PostState(row[d], x.post, k) /\ k.row = new /\ k.state = post
      BY <1>9, <2>2, <2>4
    <3> HIDE DEF new, post
    <3> QED BY <1>8, <3>1, <3>2
  <2>5. CASE m.state # "threw" /\ ~(m.state = "marked" /\ ~x.partial)
    <3>1. SomeCopy(copies[d])
      BY <1>3, <1>9 DEF Progress
    <3> DEFINE r == m.row
               when == m.state = "acked"
    <3>2. RowLeft(o, x, row[d], copies[d], waived[d], r)
      BY <2>2, <3>1, PostStateLeft
    <3>3. when => r.status = "acked"
      BY <1>3, <2>2 DEF PostState, OnRow, Acked, Row
    <3>4. /\ row' = [row EXCEPT ![d] = r]
          /\ Release(s) /\ RunCommitHooks(d, when) /\ when \in BOOLEAN
      BY <2>1, <2>5
    <3> HIDE DEF r, when
    <3> QED BY <1>0, <1>1, <1>5, <3>2, <3>3, <3>4, Leaves
  <2> QED BY <2>3, <2>4, <2>5
<1>10. CASE ~sent /\ x.partial
  <2>1. PICK m \in RecordFailure(row[d], x.allPre) :
          /\ row' = [row EXCEPT ![d] = m.row]
          /\ IF m.ok THEN Release(s)
             ELSE /\ Set(s, [x EXCEPT !.phase = "threw", !.error = "other", !.post = x.post])
                  /\ UNCHANGED entriesInProgress
          /\ UNCHANGED hooks
    BY <1>10 DEF PersistLoopOutcome
  <2>a. x.results = 0 /\ x.post # "failed" /\ x.allPre \in BOOLEAN /\ x.error = "none"
    BY <1>1, <1>3, <1>4, <1>10 DEF OnRow, Sender, Progress
  <2>2. \/ m.ok = TRUE
        \/ m.ok = FALSE /\ m.row = row[d]
    <3> DEFINE q == row[d]
               pre == x.allPre
    <3>1. m \in RecordFailure(q, pre) /\ pre \in BOOLEAN
      BY <2>1, <2>a
    <3> HIDE DEF q, pre
    <3>2. m.ok = TRUE \/ (m.ok = FALSE /\ m.row = q)
      BY <3>1, FailureOutcome, Zenon
    <3> QED BY <3>2 DEF q
  <2>3. CASE m.ok = FALSE
    <3>1. sender' = [sender EXCEPT ![s] =
            [x EXCEPT !.phase = "threw", !.error = "other", !.post = x.post]]
          /\ UNCHANGED <<hooks, entriesInProgress>>
      BY <2>1, <2>3 DEF Set
    <3> QED BY <1>7, <2>1, <2>2, <2>3, <3>1
  <2>4. CASE m.ok = TRUE
    <3> DEFINE r == m.row
    <3>1. x.allPre => NoCopies(copies[d])
      BY <1>1, <1>3, <2>a DEF Progress
    <3>2. row[d].status = "pending" => row[d].recoveryState # "unknown_after_send"
      BY <1>1, <1>3, <2>a DEF OnRow
    <3>3. RowLeft(o, x, row[d], copies[d], waived[d], r)
      BY <2>a, <3>1, <3>2, FailureLeft
    <3>4. row' = [row EXCEPT ![d] = r] /\ Release(s) /\ RunCommitHooks(d, FALSE)
      BY <1>2, <2>1, <2>4, NoHooks
    <3> HIDE DEF r
    <3> QED BY <1>0, <1>1, <1>5, <3>3, <3>4, Leaves
  <2> QED BY <2>2, <2>3, <2>4
<1>11. CASE ~sent /\ ~x.partial
  <2> DEFINE y == [x EXCEPT !.phase = "finishing"]
  <2>1. sender' = [sender EXCEPT ![s] = y] /\ row' = row
        /\ UNCHANGED <<hooks, entriesInProgress>>
    BY <1>11 DEF PersistLoopOutcome, Set
  <2>2. y = [x EXCEPT !.phase = "finishing", !.post = x.post]
    BY <1>3 DEF Sender
  <2>3. row' = [row EXCEPT ![d] = row[d]]
    BY <1>2, <2>1, Unchanging
  <2>4. x.post # "failed"
    BY <1>1, <1>3, <1>11 DEF OnRow
  <2> HIDE DEF y
  <2> QED BY <1>8, <1>11, <2>1, <2>2, <2>3, <2>4
<1> QED BY <1>9, <1>10, <1>11

LEMMA FinishLoopSafe ==
    ASSUME IInv, NEW s \in Loops, FinishLoop(s)
    PROVE  Advances
<1> DEFINE d == sender[s].delivery
           x == sender[s]
           o == option[d]
           sent == x.results > 0
<1>0. s \in Senders
  BY DEF Senders
<1>1. x.phase = "finishing" /\ x.phase # "claimed" /\ InCharge(x) /\ Keeps(s, x)
  BY DEF FinishLoop, InCharge, Keeps
<1>2. d \in Deliveries
      /\ Good(s, x, o, row[d], copies[d], waived[d], hooks[d])
  BY <1>0, <1>1, InChargeIsGood
<1>3. /\ x \in Sender /\ row[d] \in Row /\ ~x.queued
      /\ Progress(x, o, copies[d]) /\ GivenUp(x, waived[d]) /\ OnRow(x, o, row[d])
  BY <1>0, <1>1, KeeperKnows DEF Shape
<1>4. SomeCopy(copies[d]) \/ waived[d] # {}
  <2>1. x.results = 0 \/ x.results > 0
    BY <1>3, ConstantsAssumption DEF Sender
  <2> QED BY <1>1, <1>3, <2>1 DEF Progress, GivenUp
<1>5. UNCHANGED <<option, copies, waived, crashes>>
  BY DEF FinishLoop
<1>6. PICK a \in AckDelivery(row[d]) :
        IF a.ok
        THEN /\ row' = [row EXCEPT ![d] = a.row]
             /\ RunCommitHooks(d, sent)
             /\ Release(s)
        ELSE \E f \in IF sent THEN FailDeliveryAfterPlatformSend(a.row)
                      ELSE FailDelivery(a.row) :
               /\ row' = [row EXCEPT ![d] = f.row]
               /\ IF f.ok THEN Release(s)
                  ELSE /\ Set(s, [x EXCEPT !.phase = "threw", !.error = "other"])
                       /\ UNCHANGED entriesInProgress
               /\ UNCHANGED hooks
  BY DEF FinishLoop
<1>7. \/ a.ok = TRUE /\ a.row = Acked(row[d])
      \/ a.ok = FALSE /\ a.row = row[d]
  BY AckOutcome
<1>8. CASE a.ok = TRUE
  <2> DEFINE r == a.row
  <2>1. RowLeft(o, x, row[d], copies[d], waived[d], r) /\ r.status = "acked"
    BY <1>3, <1>4, <1>7, <1>8 DEF RowLeft, OnRow, Acked, Row
  <2>2. /\ row' = [row EXCEPT ![d] = r] /\ RunCommitHooks(d, sent)
        /\ Release(s) /\ sent \in BOOLEAN
    BY <1>6, <1>8
  <2> HIDE DEF r, sent
  <2> QED BY <1>0, <1>1, <1>5, <2>1, <2>2, Leaves
<1>9. CASE a.ok = FALSE
  <2>1. PICK f : /\ f \in FailDeliveryAfterPlatformSend(row[d]) \/ f \in FailDelivery(row[d])
                 /\ row' = [row EXCEPT ![d] = f.row]
                 /\ IF f.ok THEN Release(s)
                    ELSE /\ Set(s, [x EXCEPT !.phase = "threw", !.error = "other"])
                         /\ UNCHANGED entriesInProgress
                 /\ UNCHANGED hooks
    <3>1. CASE sent
      BY <1>6, <1>7, <1>9, <3>1
    <3>2. CASE ~sent
      BY <1>6, <1>7, <1>9, <3>2
    <3> QED BY <3>1, <3>2
  <2>2. \/ row[d].status = "pending" /\ f.ok = TRUE /\ f.row \in {Tried(row[d]), TriedUnknown(row[d])}
        \/ f.ok = FALSE /\ f.row = row[d]
    BY <2>1, RetryOutcome
  <2>3. CASE f.ok = FALSE
    <3> DEFINE y == [x EXCEPT !.phase = "threw", !.error = "other"]
    <3>1. ThrowsAs(x, y)
      BY <1>1 DEF ThrowsAs
    <3>2. /\ sender' = [sender EXCEPT ![s] = y] /\ row' = [row EXCEPT ![d] = row[d]]
          /\ UNCHANGED <<hooks, entriesInProgress>>
      BY <2>1, <2>2, <2>3 DEF Set
    <3> HIDE DEF y
    <3>3. Good(s, y, o, row[d], copies[d], waived[d], hooks[d])
          /\ y.delivery = x.delivery /\ y.queued = x.queued
      BY <1>2, <3>1, LoopThrows
    <3>4. Changes(s, d, y, row[d], copies[d], waived[d], hooks[d])
      BY <1>2, <1>5, <3>2, Unchanging DEF Changes
    <3> QED BY <1>0, <1>1, <3>2, <3>3, <3>4, Still, GoesOn
  <2>4. CASE f.ok = TRUE /\ x.post # "failed"
    <3> DEFINE r == f.row
    <3>1. RowLeft(o, x, row[d], copies[d], waived[d], r)
      BY <2>2, <2>4 DEF RowLeft
    <3>2. row' = [row EXCEPT ![d] = r] /\ Release(s) /\ RunCommitHooks(d, FALSE)
      BY <1>2, <2>1, <2>4, NoHooks
    <3> HIDE DEF r
    <3> QED BY <1>0, <1>1, <1>5, <3>1, <3>2, Leaves
  <2>5. x.post # "failed"
    BY <1>1, <1>3 DEF OnRow
  <2> QED BY <2>2, <2>3, <2>4, <2>5
<1> QED BY <1>7, <1>8, <1>9

\* A loop comes from its claim to the platform send, or to reconciliation.
Approaches(x, y, r, c, phase) ==
    /\ x.phase \in {"claimed", "reconciling"}
    /\ y = [x EXCEPT !.phase = phase]
    /\ phase \in {"ready", "reconciling"}
    /\ phase = "reconciling" => x.entryState # "none"
    /\ phase = "ready" => /\ NoCopies(c)
                          /\ x.entryState # "unknown_after_send"

LEMMA LoopApproaches ==
    ASSUME NEW s \in Loops, NEW x, NEW o, NEW r, NEW c, NEW w, NEW h,
           Good(s, x, o, r, c, w, h),
           NEW y, NEW phase, Approaches(x, y, r, c, phase)
    PROVE  /\ Good(s, y, o, r, c, w, h)
           /\ y.delivery = x.delivery /\ y.queued = x.queued
<1>1. /\ x \in Sender /\ o \in Option /\ r \in Row /\ c \in [Unit -> Nat]
      /\ w \in SUBSET Unit /\ h = 0
      /\ (o.exact => o.dispatches)
      /\ Shape(s, x) /\ InCharge(x)
      /\ Progress(x, o, c) /\ GivenUp(x, w) /\ RowSound(o, r, c, w, 0)
      /\ OnRow(x, o, r)
      /\ x.phase \in {"claimed", "reconciling"}
      /\ y = [x EXCEPT !.phase = phase]
      /\ phase \in {"ready", "reconciling"}
      /\ phase = "reconciling" => x.entryState # "none"
      /\ phase = "ready" => NoCopies(c) /\ x.entryState # "unknown_after_send"
  BY DEF Good, Typed, Local, Approaches, Keeps
<1>2. Clean(x) /\ r.status = "pending" /\ x.entryState = r.recoveryState
  BY <1>1 DEF OnRow
<1>3. /\ y \in Sender
      /\ y.phase = phase /\ y.unit = 1 /\ y.results = 0
      /\ y.delivery = x.delivery /\ y.queued = x.queued
      /\ ~y.partial /\ y.allPre
      /\ y.pre = "none" /\ y.post = "none" /\ y.error = "none"
      /\ y.entryState = r.recoveryState
  BY <1>1, <1>2 DEF Sender, Clean
<1>4. Shape(s, y) /\ InCharge(y) /\ Clean(y)
  BY <1>1, <1>3, ConstantsAssumption DEF Shape, InCharge, Clean
<1>5. o.units \in Nat /\ 1 <= o.units + 1
  BY <1>1, ConstantsAssumption DEF Option
<1>6. phase = "ready" => \A u \in Unit : c[u] = 0
  BY <1>1 DEF NoCopies
<1>7. Progress(y, o, c)
  BY <1>1, <1>3, <1>5, <1>6 DEF Progress, InCore
<1>8. GivenUp(y, w)
  BY <1>1, <1>3 DEF GivenUp, InCore
<1>9. OnRow(y, o, r)
  BY <1>1, <1>2, <1>3, <1>4 DEF OnRow
<1>10. Local(s, y, o, r, c, w, 0)
  BY <1>7, <1>8, <1>9 DEF Local, Keeps
<1> QED BY <1>1, <1>3, <1>4, <1>10 DEF Good, Typed

LEMMA ReconcileEntrySafe ==
    ASSUME IInv, NEW s \in Loops, ReconcileEntry(s)
    PROVE  Advances
<1> DEFINE d == sender[s].delivery
           x == sender[s]
           o == option[d]
           outcomes(answer) ==
             IF answer = "sent"
             THEN UNION {IF a.ok THEN {a} ELSE FailDelivery(a.row) :
                         a \in AckDelivery(row[d])}
             ELSE IF answer = "unresolved_retryable" THEN FailDelivery(row[d])
             ELSE MoveToFailed(row[d])
<1>0. s \in Senders
  BY DEF Senders
<1>1. x.phase = "reconciling" /\ x.phase # "claimed" /\ InCharge(x) /\ Keeps(s, x)
  BY DEF ReconcileEntry, InCharge, Keeps
<1>2. d \in Deliveries
      /\ Good(s, x, o, row[d], copies[d], waived[d], hooks[d])
  BY <1>0, <1>1, InChargeIsGood
<1>3. /\ x \in Sender /\ o \in Option /\ row[d] \in Row /\ OnRow(x, o, row[d])
      /\ row[d].status = "pending" /\ x.post # "failed"
      /\ x.entryState = row[d].recoveryState
  BY <1>0, <1>1, KeeperKnows DEF OnRow, Clean
<1>4. UNCHANGED <<option, copies, waived, crashes>>
  BY DEF ReconcileEntry
<1>5. PICK answer \in Answers(d) :
        IF MayReplay(answer, x.entryState)
        THEN /\ Set(s, [x EXCEPT !.phase = "ready"])
             /\ UNCHANGED <<row, hooks, entriesInProgress>>
        ELSE /\ \E w \in outcomes(answer) :
                  /\ row' = [row EXCEPT ![d] = w.row]
                  /\ RunCommitHooks(d, w.row.status = "acked")
             /\ Release(s)
  BY DEF ReconcileEntry
<1>6. /\ answer = "sent" => SomeCopy(copies[d])
      /\ answer = "not_sent" => NoCopies(copies[d])
  <2>1. o.units \in Nat \ {0} /\ 1 \in 1 .. o.units /\ 1 \in Unit
    BY <1>3, ConstantsAssumption DEF Option, Unit
  <2> QED BY <1>5, <2>1 DEF Answers, SomeCopy, NoCopies
<1>7. CASE MayReplay(answer, x.entryState)
  <2> DEFINE y == [x EXCEPT !.phase = "ready"]
  <2>1. sender' = [sender EXCEPT ![s] = y] /\ UNCHANGED <<row, hooks, entriesInProgress>>
    BY <1>5, <1>7 DEF Set
  <2>2. Approaches(x, y, row[d], copies[d], "ready")
    BY <1>1, <1>6, <1>7 DEF Approaches, MayReplay
  <2> HIDE DEF y
  <2>3. Good(s, y, o, row[d], copies[d], waived[d], hooks[d])
        /\ y.delivery = x.delivery /\ y.queued = x.queued
    BY <1>2, <2>2, LoopApproaches
  <2>4. Changes(s, d, y, row[d], copies[d], waived[d], hooks[d])
    BY <1>2, <1>4, <2>1, Unchanging DEF Changes
  <2> QED BY <1>0, <1>1, <2>1, <2>3, <2>4, Still, GoesOn
<1>8. CASE ~MayReplay(answer, x.entryState)
  <2>1. PICK m \in outcomes(answer) :
          /\ row' = [row EXCEPT ![d] = m.row]
          /\ RunCommitHooks(d, m.row.status = "acked")
    BY <1>5, <1>8
  <2> DEFINE r == m.row
             when == m.row.status = "acked"
  <2>2. RowLeft(o, x, row[d], copies[d], waived[d], r)
    <3>1. CASE answer = "sent"
      <4>1. PICK a \in AckDelivery(row[d]) : m \in IF a.ok THEN {a} ELSE FailDelivery(a.row)
        BY <2>1, <3>1
      <4>2. \/ a.ok = TRUE /\ a.row = Acked(row[d])
            \/ a.ok = FALSE /\ a.row = row[d]
        BY AckOutcome
      <4>3. CASE a.ok = TRUE
        <5>1. r = Acked(row[d])
          BY <4>1, <4>2, <4>3
        <5> QED BY <1>6, <3>1, <5>1 DEF RowLeft
      <4>4. CASE a.ok = FALSE
        <5>1. m \in FailDelivery(row[d])
          BY <4>1, <4>2, <4>4
        <5>2. \/ row[d].status = "pending" /\ r \in {Tried(row[d]), TriedUnknown(row[d])}
              \/ r = row[d]
          BY <5>1, RetryOutcome
        <5> QED BY <1>3, <5>2 DEF RowLeft
      <4> QED BY <4>2, <4>3, <4>4
    <3>2. CASE answer = "unresolved_retryable"
      <4>1. m \in FailDelivery(row[d])
        BY <2>1, <3>2
      <4>2. \/ row[d].status = "pending" /\ r \in {Tried(row[d]), TriedUnknown(row[d])}
            \/ r = row[d]
        BY <4>1, RetryOutcome
      <4> QED BY <1>3, <4>2 DEF RowLeft
    <3>3. CASE answer \notin {"sent", "unresolved_retryable"}
      <4>1. m \in MoveToFailed(row[d])
        BY <2>1, <3>3
      <4>2. \/ row[d].status = "pending" /\ r = DeadLetter(row[d])
            \/ r = row[d]
        BY <4>1, DeadLetterOutcome
      <4> QED BY <4>2 DEF RowLeft
    <3> QED BY <3>1, <3>2, <3>3
  <2>3. /\ row' = [row EXCEPT ![d] = r] /\ RunCommitHooks(d, when)
        /\ Release(s) /\ when \in BOOLEAN /\ (when => r.status = "acked")
    BY <1>5, <1>8, <2>1
  <2> HIDE DEF r, when, outcomes
  <2> QED BY <1>0, <1>1, <1>4, <2>2, <2>3, Leaves
<1> QED BY <1>7, <1>8

LEMMA PaceReplaySafe ==
    ASSUME IInv, NEW s \in Loops, PaceReplay(s)
    PROVE  Advances
<1> DEFINE d == sender[s].delivery
           x == sender[s]
           o == option[d]
<1>0. s \in Senders
  BY DEF Senders
<1>1. /\ x.phase = "claimed" /\ InCharge(x) /\ Keeps(s, x)
      /\ sender[d].phase # "queued"
  BY DEF PaceReplay, InCharge, Keeps
<1>2. d \in Deliveries
      /\ Good(s, x, o, row[d], copies[d], waived[d], hooks[d])
  BY <1>0, <1>1, InChargeIsGood
<1>3. /\ x \in Sender /\ row[d] \in Row /\ row[d].status = "pending"
      /\ x.entryState = row[d].recoveryState
      /\ RowSound(o, row[d], copies[d], waived[d], hooks[d])
      /\ copies[d] \in [Unit -> Nat] /\ hooks[d] \in Nat
  BY <1>1, <1>2 DEF Good, Typed, Local, OnRow
<1>4. UNCHANGED <<row, option, copies, waived, hooks, crashes>>
  BY DEF PaceReplay
<1>5. CASE /\ Set(s, [x EXCEPT !.phase = IF x.entryState = "none" THEN "ready"
                                         ELSE "reconciling"])
           /\ UNCHANGED entriesInProgress
  <2> DEFINE phase == IF x.entryState = "none" THEN "ready" ELSE "reconciling"
             y == [x EXCEPT !.phase = phase]
  <2>1. x.entryState = "none" => NoCopies(copies[d])
    BY <1>3 DEF RowSound, SomeCopy, NoCopies
  <2>2. Approaches(x, y, row[d], copies[d], phase)
    BY <1>1, <2>1 DEF Approaches
  <2>3. sender' = [sender EXCEPT ![s] = y]
    BY <1>5 DEF Set
  <2> HIDE DEF y, phase
  <2>4. Good(s, y, o, row[d], copies[d], waived[d], hooks[d])
        /\ y.delivery = x.delivery /\ y.queued = x.queued
    BY <1>2, <2>2, LoopApproaches
  <2>5. Changes(s, d, y, row[d], copies[d], waived[d], hooks[d])
    BY <1>2, <1>4, <2>3, Unchanging DEF Changes
  <2> QED BY <1>0, <1>1, <1>5, <2>4, <2>5, Still, GoesOn
<1>6. CASE /\ s = Startup
           /\ SkipEntry(s, d, TRUE)
           /\ entriesInProgress' = entriesInProgress \ {d}
  <2> DEFINE e == IF s \in Deliveries THEN s ELSE NoDelivery
             y == [Fresh(e) EXCEPT !.phase = "idle", !.todo = {}]
  <2>1. e = NoDelivery /\ s \notin Deliveries
    BY ConstantsAssumption
  <2>2. /\ s \in Deliveries => "idle" = "done" /\ {} = {}
        /\ s \in Loops => "idle" \in {"idle", "next"} /\ {} \subseteq Deliveries
    BY <2>1
  <2>3. y \in Sender /\ Shape(s, y) /\ ~InCharge(y)
    BY <1>0, <2>2, FreshSender
  <2> HIDE DEF e
  <2>4. sender' = [sender EXCEPT ![s] = y]
    BY <1>6, <2>1 DEF SkipEntry, Set
  <2> HIDE DEF y
  <2>5. Changes(s, d, y, row[d], copies[d], waived[d], hooks[d])
    BY <1>2, <1>4, <2>4, Unchanging DEF Changes
  <2> QED BY <1>0, <1>1, <1>3, <1>6, <2>3, <2>5, Still, Releases
<1> QED BY <1>5, <1>6 DEF PaceReplay

-----------------------------------------------------------------------------
(* The steps of a sender that is not in charge, and the crash.             *)

\* A delivery that is not claimed, and whose row is pending or not written yet,
\* has nobody in charge of it but a sender without a row.
LEMMA Unclaimed ==
    ASSUME IInv, NEW d \in Deliveries, d \notin entriesInProgress,
           NEW t \in Senders, InCharge(sender[t]), sender[t].delivery = d
    PROVE  /\ t = d /\ t \in Deliveries
           /\ row[d].status = "none"
           /\ sender[d].phase # "idle"
<1>1. ~Keeps(t, sender[t])
  BY DEF IInv
<1>2. Local(t, sender[t], option[d], row[d], copies[d], waived[d], hooks[d])
  BY DEF IInv
<1>3. row[d].status = "none"
  BY <1>1, <1>2 DEF Local, Direct
<1>4. t \notin Loops /\ t \in Deliveries
  BY <1>1 DEF Keeps, Senders
<1>5. t = d
  BY <1>4 DEF IInv, Shape
<1> QED BY <1>3, <1>4, <1>5 DEF InCharge

LEMMA StartLoopSafe ==
    ASSUME IInv, NEW s \in Loops, StartLoop(s)
    PROVE  Advances
<1> DEFINE pending == {d \in Deliveries : row[d].status = "pending"}
           x == sender[s]
           y == [x EXCEPT !.phase = "next", !.todo = pending]
<1>0. s \in Senders /\ s \notin Deliveries
  BY ConstantsAssumption DEF Senders
<1>1. x \in Sender /\ Shape(s, x)
  BY <1>0 DEF IInv, TypeOK
<1>2. x.phase = "idle" /\ ~InCharge(x) /\ pending \in SUBSET Deliveries
  BY DEF StartLoop, InCharge
<1> HIDE DEF pending
<1>3. /\ y \in Sender /\ y.phase = "next" /\ y.queued = x.queued
      /\ y.unit = x.unit /\ y.results = x.results /\ y.pre = x.pre /\ y.post = x.post
      /\ y.error = x.error /\ y.partial = x.partial /\ y.allPre = x.allPre
  BY <1>1, <1>2 DEF Sender
<1>4. Shape(s, y) /\ ~InCharge(y)
  BY <1>0, <1>1, <1>2, <1>3 DEF Shape, InCharge, Clean
<1>5. /\ sender' = [sender EXCEPT ![s] = y]
      /\ UNCHANGED <<row, option, copies, waived, hooks, entriesInProgress, crashes>>
  BY DEF StartLoop, Set, pending
<1> HIDE DEF y
<1> QED BY <1>0, <1>2, <1>3, <1>4, <1>5, Quiet

LEMMA ClaimEntrySafe ==
    ASSUME IInv, NEW s \in Loops, NEW d \in Deliveries, ClaimEntry(s, d)
    PROVE  Advances
<1> DEFINE x == sender[s]
           o == option[d]
           r == row[d]
           c == copies[d]
           free == d \notin entriesInProgress
           current == row[d].status = "pending"
<1>0. s \in Senders /\ s \notin Deliveries /\ s # d
  BY ConstantsAssumption DEF Senders
<1>1. /\ x \in Sender /\ Shape(s, x) /\ r \in Row /\ c \in [Unit -> Nat]
      /\ waived[d] \in SUBSET Unit /\ hooks[d] \in Nat
      /\ RowSound(o, r, c, waived[d], hooks[d])
      /\ Waits(sender[d], r, c, hooks[d])
      /\ o \in Options
  BY <1>0 DEF IInv, TypeOK
<1>2. x.phase = "next" /\ ~InCharge(x) /\ Clean(x) /\ ~x.queued
  BY <1>1 DEF ClaimEntry, InCharge, Shape
<1>3. UNCHANGED <<option, copies, waived, hooks, crashes>>
  BY DEF ClaimEntry
<1>4. ASSUME NEW abandon, SkipEntry(s, d, abandon)
      PROVE  \E y \in Sender : /\ sender' = [sender EXCEPT ![s] = y]
                               /\ Shape(s, y) /\ ~InCharge(y)
  <2> DEFINE rest == IF abandon THEN {} ELSE x.todo \ {d}
             phase == IF rest = {} THEN "idle" ELSE "next"
             e == IF s \in Deliveries THEN s ELSE NoDelivery
             y == [Fresh(e) EXCEPT !.phase = phase, !.todo = rest]
  <2>1. rest \subseteq Deliveries /\ e = NoDelivery
    BY <1>0, <1>1 DEF Sender
  <2>2. phase \in {"idle", "next"}
    OBVIOUS
  <2>3. sender' = [sender EXCEPT ![s] = [Fresh(NoDelivery) EXCEPT
                                           !.phase = phase, !.todo = rest]]
    BY <1>4 DEF SkipEntry, Set
  <2> HIDE DEF rest, phase
  <2>4. y \in Sender /\ Shape(s, y) /\ ~InCharge(y)
    BY <1>0, <2>1, <2>2, FreshSender
  <2>5. sender' = [sender EXCEPT ![s] = y]
    <3> HIDE DEF e
    <3> QED BY <2>1, <2>3
  <2> HIDE DEF y
  <2> QED BY <2>4, <2>5
<1>5. CASE /\ \/ ~free
              \/ ~current
              \/ ~Exhausted(row[d]) /\ row[d].retryCount > 0
           /\ SkipEntry(s, d, FALSE)
           /\ UNCHANGED <<row, entriesInProgress>>
  <2>1. PICK y \in Sender : /\ sender' = [sender EXCEPT ![s] = y]
                            /\ Shape(s, y) /\ ~InCharge(y)
    BY <1>4, <1>5
  <2> QED BY <1>0, <1>2, <1>3, <1>5, <2>1, Quiet
<1>6. ASSUME free, current
      PROVE  /\ \A t \in Senders : t # s /\ InCharge(sender[t]) => sender[t].delivery # d
             /\ hooks[d] = 0
  <2>1. \A t \in Senders : t # s /\ InCharge(sender[t]) => sender[t].delivery # d
    BY <1>6, Unclaimed
  <2>2. hooks[d] = 0
    BY <1>1, <1>6 DEF RowSound
  <2> QED BY <2>1, <2>2
<1>7. CASE /\ free /\ current /\ Exhausted(row[d])
           /\ \E w \in MoveToFailed(row[d]) :
                /\ row' = [row EXCEPT ![d] = w.row]
                /\ SkipEntry(s, d, ~w.ok /\ s # Startup)
           /\ UNCHANGED entriesInProgress
  <2>1. PICK m \in MoveToFailed(r) :
          /\ row' = [row EXCEPT ![d] = m.row]
          /\ SkipEntry(s, d, ~m.ok /\ s # Startup)
    BY <1>7
  <2>2. PICK y \in Sender : /\ sender' = [sender EXCEPT ![s] = y]
                            /\ Shape(s, y) /\ ~InCharge(y)
    BY <1>4, <2>1
  <2> DEFINE new == m.row
  <2>3. new = r \/ new = DeadLetter(r)
    BY DeadLetterOutcome
  <2>4. new \in Row /\ RowSound(o, new, c, waived[d], hooks[d])
    <3>1. CASE new = r
      BY <1>1, <3>1
    <3>2. CASE new = DeadLetter(r)
      BY <1>1, <1>7, <3>2 DEF DeadLetter, Row, RowSound
    <3> QED BY <2>3, <3>1, <3>2
  <2>5. Waits(IF s = d THEN y ELSE sender[d], new, c, hooks[d])
    <3>1. r.retryCount > 0 /\ r.status = "pending"
      BY <1>1, <1>7, ConstantsAssumption DEF Exhausted, Row
    <3>2. sender[d].phase \notin {"idle", "queued"}
      BY <1>1, <3>1 DEF Waits
    <3> QED BY <1>0, <3>2 DEF Waits
  <2>6. row' = [row EXCEPT ![d] = new]
    BY <2>1
  <2>10. Moved(o, r, new, c, c)
    BY <1>1, <1>7, <2>3, Still DEF Moved, DeadLetter, Row
  <2> HIDE DEF new
  <2>7. Changes(s, d, y, new, c, waived[d], hooks[d])
    BY <1>3, <2>2, <2>6, Unchanging DEF Changes
  <2>8. Typed(y, new, c, waived[d], hooks[d])
    BY <1>1, <2>4 DEF Typed
  <2>9. entriesInProgress' = IF InCharge(y) /\ Keeps(s, y)
                             THEN entriesInProgress \cup {d}
                             ELSE entriesInProgress \ {d}
    BY <1>7, <2>2
  <2> QED BY <1>0, <1>2, <1>6, <1>7, <2>2, <2>4, <2>5, <2>7, <2>8, <2>9, <2>10, Frame
<1>8. CASE /\ free /\ current /\ ~Exhausted(row[d])
           /\ entriesInProgress' = entriesInProgress \cup {d}
           /\ Set(s, [x EXCEPT !.phase = "claimed", !.delivery = d,
                               !.entryState = row[d].recoveryState])
           /\ UNCHANGED row
  <2> DEFINE y == [x EXCEPT !.phase = "claimed", !.delivery = d,
                            !.entryState = row[d].recoveryState]
  <2>1. sender' = [sender EXCEPT ![s] = y]
    BY <1>8 DEF Set
  <2>2. r.recoveryState \in Evidence
    BY <1>1 DEF Row
  <2>3. /\ y \in Sender /\ y.phase = "claimed" /\ y.delivery = d
        /\ y.entryState = r.recoveryState
        /\ y.queued = x.queued /\ y.unit = x.unit /\ y.results = x.results
        /\ y.pre = x.pre /\ y.post = x.post
        /\ y.error = x.error /\ y.partial = x.partial /\ y.allPre = x.allPre
    BY <1>1, <2>2 DEF Sender
  <2> HIDE DEF y
  <2>4. Clean(y) /\ ~y.queued /\ InCharge(y) /\ Shape(s, y) /\ Keeps(s, y)
    BY <1>0, <1>2, <2>3 DEF Clean, InCharge, Shape, Keeps
  <2>5. o.units \in Nat /\ 1 <= o.units + 1
    BY <1>1, ConstantsAssumption DEF Option
  <2>6. Progress(y, o, c)
    BY <2>3, <2>4, <2>5 DEF Progress, InCore, Clean
  <2>7. GivenUp(y, waived[d])
    BY <2>3, <2>4 DEF GivenUp, InCore, Clean
  <2>8. r.retryCount < MaxRetries
    BY <1>1, <1>8, ConstantsAssumption DEF Exhausted, Row
  <2>9. OnRow(y, o, r)
    BY <1>8, <2>3, <2>4, <2>8 DEF OnRow, Clean
  <2>10. Local(s, y, o, r, c, waived[d], hooks[d])
    BY <1>6, <1>8, <2>4, <2>6, <2>7, <2>9 DEF Local
  <2>11. Changes(s, d, y, r, c, waived[d], hooks[d])
    BY <1>3, <1>8, <2>1, Unchanging DEF Changes
  <2>12. Typed(y, r, c, waived[d], hooks[d])
    BY <1>1, <2>3 DEF Typed
  <2>13. Waits(IF s = d THEN y ELSE sender[d], r, c, hooks[d])
    BY <1>0, <1>1
  <2>14. entriesInProgress' = IF InCharge(y) /\ Keeps(s, y)
                              THEN entriesInProgress \cup {d}
                              ELSE entriesInProgress \ {d}
    BY <1>8, <2>4
  <2> QED BY <1>0, <1>1, <1>2, <1>6, <1>8, <2>3, <2>4, <2>10, <2>11, <2>12, <2>13, <2>14,
             Still, Frame
<1> QED BY <1>5, <1>7, <1>8 DEF ClaimEntry

LEMMA EnqueueDeliverySafe ==
    ASSUME IInv, NEW s \in Deliveries, EnqueueDelivery(s)
    PROVE  Advances
<1> DEFINE x == sender[s]
           o == option[s]
           r == row[s]
           c == copies[s]
<1>0. s \in Senders /\ s \notin Loops
  BY ConstantsAssumption DEF Senders
<1>1. /\ x \in Sender /\ Shape(s, x) /\ r \in Row /\ c \in [Unit -> Nat]
      /\ waived[s] \in SUBSET Unit /\ hooks[s] \in Nat
      /\ RowSound(o, r, c, waived[s], hooks[s])
      /\ Waits(x, r, c, hooks[s])
      /\ o \in Option
  BY <1>0, ConstantsAssumption DEF IInv, TypeOK
<1>2. /\ x.phase = "idle" /\ ~InCharge(x) /\ Clean(x) /\ x.delivery = s
      /\ r.status = "none" /\ NoCopies(c) /\ hooks[s] = 0
      /\ r.recoveryState = "none" /\ r.retryCount = 0
  BY <1>1 DEF EnqueueDelivery, InCharge, Shape, Waits, RowSound
<1>3. UNCHANGED <<option, copies, waived, hooks, entriesInProgress, crashes>>
  BY DEF EnqueueDelivery
<1>4. s \notin entriesInProgress
  <2>1. SUFFICES ASSUME s \in entriesInProgress PROVE FALSE
    OBVIOUS
  <2>2. PICK t \in Senders :
          InCharge(sender[t]) /\ sender[t].delivery = s /\ Keeps(t, sender[t])
    BY <2>1 DEF IInv
  <2>3. Local(t, sender[t], o, r, c, waived[s], hooks[s])
    BY <2>2 DEF IInv
  <2> QED BY <1>2, <2>2, <2>3 DEF Local, OnRow
<1>5. \A t \in Senders : t # s /\ InCharge(sender[t]) => sender[t].delivery # s
  BY <1>4, Unclaimed
<1>6. PICK m \in Call(r, [r EXCEPT !.status = "pending"], TRUE) :
        /\ row' = [row EXCEPT ![s] = m.row]
        /\ Set(s, [x EXCEPT !.queued = m.ok,
                            !.phase = IF m.ok THEN "queued"
                                      ELSE IF o.required THEN "done" ELSE "ready"])
  BY DEF EnqueueDelivery
<1>7. \/ m.ok = TRUE /\ m.row = [r EXCEPT !.status = "pending"]
      \/ m.ok = FALSE /\ m.row = r
  BY CallOutcome
<1> DEFINE new == m.row
           queued == m.ok
           phase == IF queued THEN "queued" ELSE IF o.required THEN "done" ELSE "ready"
           y == [x EXCEPT !.queued = queued, !.phase = phase]
<1>8. /\ phase \in {"queued", "done", "ready"} /\ queued \in BOOLEAN
      /\ phase = "queued" <=> queued
      /\ new \in Row /\ new.recoveryState = "none" /\ new.retryCount = 0
      /\ new.status = IF queued THEN "pending" ELSE "none"
  <2>1. CASE queued = TRUE
    BY <1>1, <1>2, <1>7, <2>1 DEF Row
  <2>2. CASE queued = FALSE
    BY <1>1, <1>2, <1>7, <2>2
  <2> QED BY <1>7, <2>1, <2>2
<1>9. row' = [row EXCEPT ![s] = new] /\ sender' = [sender EXCEPT ![s] = y]
  BY <1>6 DEF Set
<1> HIDE DEF new, queued, phase
<1>10. /\ y \in Sender /\ y.phase = phase /\ y.queued = queued /\ y.delivery = s
       /\ y.unit = 1 /\ y.results = 0 /\ ~y.partial /\ y.allPre
       /\ y.pre = "none" /\ y.post = "none" /\ y.error = "none"
  BY <1>1, <1>2, <1>8 DEF Sender, Clean
<1> HIDE DEF y
<1>11. Shape(s, y) /\ Clean(y)
  BY <1>0, <1>8, <1>10 DEF Shape, Clean, InCharge
<1>12. RowSound(o, new, c, waived[s], hooks[s])
  BY <1>1, <1>2, <1>8 DEF RowSound, NoCopies, SomeCopy
<1>13. Waits(y, new, c, hooks[s])
  BY <1>8, <1>10 DEF Waits
<1>14. InCharge(y) => Local(s, y, o, new, c, waived[s], hooks[s]) /\ ~Keeps(s, y)
  <2>1. SUFFICES ASSUME InCharge(y)
                 PROVE  Local(s, y, o, new, c, waived[s], hooks[s]) /\ ~Keeps(s, y)
    OBVIOUS
  <2>2. y.phase = "ready" /\ ~y.queued /\ new.status = "none"
    BY <1>8, <1>10, <2>1 DEF InCharge
  <2>3. o.units \in Nat /\ 1 <= o.units + 1
    BY <1>1, ConstantsAssumption DEF Option
  <2>4. Progress(y, o, c)
    BY <1>2, <1>10, <2>2, <2>3 DEF Progress, NoCopies, InCore
  <2>5. GivenUp(y, waived[s])
    BY <1>10, <2>2 DEF GivenUp
  <2> QED BY <1>0, <1>2, <2>2, <2>4, <2>5 DEF Local, Keeps, Direct, InCore
<1>15. Changes(s, s, y, new, c, waived[s], hooks[s])
  BY <1>3, <1>9, Unchanging DEF Changes
<1>16. Typed(y, new, c, waived[s], hooks[s])
  BY <1>1, <1>8, <1>10 DEF Typed
<1>17. entriesInProgress' = IF InCharge(y) /\ Keeps(s, y)
                            THEN entriesInProgress \cup {s}
                            ELSE entriesInProgress \ {s}
  BY <1>3, <1>4, <1>14
<1>18. Moved(o, r, new, c, c)
  BY <1>1, <1>2, <1>8 DEF Moved, Row
<1> QED BY <1>0, <1>2, <1>5, <1>10, <1>11, <1>12, <1>13, <1>14, <1>15, <1>16, <1>17, <1>18, Frame

LEMMA ClaimDeliverySafe ==
    ASSUME IInv, NEW s \in Deliveries, ClaimDelivery(s)
    PROVE  Advances
<1> DEFINE x == sender[s]
           o == option[s]
           r == row[s]
           c == copies[s]
<1>0. s \in Senders /\ s \notin Loops
  BY ConstantsAssumption DEF Senders
<1>1. /\ x \in Sender /\ Shape(s, x) /\ r \in Row /\ c \in [Unit -> Nat]
      /\ waived[s] \in SUBSET Unit /\ hooks[s] \in Nat
      /\ RowSound(o, r, c, waived[s], hooks[s])
      /\ Waits(x, r, c, hooks[s])
      /\ o \in Option
  BY <1>0, ConstantsAssumption DEF IInv, TypeOK
<1>2. /\ x.phase = "queued" /\ x.queued /\ ~InCharge(x) /\ Clean(x) /\ x.delivery = s
      /\ r.status = "pending" /\ r.recoveryState = "none" /\ r.retryCount = 0
  BY <1>1 DEF ClaimDelivery, InCharge, Shape, Waits
<1>3. UNCHANGED <<row, option, copies, waived, hooks, crashes>>
      /\ entriesInProgress' = entriesInProgress \cup {s}
  BY DEF ClaimDelivery
<1> DEFINE phase == IF s \in entriesInProgress THEN "done" ELSE "ready"
           y == [x EXCEPT !.phase = phase]
<1>4. sender' = [sender EXCEPT ![s] = y]
  BY DEF ClaimDelivery, Set
<1>5. /\ phase \in {"done", "ready"}
      /\ phase = "done" <=> s \in entriesInProgress
  OBVIOUS
<1> HIDE DEF phase
<1>6. /\ y \in Sender /\ y.phase = phase /\ y.queued /\ y.delivery = s
      /\ y.unit = 1 /\ y.results = 0 /\ ~y.partial /\ y.allPre
      /\ y.pre = "none" /\ y.post = "none" /\ y.error = "none"
  BY <1>1, <1>2, <1>5 DEF Sender, Clean
<1> HIDE DEF y
<1>7. Shape(s, y) /\ (InCharge(y) <=> phase = "ready") /\ Keeps(s, y)
  BY <1>0, <1>5, <1>6 DEF Shape, Clean, InCharge, Keeps
<1>8. CASE s \in entriesInProgress
  <2>1. entriesInProgress' = entriesInProgress
    BY <1>3, <1>8
  <2> QED BY <1>0, <1>2, <1>3, <1>4, <1>5, <1>6, <1>7, <1>8, <2>1, Quiet
<1>9. CASE s \notin entriesInProgress
  <2>1. NoCopies(c) /\ hooks[s] = 0
    BY <1>1, <1>2 DEF RowSound, NoCopies, SomeCopy
  <2>2. y.phase = "ready"
    BY <1>5, <1>6, <1>9
  <2>3. o.units \in Nat /\ 1 <= o.units + 1
    BY <1>1, ConstantsAssumption DEF Option
  <2>4. Progress(y, o, c)
    BY <1>6, <2>1, <2>2, <2>3 DEF Progress, NoCopies, InCore
  <2>5. GivenUp(y, waived[s])
    BY <1>6, <2>2 DEF GivenUp
  <2>6. r.retryCount < MaxRetries
    BY <1>2, ConstantsAssumption
  <2>7. OnRow(y, o, r)
    BY <1>2, <1>6, <2>2, <2>6 DEF OnRow
  <2>8. Local(s, y, o, r, c, waived[s], hooks[s])
    BY <1>7, <2>1, <2>4, <2>5, <2>7 DEF Local
  <2>9. Changes(s, s, y, r, c, waived[s], hooks[s])
    BY <1>3, <1>4, Unchanging DEF Changes
  <2>10. Typed(y, r, c, waived[s], hooks[s])
    BY <1>1, <1>6 DEF Typed
  <2>11. \A t \in Senders : t # s /\ InCharge(sender[t]) => sender[t].delivery # s
    BY <1>9, Unclaimed
  <2>12. Waits(y, r, c, hooks[s])
    BY <2>2 DEF Waits
  <2>13. entriesInProgress' = IF InCharge(y) /\ Keeps(s, y)
                              THEN entriesInProgress \cup {s}
                              ELSE entriesInProgress \ {s}
    BY <1>3, <1>6, <1>7, <2>2
  <2> QED BY <1>0, <1>1, <1>2, <1>6, <1>7, <2>8, <2>9, <2>10, <2>11, <2>12, <2>13, Still, Frame
<1> QED BY <1>8, <1>9

\* Nobody is in charge after a crash, and a send that had begun is over.
LEMMA CrashSafe ==
    ASSUME IInv, Crash
    PROVE  Advances
<1>b. /\ Senders = Deliveries \cup Loops
      /\ Deliveries \cap Loops = {}
  BY ConstantsAssumption DEF Senders
<1>1. /\ UNCHANGED <<row, option, copies, waived, hooks>>
      /\ entriesInProgress' = {}
      /\ crashes < MaxCrashes /\ crashes' = crashes + 1
  BY DEF Crash
<1>2. ASSUME NEW s \in Senders
      PROVE  /\ sender'[s] \in Sender /\ Shape(s, sender'[s]) /\ ~InCharge(sender'[s])
             /\ sender'[s].phase # "queued"
             /\ s \in Deliveries /\ sender'[s].phase = "idle" => sender[s].phase = "idle"
  <2> DEFINE phase == IF s \in Loops \/ sender[s].phase = "idle" THEN "idle" ELSE "done"
             e == IF s \in Loops THEN NoDelivery ELSE s
             y == sender'[s]
  <2>1. e \in Deliveries \cup {NoDelivery} /\ phase \in {"idle", "done"}
    BY <1>b, <1>2
  <2>2. y = [phase |-> phase, delivery |-> e, todo |-> {}, queued |-> FALSE,
             entryState |-> "none", unit |-> 1, pre |-> "none", post |-> "none",
             results |-> 0, partial |-> FALSE, allPre |-> TRUE, error |-> "none"]
    <3>1. CASE s \in Loops
      <4>1. y = Fresh(NoDelivery)
        BY <1>2, <3>1 DEF Crash, IsLoop
      <4> HIDE DEF y
      <4> QED BY <3>1, <4>1 DEF Fresh
    <3>2. CASE s \notin Loops
      <4> DEFINE q == IF sender[s].phase = "idle" THEN "idle" ELSE "done"
      <4>1. y = [Fresh(s) EXCEPT !.phase = q]
        BY <1>2, <3>2 DEF Crash, IsLoop
      <4>2. phase = q /\ e = s
        BY <3>2
      <4> HIDE DEF y, q, phase, e
      <4> QED BY <4>1, <4>2 DEF Fresh
    <3> QED BY <3>1, <3>2
  <2>3. /\ s \in Deliveries => e = s
        /\ s \in Loops => phase = "idle"
        /\ s \in Deliveries /\ phase = "idle" => sender[s].phase = "idle"
    BY <1>b
  <2>4. 0 \in 0 .. MaxUnits /\ 1 \in 1 .. MaxUnits + 1
    BY ConstantsAssumption
  <2> HIDE DEF y, phase, e
  <2>5. y \in Sender
    BY <2>1, <2>2, <2>4 DEF Sender, Evidence
  <2>6. y.phase = phase /\ y.delivery = e /\ ~y.queued /\ ~InCharge(y)
    BY <2>1, <2>2 DEF InCharge
  <2>7. Clean(y)
    BY <2>2 DEF Clean
  <2>8. Shape(s, y)
    BY <1>b, <2>1, <2>3, <2>6, <2>7 DEF Shape
  <2> QED BY <2>1, <2>3, <2>5, <2>6, <2>8 DEF y
<1>3. sender' \in [Senders -> Sender]
  <2>1. sender' = [s \in Senders |-> sender'[s]]
    BY DEF Crash
  <2> QED BY <1>2, <2>1
<1>4. TypeOK' /\ option' \in [Deliveries -> Options]
  BY <1>1, <1>3, ConstantsAssumption DEF IInv, TypeOK
<1>5. ASSUME NEW d \in Deliveries
      PROVE  /\ RowSound(option'[d], row'[d], copies'[d], waived'[d], hooks'[d])
             /\ Waits(sender'[d], row'[d], copies'[d], hooks'[d])
  BY <1>b, <1>1, <1>2 DEF IInv, Waits
<1> QED BY <1>1, <1>2, <1>4, <1>5 DEF IInv, Advances, Moves

-----------------------------------------------------------------------------
(* The invariant holds at first, and every step keeps it.                  *)

LEMMA InitIInv == Init => IInv
<1> SUFFICES ASSUME Init
             PROVE  IInv
  OBVIOUS
<1>b. /\ Senders = Deliveries \cup Loops
      /\ Deliveries \cap Loops = {}
  BY ConstantsAssumption DEF Senders
<1>1. 0 \in 0 .. MaxUnits /\ 1 \in 1 .. MaxUnits + 1 /\ 0 \in 0 .. MaxRetries
      /\ 0 \in 0 .. MaxCrashes
  BY ConstantsAssumption
<1>2. ASSUME NEW s \in Senders
      PROVE  /\ sender[s] \in Sender /\ Shape(s, sender[s])
             /\ sender[s].phase = "idle" /\ ~InCharge(sender[s])
  <2> DEFINE e == IF s \in Deliveries THEN s ELSE NoDelivery
             y == Fresh(e)
  <2>1. sender[s] = y
    BY DEF Init
  <2>2. e \in Deliveries \cup {NoDelivery} /\ (s \in Deliveries => e = s)
    OBVIOUS
  <2> HIDE DEF e
  <2>3. y \in Sender
    BY <1>1, <2>2 DEF Fresh, Sender, Evidence
  <2>4. /\ y.phase = "idle" /\ y.delivery = e /\ ~y.queued /\ Clean(y)
    BY DEF Fresh, Clean
  <2> HIDE DEF y
  <2>5. ~InCharge(y) /\ Shape(s, y)
    BY <1>b, <2>2, <2>4 DEF InCharge, Shape
  <2> QED BY <2>1, <2>3, <2>4, <2>5
<1>3. \A d \in Deliveries : /\ row[d] = [status |-> "none", recoveryState |-> "none",
                                         retryCount |-> 0]
                            /\ copies[d] = [u \in Unit |-> 0]
                            /\ waived[d] = {} /\ hooks[d] = 0
  BY DEF Init
<1>4. TypeOK /\ option \in [Deliveries -> Options]
  <2>1. /\ row \in [Deliveries -> Row]
        /\ copies \in [Deliveries -> [Unit -> Nat]]
    BY <1>1 DEF Init, Row, Evidence
  <2>2. /\ waived \in [Deliveries -> SUBSET Unit]
        /\ hooks \in [Deliveries -> Nat]
        /\ entriesInProgress = {} /\ crashes \in 0 .. MaxCrashes
        /\ option \in [Deliveries -> Options]
    BY <1>1 DEF Init
  <2>3. sender \in [Senders -> Sender]
    <3>1. sender = [s \in Senders |-> sender[s]]
      BY DEF Init
    <3> QED BY <1>2, <3>1
  <2> QED BY <2>1, <2>2, <2>3, ConstantsAssumption DEF TypeOK
<1>5. ASSUME NEW d \in Deliveries
      PROVE  /\ RowSound(option[d], row[d], copies[d], waived[d], hooks[d])
             /\ Waits(sender[d], row[d], copies[d], hooks[d])
  <2>1. /\ row[d].status = "none" /\ row[d].recoveryState = "none"
        /\ row[d].retryCount = 0 /\ hooks[d] = 0
        /\ \A u \in Unit : copies[d][u] = 0
        /\ sender[d].phase = "idle"
    BY <1>b, <1>2, <1>3
  <2> QED BY <2>1 DEF RowSound, Waits, NoCopies
<1>6. entriesInProgress = {}
  BY DEF Init
<1> QED BY <1>2, <1>4, <1>5, <1>6 DEF IInv

LEMMA StutterAdvances ==
    ASSUME IInv, UNCHANGED vars
    PROVE  Advances
BY DEF Advances, Moves, IInv, vars, TypeOK, InCharge, Shape, Clean, Local, Keeps, Progress, InCore,
       NoCopies, SomeCopy, GivenUp, OnRow, Direct, RowSound, Waits

LEMMA NextAdvances == IInv /\ [Next]_vars => Advances
<1> SUFFICES ASSUME IInv, [Next]_vars
             PROVE  Advances
  OBVIOUS
<1>b. Deliveries \subseteq Senders /\ Loops \subseteq Senders
  BY DEF Senders
<1>1. ASSUME NEW d \in Deliveries, LiveStep(d)
      PROVE  Advances
  BY <1>1, ClaimDeliverySafe, AbortSendSafe, FinishDirectSafe, PersistLiveOutcomeSafe,
     FinishLiveSafe, CatchLiveSafe DEF LiveStep
<1>2. ASSUME NEW k \in Loops, LoopStep(k)
      PROVE  Advances
  BY <1>2, ClaimEntrySafe, PaceReplaySafe, ReconcileEntrySafe, PersistLoopOutcomeSafe,
     FinishLoopSafe, CatchLoopSafe DEF LoopStep
<1>3. ASSUME NEW s \in Senders, CoreStep(s)
      PROVE  Advances
  BY <1>3, SuppressUnitSafe, StartUnitSafe, DispatchUnitSafe, TransmitUnitSafe,
     ReportResultSafe DEF CoreStep
<1>4. CASE \E d \in Deliveries : EnqueueDelivery(d)
  BY <1>4, EnqueueDeliverySafe
<1>5. CASE \E k \in Loops : StartLoop(k)
  BY <1>5, StartLoopSafe
<1>6. CASE Crash
  BY <1>6, CrashSafe
<1>7. CASE UNCHANGED vars
  BY <1>7, StutterAdvances
<1> QED BY <1>1, <1>2, <1>3, <1>4, <1>5, <1>6, <1>7 DEF Next

LEMMA NextIInv == IInv /\ [Next]_vars => IInv'
BY NextAdvances DEF Advances

-----------------------------------------------------------------------------
(* What follows from the invariant.                                        *)

\* Type correctness of the rows, the senders, the claims and the counts
THEOREM TypeCorrect == Spec => []TypeOK
<1>1. IInv => TypeOK
  BY DEF IInv
<1> QED BY InitIInv, NextIInv, <1>1, PTL DEF Spec

\* With an honest adapter no unit reaches the platform twice, however many
\* loops, crashes and failing store calls there are.
THEOREM NothingTwice == Spec => []AtMostOnce
<1>1. IInv => AtMostOnce
  BY DEF IInv, RowSound, AtMostOnce
<1> QED BY InitIInv, NextIInv, <1>1, PTL DEF Spec

\* At every moment a crash can strike, the pending row of a message that the
\* platform may have shown says so.
THEOREM EvidenceAlwaysOnRow == Spec => []EvidenceOnRow
<1>1. IInv => EvidenceOnRow
  BY DEF IInv, RowSound, SomeCopy, EvidenceOnRow
<1> QED BY InitIInv, NextIInv, <1>1, PTL DEF Spec

\* The in-memory claims are exactly the deliveries somebody works on, and
\* nobody shares one.
THEOREM OneSenderAlways == Spec => []OneSenderPerDelivery
<1>1. IInv => OneSenderPerDelivery
  <2> SUFFICES ASSUME IInv, NEW d \in Deliveries
               PROVE  Cardinality(Working(d)) = IF d \in entriesInProgress THEN 1 ELSE 0
    BY DEF OneSenderPerDelivery
  <2>1. \A s \in Senders :
          s \in Working(d) <=> /\ InCharge(sender[s]) /\ sender[s].delivery = d
                               /\ Keeps(s, sender[s])
    BY DEF Working, InCharge, Keeps, Backed, IsLoop
  <2>2. Working(d) \subseteq Senders
    BY DEF Working
  <2>3. CASE d \in entriesInProgress
    <3>1. PICK s \in Senders : s \in Working(d)
      BY <2>1, <2>3 DEF IInv
    <3>2. \A t \in Senders : t \in Working(d) => t = s
      BY <2>1, <3>1 DEF IInv
    <3>3. Working(d) = {s}
      BY <2>2, <3>1, <3>2
    <3> QED BY <2>3, <3>3, FS_Singleton
  <2>4. CASE d \notin entriesInProgress
    <3>1. Working(d) = {}
      BY <2>1, <2>2, <2>4 DEF IInv
    <3> QED BY <2>4, <3>1, FS_EmptySet
  <2> QED BY <2>3, <2>4
<1> QED BY InitIInv, NextIInv, <1>1, PTL DEF Spec

\* Commit hooks run at most once for a delivery, and never while its row could
\* still be replayed.
THEOREM HooksOnce == Spec => []HooksOnceAfterAck
<1>1. IInv => HooksOnceAfterAck
  BY DEF IInv, RowSound, HooksOnceAfterAck
<1> QED BY InitIInv, NextIInv, <1>1, PTL DEF Spec

\* A required delivery is never acked of which nothing was sent and nothing was
\* given up.
THEOREM RequiredKept == Spec => []NoRequiredLoss
<1>1. IInv => NoRequiredLoss
  BY DEF IInv, RowSound, SomeCopy, NoRequiredLoss
<1> QED BY InitIInv, NextIInv, <1>1, PTL DEF Spec

\* The evidence that something was delivered is never taken back from a pending
\* row whose adapter does not call onPlatformSendDispatch.
THEOREM EvidenceStays == Spec => EvidenceKept
<1>1. IInv /\ [Next]_vars =>
        [\A d \in Deliveries : option[d].dispatches \/ KeepsEvidence(d)]_vars
  <2> SUFFICES ASSUME IInv, [Next]_vars, NEW d \in Deliveries, ~option[d].dispatches
               PROVE  KeepsEvidence(d)
    OBVIOUS
  <2>1. Moves
    BY NextAdvances DEF Advances
  <2>2. CASE UNCHANGED <<row, copies>>
    BY <2>2 DEF KeepsEvidence
  <2>3. ASSUME NEW e \in Deliveries, NEW q \in Row, NEW n \in [Unit -> Nat],
               row' = [row EXCEPT ![e] = q],
               Moved(option[e], row[e], q, copies[e], n)
        PROVE  KeepsEvidence(d)
    <3>1. row'[d] = IF d = e THEN q ELSE row[d]
      BY <2>3 DEF IInv, TypeOK
    <3> QED BY <2>3, <3>1 DEF Moved, KeepsEvidence
  <2> QED BY <2>1, <2>2, <2>3 DEF Moves
<1> QED BY InitIInv, NextIInv, <1>1, PTL DEF Spec, EvidenceKept

\* The rows, the senders and the claims implement the abstract queue: a
\* delivery that was acked or dead-lettered stays so, nothing is sent twice,
\* and nothing of a dead letter is sent any more.
THEOREM OutboxImplemented == Spec => ImplementsOutbox
<1> DEFINE fate == [d \in Deliveries |-> row[d].status]
<1>1. Init => Promise!Init
  <2> SUFFICES ASSUME Init
               PROVE  /\ fate = [d \in Deliveries |-> "none"]
                      /\ copies = [d \in Deliveries |-> [u \in Promise!Unit |-> 0]]
    BY DEF Promise!Init
  <2>1. \A d \in Deliveries : row[d].status = "none"
    BY DEF Init
  <2> QED BY <2>1 DEF Init, Unit, Promise!Unit
<1>2. IInv /\ [Next]_vars => [Promise!Next]_(Promise!vars)
  <2> SUFFICES ASSUME IInv, [Next]_vars
               PROVE  Promise!Next \/ (fate' = fate /\ copies' = copies)
    BY DEF Promise!vars
  <2>1. Moves
    BY NextAdvances DEF Advances
  <2>2. CASE UNCHANGED <<row, copies>>
    BY <2>2
  <2>3. ASSUME NEW e \in Deliveries, NEW q \in Row, NEW n \in [Unit -> Nat],
               row' = [row EXCEPT ![e] = q],
               copies' = [copies EXCEPT ![e] = n],
               Moved(option[e], row[e], q, copies[e], n)
        PROVE  Promise!Next \/ (fate' = fate /\ copies' = copies)
    <3>1. /\ row \in [Deliveries -> Row] /\ copies \in [Deliveries -> [Unit -> Nat]]
      BY DEF IInv, TypeOK
    <3>2. fate[e] = row[e].status
      OBVIOUS
    <3>3. fate' = [fate EXCEPT ![e] = q.status]
      BY <2>3, <3>1
    <3> HIDE DEF fate
    <3>4. fate \in [Deliveries -> {"none", "pending", "acked", "failed"}]
      BY <3>1 DEF fate, Row
    <3>5. CASE q.status = row[e].status /\ n = copies[e]
      <4>1. fate' = fate /\ copies' = copies
        BY <2>3, <3>1, <3>2, <3>3, <3>4, <3>5
      <4> QED BY <4>1
    <3>6. CASE /\ q.status = row[e].status /\ row[e].status # "failed"
               /\ \E u \in Unit : copies[e][u] = 0 /\ n = [copies[e] EXCEPT ![u] = 1]
      <4>1. PICK u \in Unit : copies[e][u] = 0 /\ n = [copies[e] EXCEPT ![u] = 1]
        BY <3>6
      <4>2. fate' = fate /\ fate[e] # "failed"
        BY <3>2, <3>3, <3>4, <3>6
      <4>3. copies' = [copies EXCEPT ![e][u] = 1]
        BY <2>3, <3>1, <4>1
      <4> QED BY <4>1, <4>2, <4>3
             DEF Promise!Next, Promise!Transmit, Promise!Unit, Unit, fate
    <3>7. CASE row[e].status = "none" /\ q.status = "pending" /\ n = copies[e]
      <4>1. fate[e] = "none" /\ fate' = [fate EXCEPT ![e] = "pending"] /\ copies' = copies
        BY <2>3, <3>1, <3>2, <3>3, <3>7
      <4> QED BY <4>1 DEF Promise!Next, Promise!Accept, fate
    <3>8. CASE row[e].status = "pending" /\ q.status \in {"acked", "failed"} /\ n = copies[e]
      <4>1. fate[e] = "pending" /\ fate' = [fate EXCEPT ![e] = q.status] /\ copies' = copies
        BY <2>3, <3>1, <3>2, <3>3, <3>8
      <4> QED BY <3>8, <4>1 DEF Promise!Next, Promise!Settle, fate
    <3> QED BY <2>3, <3>5, <3>6, <3>7, <3>8 DEF Moved
  <2> QED BY <2>1, <2>2, <2>3 DEF Moves
<1> QED BY InitIInv, NextIInv, <1>1, <1>2, PTL DEF Spec, ImplementsOutbox, Promise!Spec
=============================================================================
