---------------------------- MODULE HeartbeatWake ----------------------------
(***************************************************************************)
(* The wake layer of heartbeats: src/src/infra/heartbeat-wake.ts.          *)
(*                                                                         *)
(* Producers request a wake of a target (an agent, a session, or every     *)
(* agent).  Requests of one target are merged until a single timer fires;  *)
(* the wakes that are pending then form a batch, which is handed to the    *)
(* registered handler one by one.  A wake the handler was too busy for,    *)
(* and every wake of a batch in which it threw, is queued again behind a   *)
(* longer timer.  A restart of the gateway inside the process registers    *)
(* another handler while a batch of the former one may still be running.   *)
(*                                                                         *)
(* Here the handler answers as it likes; HeartbeatRunner puts the real one *)
(* in its place.  The code between two awaits is one action.  Of a wake    *)
(* the target and the intent are kept: its reason, source and delivery     *)
(* override travel with it unread.  Every producer in the repository pairs *)
(* the sources "interval" and "retry" with the intents used here, and      *)
(* Date.now() is taken not to run backwards.                               *)
(***************************************************************************)
EXTENDS Naturals, Sequences, SequencesExt

CONSTANTS
    Targets,            \* keys of wake targets
    Intents,            \* the intents producers use
    Delays,             \* the coalescing delays producers use, in ticks
    CoalesceMs,         \* DEFAULT_COALESCE_MS, in ticks
    RetryMs,            \* DEFAULT_RETRY_MS, in ticks
    NoTimer,            \* no timer is armed
    MaxRegistrations,   \* bound: handlers registered in the life of the process
    MaxThrows           \* bound: handler calls that throw

ASSUME WakeAssumption ==
    /\ Intents \subseteq {"manual", "immediate", "event", "scheduled"}
    /\ Delays \subseteq Nat
    /\ CoalesceMs \in Nat
    /\ RetryMs \in Nat
    /\ NoTimer \notin [left : Nat, delay : Nat, kind : {"normal", "retry"}]
    /\ MaxRegistrations \in Nat
    /\ MaxThrows \in Nat

VARIABLES
    handler,            \* the number of the registered handler, or 0
    handlerGeneration,  \* counts registrations and disposals
    registered,         \* for each registration, the generation it got
    stopped,            \* the registrations whose disposer was called
    pending,            \* pendingWakes, in the order of the map's keys
    timer,              \* the armed timer: ticks left, its delay and kind
    scheduled,          \* the flags of the same names
    running,
    batches,            \* the batches in flight, oldest first
    throws,             \* handler calls that threw
    asked               \* history: for each target, how urgent a wake is owed

vars == <<handler, handlerGeneration, registered, stopped, pending, timer,
          scheduled, running, batches, throws, asked>>

Wake == [target : Targets, intent : Intents]

AllDelays == Delays \cup {CoalesceMs, RetryMs}

Timer == [left : Nat, delay : AllDelays, kind : {"normal", "retry"}]

\* A batch awaits its handler's answer to wakes[at]; delay is the one of the
\* timer that started it.
Batch == [handler : Nat \ {0}, wakes : Seq(Wake), at : Nat \ {0}, delay : AllDelays]

TypeOK ==
    /\ handler \in 0 .. Len(registered)
    /\ handlerGeneration \in Nat
    /\ registered \in Seq(Nat)
    /\ stopped \subseteq DOMAIN registered
    /\ pending \in Seq(Wake)
    /\ timer \in Timer \cup {NoTimer}
    /\ scheduled \in BOOLEAN
    /\ running \in BOOLEAN
    /\ batches \in Seq(Batch)
    /\ \A n \in DOMAIN batches :
         /\ batches[n].handler \in DOMAIN registered
         /\ batches[n].at \in DOMAIN batches[n].wakes
    /\ throws \in 0 .. MaxThrows
    /\ asked \in [Targets -> 0 .. 3]

Init ==
    /\ handler = 0
    /\ handlerGeneration = 0
    /\ registered = << >>
    /\ stopped = {}
    /\ pending = << >>
    /\ timer = NoTimer
    /\ scheduled = FALSE
    /\ running = FALSE
    /\ batches = << >>
    /\ throws = 0
    /\ asked = [t \in Targets |-> 0]

-----------------------------------------------------------------------------
(* The pending wakes and the timer.  Operators named Bad... are faults     *)
(* that a property must notice; the specification does not use them.       *)

\* resolveWakePriority
Priority(w) ==
    CASE w.intent \in {"manual", "immediate"} -> 3
      [] w.intent = "event" -> 2
      [] w.intent = "scheduled" -> 1

\* The wakes ws are owed, at least as urgently as before.
Owed(ws) ==
    [t \in Targets |-> Max({asked[t]} \cup {Priority(w) : w \in {v \in ToSet(ws) : v.target = t}})]

\* The wakes in H are handed over, and with them what they are as urgent as.
HandedOver(owed, H) ==
    [t \in Targets |->
       IF \E w \in H : w.target = t /\ owed[t] <= Priority(w) THEN 0 ELSE owed[t]]

TargetsOf(ws) == {ws[i].target : i \in DOMAIN ws}

\* queuePendingWakeReason: one wake per target, and never a less urgent one
\* than before.
QueuePending(q, w) ==
    IF w.target \notin TargetsOf(q) THEN Append(q, w)
    ELSE [i \in DOMAIN q |->
            IF q[i].target = w.target /\ Priority(w) >= Priority(q[i]) THEN w ELSE q[i]]

\* The wakes ws are queued one after the other.
QueueAll(q, ws) == FoldLeft(QueuePending, q, ws)

BadSchedule(tm, delay, kind) == [left |-> delay, delay |-> delay, kind |-> kind]

\* schedule: a retry timer stays, and so does one that fires early enough.
Schedule(tm, delay, kind) ==
    IF tm # NoTimer /\ (tm.kind = "retry" \/ tm.left <= delay) THEN tm
    ELSE [left |-> delay, delay |-> delay, kind |-> kind]

-----------------------------------------------------------------------------
(* Producers and the clock.                                                *)

RequestHeartbeat(w, delay) ==
    /\ pending' = QueuePending(pending, w)
    /\ timer' = Schedule(timer, delay, "normal")
    /\ asked' = Owed(<<w>>)
    /\ UNCHANGED <<handler, handlerGeneration, registered, stopped, scheduled,
                   running, batches, throws>>

\* The timer one tick later
Aged(tm) == IF tm # NoTimer /\ tm.left > 0 THEN [tm EXCEPT !.left = @ - 1] ELSE tm

\* A timer fires when it is due or, if the process is busy, later.
TimePasses ==
    /\ timer' = Aged(timer)
    /\ UNCHANGED <<handler, handlerGeneration, registered, stopped, pending,
                   scheduled, running, batches, throws, asked>>

-----------------------------------------------------------------------------
(* The timer callback: nobody to call, a batch still running, or a batch   *)
(* of everything that is pending.  A batch of nothing would end in the     *)
(* same turn, but never comes about: see PendingIsArmed.                   *)

Fires == timer # NoTimer /\ timer.left = 0

FiresUnhandled ==
    /\ Fires
    /\ handler = 0
    /\ timer' = NoTimer
    /\ scheduled' = FALSE
    /\ UNCHANGED <<handler, handlerGeneration, registered, stopped, pending,
                   running, batches, throws, asked>>

FiresWhileRunning ==
    /\ Fires
    /\ handler # 0
    /\ running
    /\ scheduled' = TRUE
    /\ timer' = Schedule(NoTimer, timer.delay, timer.kind)
    /\ UNCHANGED <<handler, handlerGeneration, registered, stopped, pending,
                   running, batches, throws, asked>>

BadMayStart == handler # 0 /\ pending # << >>

MayStart == handler # 0 /\ ~running /\ pending # << >>

\* The first wake is handed over in the same turn.
StartBatch ==
    /\ Fires
    /\ MayStart
    /\ timer' = NoTimer
    /\ scheduled' = FALSE
    /\ running' = TRUE
    /\ pending' = << >>
    /\ batches' = Append(batches, [handler |-> handler, wakes |-> pending, at |-> 1,
                                   delay |-> timer.delay])
    /\ asked' = HandedOver(asked, {pending[1]})
    /\ UNCHANGED <<handler, handlerGeneration, registered, stopped, throws>>

-----------------------------------------------------------------------------
(* The handler answers.                                                    *)

\* The finally block, after which q is pending and tm is armed.
Finish(n, q, tm) ==
    /\ batches' = RemoveAt(batches, n)
    /\ running' = FALSE
    /\ pending' = q
    /\ timer' = IF q # << >> \/ scheduled THEN Schedule(tm, batches[n].delay, "normal")
                ELSE tm

\* The next wake of the batch is handed over, or the batch ends.
GoOn(n, q, tm) ==
    IF batches[n].at = Len(batches[n].wakes) THEN Finish(n, q, tm)
    ELSE /\ batches' = [batches EXCEPT ![n].at = @ + 1]
         /\ pending' = q
         /\ timer' = tm
         /\ UNCHANGED running

\* The wake that is handed over next, if there is one
NextWakes(n) ==
    LET b == batches[n] IN IF b.at = Len(b.wakes) THEN {} ELSE {b.wakes[b.at + 1]}

\* The wake ran, failed, or was skipped for good.
HandlerDone(n) ==
    /\ GoOn(n, pending, timer)
    /\ asked' = HandedOver(asked, NextWakes(n))
    /\ UNCHANGED <<handler, handlerGeneration, registered, stopped, scheduled, throws>>

\* The wake was skipped because its runtime is busy.
HandlerBusy(n) ==
    LET w == batches[n].wakes[batches[n].at]
    IN  /\ GoOn(n, QueuePending(pending, w), Schedule(timer, RetryMs, "retry"))
        /\ asked' = HandedOver(Owed(<<w>>), NextWakes(n))
        /\ UNCHANGED <<handler, handlerGeneration, registered, stopped, scheduled, throws>>

BadRetried(b) == SubSeq(b.wakes, b.at, b.at)

\* The wakes queued again when the handler throws: the whole batch, the wakes
\* that were served included.
Retried(b) == b.wakes

HandlerThrows(n) ==
    LET ws == Retried(batches[n])
    IN  /\ throws < MaxThrows
        /\ throws' = throws + 1
        /\ Finish(n, QueueAll(pending, ws), Schedule(timer, RetryMs, "retry"))
        /\ asked' = Owed(batches[n].wakes)
        /\ UNCHANGED <<handler, handlerGeneration, registered, stopped, scheduled>>

-----------------------------------------------------------------------------
(* Registration.                                                           *)

BadRescheduled(q) == NoTimer

\* The timer of a new handler
Rescheduled(q) == IF q # << >> THEN Schedule(NoTimer, CoalesceMs, "normal") ELSE NoTimer

\* setHeartbeatWakeHandler: the state of the former life is reset, also when
\* a batch of it is still in flight.
SetHandler ==
    /\ Len(registered) < MaxRegistrations
    /\ handlerGeneration' = handlerGeneration + 1
    /\ registered' = Append(registered, handlerGeneration + 1)
    /\ handler' = Len(registered) + 1
    /\ running' = FALSE
    /\ scheduled' = FALSE
    /\ timer' = Rescheduled(pending)
    /\ UNCHANGED <<stopped, pending, batches, throws, asked>>

\* The disposer of a registration only clears that registration.
MayClear(r) == handlerGeneration = registered[r] /\ handler = r

Dispose(r) ==
    /\ r \notin stopped
    /\ stopped' = stopped \cup {r}
    /\ handler' = IF MayClear(r) THEN 0 ELSE handler
    /\ handlerGeneration' = IF MayClear(r) THEN handlerGeneration + 1 ELSE handlerGeneration
    /\ UNCHANGED <<registered, pending, timer, scheduled, running, batches, throws, asked>>

TimerFires == FiresUnhandled \/ FiresWhileRunning \/ StartBatch

HandlerAnswers(n) == HandlerDone(n) \/ HandlerBusy(n) \/ HandlerThrows(n)

Next ==
    \/ \E w \in Wake, d \in Delays : RequestHeartbeat(w, d)
    \/ TimePasses
    \/ TimerFires
    \/ \E n \in DOMAIN batches : HandlerAnswers(n)
    \/ SetHandler
    \/ \E r \in DOMAIN registered : Dispose(r)

Spec == Init /\ [][Next]_vars

\* Time goes on, timers fire, and the handler answers: the agent run it waits
\* for has a timeout of its own.
Fairness ==
    /\ WF_vars(TimePasses)
    /\ WF_vars(TimerFires)
    /\ \A n \in 1 .. MaxRegistrations :
         WF_vars(n \in DOMAIN batches /\ HandlerAnswers(n))

FairSpec == Spec /\ Fairness

-----------------------------------------------------------------------------
(* Safety.                                                                 *)

\* The wakes of batch n that were not handed over yet
Remaining(n) == {batches[n].wakes[i] : i \in batches[n].at + 1 .. Len(batches[n].wakes)}

\* A wake that was requested, that found the handler busy or that was in a
\* batch when the handler threw, is pending or about to be handed over, or a
\* more urgent one of its target is, until a handler gets one as urgent.
NoWakeLost ==
    \A t \in Targets : asked[t] > 0 =>
      \E w \in ToSet(pending) \cup UNION {Remaining(n) : n \in DOMAIN batches} :
        w.target = t /\ Priority(w) >= asked[t]

\* Pending wakes never wait for another request: while a handler is
\* registered, a timer is armed for them.  And a timer is never armed for
\* nothing, whichever of two overlapping batches took the wakes.
PendingIsArmed ==
    /\ handler # 0 /\ pending # << >> => timer # NoTimer
    /\ timer # NoTimer => pending # << >>

\* Batches overlap only because a handler was registered while one was in
\* flight: there are never more of them than registrations, and one less
\* while the next may start.
OverlapsBounded ==
    IF running \/ registered = << >> THEN Len(batches) <= Len(registered)
    ELSE Len(batches) < Len(registered)

-----------------------------------------------------------------------------
(* Liveness.                                                               *)

\* A pending wake is handed over, or no handler is registered any more: no
\* stream of requests and no busy answers push its timer back for ever.
WakesHandedOver ==
    \A t \in Targets :
      t \in TargetsOf(pending) /\ handler # 0
        ~> handler = 0 \/ \E n \in DOMAIN batches : batches[n].wakes[batches[n].at].target = t
=============================================================================
