--------------------------- MODULE OutboundDelivery ---------------------------
(***************************************************************************)
(* The write-ahead queue of outbound messages: the live send of            *)
(* src/src/infra/outbound/deliver.ts (l. 661-714, 1335-1635), the rows of  *)
(* delivery-queue-storage.ts over the SQLite table of                      *)
(* infra/delivery-queue-sqlite.ts, and the recovery loops of               *)
(* delivery-queue-recovery.ts.                                             *)
(*                                                                         *)
(* A delivery is written as a row, sent in one or more platform sends, and *)
(* acked.  A crash keeps the rows and loses everything else; loops started *)
(* at startup or on reconnect go through the pending rows.  A row carries  *)
(* the evidence of an attempt: it is replayed only when the attempt        *)
(* provably sent nothing.                                                  *)
(*                                                                         *)
(* Between two awaits of a sender lies at most one effect that outlives a  *)
(* crash (a row written, a message transmitted), and each is one action.   *)
(* A store call may fail when StoreMayFail; the fallbacks that code runs   *)
(* after a failed call are part of the same action, as the failed call had *)
(* no effect.                                                              *)
(*                                                                         *)
(* A sender is the call of deliverOutboundPayloadsInternal for one         *)
(* delivery, named like the delivery, or one of the recovery loops.        *)
(***************************************************************************)
EXTENDS Naturals, FiniteSets

CONSTANTS
    Deliveries,     \* the outbound messages that callers send
    Loops,          \* drain keys of drainPendingDeliveries, and Startup
    Startup,        \* the loop of recoverPendingDeliveries
    NoDelivery,     \* what a loop between two rows works on
    Options,        \* the parameters callers use, see Option
    MaxUnits,       \* bound: the platform sends of one delivery
    MaxRetries,     \* MAX_RETRIES of delivery-queue-recovery.ts
    MaxCrashes,     \* bound: the process stops at most this often
    StoreMayFail    \* whether calls of the store may fail

\* units: platform sends; bestEffort: go on after a failed one; required:
\* queuePolicy = "required", else "best_effort"; exact:
\* requireUnknownSendReconciliation; dispatches: the adapter calls
\* onPlatformSendDispatch; reconciles: it declares reconcileUnknownSend.
Option == [units : 1 .. MaxUnits, bestEffort : BOOLEAN, required : BOOLEAN,
           exact : BOOLEAN, dispatches : BOOLEAN, reconciles : BOOLEAN]

\* An exact send has one unit and an adapter that marks and reconciles it.
ASSUME ConstantsAssumption ==
    /\ Startup \in Loops
    /\ Deliveries \cap Loops = {}
    /\ NoDelivery \notin Deliveries
    /\ MaxUnits \in Nat \ {0}
    /\ MaxRetries \in Nat \ {0}
    /\ MaxCrashes \in Nat
    /\ StoreMayFail \in BOOLEAN
    /\ Options \subseteq Option
    /\ \A o \in Options : o.exact => o.units = 1 /\ o.dispatches /\ o.reconciles

VARIABLES
    row,                \* the queue row of each delivery
    option,             \* the parameters of each delivery
    copies,             \* how often each unit reached the platform
    waived,             \* units given up on purpose: suppressed or aborted
    hooks,              \* how often the commit hooks of a delivery ran
    entriesInProgress,  \* the in-memory claims
    sender,             \* the running live sends and recovery loops
    crashes             \* how often the process stopped

vars == <<row, option, copies, waived, hooks, entriesInProgress, sender, crashes>>

Senders == Deliveries \cup Loops
Unit == 1 .. MaxUnits

-----------------------------------------------------------------------------
(* Data.                                                                   *)

Evidence == {"none", "send_attempt_started", "unknown_after_send"}

Row == [status : {"none", "pending", "acked", "failed"},
        recoveryState : Evidence, retryCount : 0 .. MaxRetries]

\* pre and post are queuedPreSendState and queuedPostSendState (postSendState
\* in a loop); partial and allPre are hadPartialFailure and
\* partialFailuresArePreConnect; error is the class of what was thrown.
Sender == [phase : {"idle", "queued", "ready", "started", "dispatched",
                    "reporting", "finishing", "threw", "done", "next",
                    "claimed", "reconciling"},
           delivery : Deliveries \cup {NoDelivery}, todo : SUBSET Deliveries,
           queued : BOOLEAN, entryState : Evidence, unit : 1 .. MaxUnits + 1,
           pre : {"none", "marked", "acked"},
           post : {"none", "marked", "acked", "failed"},
           results : 0 .. MaxUnits, partial : BOOLEAN, allPre : BOOLEAN,
           error : {"none", "pre", "permanent", "other", "abort"}]

TypeOK ==
    /\ row \in [Deliveries -> Row]
    /\ option \in [Deliveries -> Option]
    /\ copies \in [Deliveries -> [Unit -> Nat]]
    /\ waived \in [Deliveries -> SUBSET Unit]
    /\ hooks \in [Deliveries -> Nat]
    /\ entriesInProgress \subseteq Deliveries
    /\ sender \in [Senders -> Sender]
    /\ crashes \in 0 .. MaxCrashes

\* A sender that has done nothing for delivery d yet
Fresh(d) ==
    [phase |-> "idle", delivery |-> d, todo |-> {}, queued |-> FALSE,
     entryState |-> "none", unit |-> 1, pre |-> "none", post |-> "none",
     results |-> 0, partial |-> FALSE, allPre |-> TRUE, error |-> "none"]

Init ==
    /\ row = [d \in Deliveries |->
                [status |-> "none", recoveryState |-> "none", retryCount |-> 0]]
    /\ option \in [Deliveries -> Options]
    /\ copies = [d \in Deliveries |-> [u \in Unit |-> 0]]
    /\ waived = [d \in Deliveries |-> {}]
    /\ hooks = [d \in Deliveries |-> 0]
    /\ entriesInProgress = {}
    /\ sender = [s \in Senders |->
                   Fresh(IF s \in Deliveries THEN s ELSE NoDelivery)]
    /\ crashes = 0

-----------------------------------------------------------------------------
(* The store.  Every operator is the set of outcomes of a call on row r:   *)
(* the row it leaves, and whether it returned.                             *)

\* Operators named Bad... are faults that a property must notice; the
\* specification does not use them.

Call(r, new, can) ==
    LET returned == [row |-> new, ok |-> TRUE]
        thrown == [row |-> r, ok |-> FALSE]
    IN  IF ~can THEN {thrown}
        ELSE IF StoreMayFail THEN {returned, thrown} ELSE {returned}

\* updateQueuedDelivery throws ENOENT unless the row is pending.
Update(r, new) == Call(r, new, r.status = "pending")

\* deleteDeliveryQueueEntry deletes a pending row, and does not miss one.
AckDelivery(r) ==
    Call(r, IF r.status = "pending" THEN [r EXCEPT !.status = "acked"] ELSE r, TRUE)

FailDelivery(r) == Update(r, [r EXCEPT !.retryCount = @ + 1])

FailDeliveryBeforePlatformSend(r) ==
    Update(r, [r EXCEPT !.retryCount = @ + 1, !.recoveryState = "none"])

FailDeliveryAfterPlatformSend(r) ==
    Update(r, [r EXCEPT !.retryCount = @ + 1, !.recoveryState = "unknown_after_send"])

\* markDeliveryPlatformSendAttemptStarted, markDeliveryPlatformSendDispatched
MarkSendStarted(r) == Update(r, [r EXCEPT !.recoveryState = "send_attempt_started"])

MarkOutcomeUnknown(r) == Update(r, [r EXCEPT !.recoveryState = "unknown_after_send"])

MoveToFailed(r) == Update(r, [r EXCEPT !.status = "failed"])

BadIgnoresFailedMark(r, required) ==
    {[row |-> m.row, state |-> "marked"] : m \in MarkSendStarted(r)}

BadAcksRequired(r, required) ==
    UNION {IF m.ok THEN {[row |-> m.row, state |-> "marked"]}
           ELSE {[row |-> a.row, state |-> IF a.ok THEN "acked" ELSE "threw"] :
                   a \in AckDelivery(m.row)} : m \in MarkSendStarted(r)}

\* persistQueuedPreSendState: without the marker a required delivery is not
\* sent, and a best-effort one is sent without its row.
PersistPreSendState(r, required) ==
    UNION {IF m.ok THEN {[row |-> m.row, state |-> "marked"]}
           ELSE IF required THEN {[row |-> m.row, state |-> "threw"]}
           ELSE {[row |-> a.row, state |-> IF a.ok THEN "acked" ELSE "threw"] :
                   a \in AckDelivery(m.row)} : m \in MarkSendStarted(r)}

\* persistQueuedPostSendState and persistRecoveredPostSendState
PersistPostSendState(r) ==
    UNION {IF m.ok THEN {[row |-> m.row, state |-> "marked"]}
           ELSE UNION {IF a.ok THEN {[row |-> a.row, state |-> "acked"]}
                       ELSE {[row |-> f.row,
                              state |-> IF f.ok THEN "failed" ELSE "threw"] :
                               f \in FailDeliveryAfterPlatformSend(a.row)} :
                       a \in AckDelivery(m.row)} : m \in MarkOutcomeUnknown(r)}

\* "postSendState ??= await persist..."
PersistOnce(r, post) ==
    IF post = "none" THEN PersistPostSendState(r)
    ELSE {[row |-> r, state |-> post]}

BadClearsEvidence(r, preConnect) == FailDeliveryBeforePlatformSend(r)

\* failDeliveryBeforePlatformSend or failDelivery
RecordFailure(r, preConnect) ==
    IF preConnect THEN FailDeliveryBeforePlatformSend(r) ELSE FailDelivery(r)

-----------------------------------------------------------------------------
(* Senders.                                                                *)

IsLoop(s) == s \in Loops

\* There is a row that the sender of x keeps up to date (platformQueueId).
Backed(s) == IsLoop(s) \/ sender[s].queued

\* All units of the delivery were gone through: the core returned.
Returned(s) ==
    /\ sender[s].phase = "ready"
    /\ sender[s].unit > option[sender[s].delivery].units

\* A sender x of options o whose current unit failed with a class of error
UnitFailed(x, o, class) ==
    IF o.bestEffort
    THEN [x EXCEPT !.phase = "ready", !.unit = @ + 1, !.partial = TRUE,
                   !.allPre = @ /\ class = "pre"]
    ELSE [x EXCEPT !.phase = "threw", !.error = class]

Set(s, x) == sender' = [sender EXCEPT ![s] = x]

BadKeepsClaim(s) ==
    LET d == sender[s].delivery
        rest == sender[s].todo \ {d}
    IN  /\ UNCHANGED entriesInProgress
        /\ IF IsLoop(s)
           THEN Set(s, [Fresh(NoDelivery) EXCEPT
                          !.phase = IF rest = {} THEN "idle" ELSE "next",
                          !.todo = rest])
           ELSE Set(s, [Fresh(d) EXCEPT !.phase = "done"])

\* The finally block: the claim is released, and a loop takes its next row.
Release(s) ==
    LET d == sender[s].delivery
        rest == sender[s].todo \ {d}
    IN  /\ entriesInProgress' = entriesInProgress \ {d}
        /\ IF IsLoop(s)
           THEN Set(s, [Fresh(NoDelivery) EXCEPT
                          !.phase = IF rest = {} THEN "idle" ELSE "next",
                          !.todo = rest])
           ELSE Set(s, [Fresh(d) EXCEPT !.phase = "done"])

BadRunCommitHooks(d, when) == hooks' = [hooks EXCEPT ![d] = @ + 1]

\* Commit hooks run for a delivery that has results.
RunCommitHooks(d, when) == hooks' = [hooks EXCEPT ![d] = IF when THEN @ + 1 ELSE @]

-----------------------------------------------------------------------------
(* The live send: deliverOutboundPayloadsInternal with a queue.            *)

\* enqueueDelivery.  When the row cannot be written a required delivery is
\* refused and a best-effort one is sent without the queue.
EnqueueDelivery(d) ==
    /\ sender[d].phase = "idle"
    /\ \E w \in Call(row[d], [row[d] EXCEPT !.status = "pending"], TRUE) :
         /\ row' = [row EXCEPT ![d] = w.row]
         /\ Set(d, [sender[d] EXCEPT
                      !.queued = w.ok,
                      !.phase = IF w.ok THEN "queued"
                                ELSE IF option[d].required THEN "done"
                                ELSE "ready"])
    /\ UNCHANGED <<option, copies, waived, hooks, entriesInProgress, crashes>>

BadClaimDelivery(d) ==
    /\ sender[d].phase = "queued"
    /\ Set(d, [sender[d] EXCEPT !.phase = "ready"])
    /\ entriesInProgress' = entriesInProgress \cup {d}
    /\ UNCHANGED <<row, option, copies, waived, hooks, crashes>>

\* withActiveDeliveryClaim: a loop that found the new row first sends it.
ClaimDelivery(d) ==
    /\ sender[d].phase = "queued"
    /\ Set(d, [sender[d] EXCEPT
                 !.phase = IF d \in entriesInProgress THEN "done" ELSE "ready"])
    /\ entriesInProgress' = entriesInProgress \cup {d}
    /\ UNCHANGED <<row, option, copies, waived, hooks, crashes>>

-----------------------------------------------------------------------------
(* The core of a send: deliverOutboundPayloadsCore under the callbacks of  *)
(* deliverOutboundPayloadsWithQueueCleanup.                                *)

\* The unit before the sender has still to be sent.
AtUnit(s) == sender[s].phase = "ready" /\ ~Returned(s)

\* A hook cancels the payload, or nothing visible is left of it.
SuppressUnit(s) ==
    LET d == sender[s].delivery
    IN  /\ AtUnit(s)
        /\ waived' = [waived EXCEPT ![d] = @ \cup {sender[s].unit}]
        /\ Set(s, [sender[s] EXCEPT !.unit = @ + 1])
        /\ UNCHANGED <<row, option, copies, hooks, entriesInProgress, crashes>>

\* throwIfAborted: the caller of a live send aborted it, which also fails
\* every unit that is left of a best-effort batch.
AbortSend(d) ==
    LET x == sender[d]
        o == option[d]
    IN  /\ AtUnit(d)
        /\ waived' = [waived EXCEPT ![d] = @ \cup x.unit .. o.units]
        /\ Set(d, UnitFailed(IF o.bestEffort THEN [x EXCEPT !.unit = o.units] ELSE x,
                             o, "abort"))
        /\ UNCHANGED <<row, option, copies, hooks, entriesInProgress, crashes>>

\* onPlatformSendStart writes the marker before the first send; an exact
\* send leaves it to onPlatformSendDispatch.
StartUnit(s) ==
    LET d == sender[s].delivery
        x == sender[s]
        o == option[d]
    IN  /\ AtUnit(s)
        /\ IF Backed(s) /\ ~o.exact /\ x.pre = "none"
           THEN \E w \in PersistPreSendState(row[d], o.required) :
                  /\ row' = [row EXCEPT ![d] = w.row]
                  /\ Set(s, IF w.state = "threw" THEN UnitFailed(x, o, "other")
                            ELSE [x EXCEPT
                              !.phase = "started", !.pre = w.state,
                              !.post = IF x.queued /\ w.state = "acked"
                                       THEN "acked" ELSE @])
           ELSE /\ Set(s, [x EXCEPT !.phase = "started"])
                /\ UNCHANGED row
        /\ UNCHANGED <<option, copies, waived, hooks, entriesInProgress, crashes>>

\* onPlatformSendDispatch: the adapter is about to do its I/O.
DispatchUnit(s) ==
    LET d == sender[s].delivery
        x == sender[s]
        o == option[d]
        sending == [x EXCEPT !.phase = "dispatched"]
    IN  /\ x.phase = "started"
        /\ o.dispatches
        /\ IF Backed(s) /\ x.pre # "acked"
           THEN \E w \in MarkSendStarted(row[d]) :
                  /\ row' = [row EXCEPT ![d] = w.row]
                  /\ Set(s, IF w.ok THEN [sending EXCEPT !.pre = "marked"]
                            ELSE IF o.exact THEN UnitFailed(x, o, "other")
                            ELSE sending)
           ELSE Set(s, sending) /\ UNCHANGED row
        /\ UNCHANGED <<option, copies, waived, hooks, entriesInProgress, crashes>>

\* The platform takes the message, or the adapter throws: before it connected,
\* after a refusal, or without saying whether the message got through.  An
\* adapter that suppresses the message returns a result without identity.
\* Adapters are assumed to throw no error named AbortError of their own, as
\* none in the repository does: the code would take it for an abort by the
\* caller (isDeliveryAbortError) and ack the delivery.
TransmitUnit(s) ==
    LET d == sender[s].delivery
        x == sender[s]
        o == option[d]
        arrived == [copies EXCEPT ![d][x.unit] = @ + 1]
    IN  /\ \/ x.phase = "dispatched"
           \/ x.phase = "started" /\ ~o.dispatches
        /\ \/ /\ copies' = arrived
              /\ Set(s, [x EXCEPT !.phase = "reporting"])
              /\ UNCHANGED waived
           \/ /\ waived' = [waived EXCEPT ![d] = @ \cup {x.unit}]
              /\ Set(s, [x EXCEPT !.phase = "ready", !.unit = @ + 1])
              /\ UNCHANGED copies
           \/ /\ \E class \in {"pre", "permanent", "other"} :
                   Set(s, UnitFailed(x, o, class))
              /\ UNCHANGED <<copies, waived>>
           \/ /\ copies' = arrived
              /\ Set(s, UnitFailed(x, o, "other"))
              /\ UNCHANGED waived
        /\ UNCHANGED <<row, option, hooks, entriesInProgress, crashes>>

\* onDeliveryResult: the evidence is persisted before anything else happens.
ReportResult(s) ==
    LET d == sender[s].delivery
        x == [sender[s] EXCEPT !.results = @ + 1]
        next == [x EXCEPT !.phase = "ready", !.unit = @ + 1]
    IN  /\ x.phase = "reporting"
        /\ IF Backed(s)
           THEN \E w \in PersistOnce(row[d], x.post) :
                  /\ row' = [row EXCEPT ![d] = w.row]
                  /\ Set(s, IF w.state = "threw" THEN UnitFailed(x, option[d], "other")
                            ELSE [next EXCEPT !.post = w.state])
           ELSE Set(s, next) /\ UNCHANGED row
        /\ UNCHANGED <<option, copies, waived, hooks, entriesInProgress, crashes>>

-----------------------------------------------------------------------------
(* The end of a live send: deliverOutboundPayloadsWithQueueCleanup after   *)
(* the core returned or threw.                                             *)

\* A delivery that is sent without a row
FinishDirect(d) ==
    /\ ~sender[d].queued
    /\ Returned(d) \/ sender[d].phase = "threw"
    /\ RunCommitHooks(d, Returned(d) /\ sender[d].results > 0)
    /\ Release(d)
    /\ UNCHANGED <<row, option, copies, waived, crashes>>

\* The post-send state is persisted unless a result did so already.  After a
\* partial failure only the local postSendState learns of it, so the hooks
\* are not run when the row is acked here.
PersistLiveOutcome(d) ==
    LET x == sender[d]
        mayHaveSent == x.results > 0 \/ (~x.partial /\ x.pre = "marked")
    IN  /\ x.queued
        /\ Returned(d)
        /\ IF mayHaveSent
           THEN \E w \in PersistOnce(row[d], x.post) :
                  /\ row' = [row EXCEPT ![d] = w.row]
                  /\ IF \/ w.state = "threw"
                        \/ x.partial /\ x.post = "none" /\ w.state # "marked"
                     THEN Release(d)
                     ELSE /\ Set(d, [x EXCEPT !.phase = "finishing", !.post = w.state])
                          /\ UNCHANGED entriesInProgress
           ELSE /\ Set(d, [x EXCEPT !.phase = "finishing"])
                /\ UNCHANGED <<row, entriesInProgress>>
        /\ UNCHANGED <<option, copies, waived, hooks, crashes>>

\* The row is acked, or keeps what is known of a send that failed in part.
FinishLive(d) ==
    LET x == sender[d]
        sent == x.results > 0
        outcomes ==
            IF x.post \in {"acked", "failed"} THEN {row[d]}
            ELSE IF x.partial
            THEN {w.row : w \in RecordFailure(row[d], ~sent /\ x.allPre)}
            ELSE UNION {IF a.ok THEN {a.row}
                        ELSE {w.row : w \in IF sent \/ x.pre # "none"
                                            THEN FailDeliveryAfterPlatformSend(a.row)
                                            ELSE FailDelivery(a.row)} :
                        a \in AckDelivery(row[d])}
    IN  /\ x.phase = "finishing"
        /\ ~IsLoop(d)
        /\ \E r \in outcomes :
             /\ row' = [row EXCEPT ![d] = r]
             /\ RunCommitHooks(d, sent /\ r.status = "acked")
        /\ Release(d)
        /\ UNCHANGED <<option, copies, waived, crashes>>

\* The catch block: an aborted delivery is acked, one that may have been seen
\* keeps its evidence, any other is kept for a retry.
CatchLive(d) ==
    LET x == sender[d]
        sent == x.results > 0
        outcomes ==
            IF x.error = "abort" THEN {w.row : w \in AckDelivery(row[d])}
            ELSE IF sent
            THEN UNION {IF w.state = "marked"
                        THEN {f.row : f \in FailDeliveryAfterPlatformSend(w.row)}
                        ELSE {w.row} : w \in PersistOnce(row[d], x.post)}
            ELSE {w.row : w \in RecordFailure(row[d], x.error = "pre")}
    IN  /\ x.phase = "threw"
        /\ x.queued
        /\ \E r \in outcomes :
             /\ row' = [row EXCEPT ![d] = r]
             /\ RunCommitHooks(d, x.error # "abort" /\ sent /\ r.status = "acked")
        /\ Release(d)
        /\ UNCHANGED <<option, copies, waived, crashes>>

-----------------------------------------------------------------------------
(* The recovery loops: drainPendingDeliveries and, at startup,             *)
(* recoverPendingDeliveries.                                               *)

\* A loop reads the pending rows once and works on that list.
StartLoop(k) ==
    LET pending == {d \in Deliveries : row[d].status = "pending"}
    IN  /\ sender[k].phase = "idle"
        /\ pending # {}
        /\ Set(k, [sender[k] EXCEPT !.phase = "next", !.todo = pending])
        /\ UNCHANGED <<row, option, copies, waived, hooks, entriesInProgress, crashes>>

\* The list without d, or an end of the loop
SkipEntry(k, d, abandon) ==
    LET rest == IF abandon THEN {} ELSE sender[k].todo \ {d}
    IN  Set(k, [Fresh(NoDelivery) EXCEPT
                  !.phase = IF rest = {} THEN "idle" ELSE "next", !.todo = rest])

Exhausted(r) == r.retryCount >= MaxRetries

\* The next row is claimed and read again.  It is passed over when somebody
\* else has it, when it is gone, and while it backs off; a row out of retries
\* is dead-lettered, and a failure of that ends a drain but not recovery.
ClaimEntry(k, d) ==
    LET free == d \notin entriesInProgress
        current == row[d].status = "pending"
    IN  /\ sender[k].phase = "next"
        /\ d \in sender[k].todo
        /\ \/ /\ \/ ~free
                 \/ ~current
                 \/ ~Exhausted(row[d]) /\ row[d].retryCount > 0
              /\ SkipEntry(k, d, FALSE)
              /\ UNCHANGED <<row, entriesInProgress>>
           \/ /\ free /\ current /\ Exhausted(row[d])
              /\ \E w \in MoveToFailed(row[d]) :
                   /\ row' = [row EXCEPT ![d] = w.row]
                   /\ SkipEntry(k, d, ~w.ok /\ k # Startup)
              /\ UNCHANGED entriesInProgress
           \/ /\ free /\ current /\ ~Exhausted(row[d])
              /\ entriesInProgress' = entriesInProgress \cup {d}
              /\ Set(k, [sender[k] EXCEPT
                           !.phase = "claimed", !.delivery = d,
                           !.entryState = row[d].recoveryState])
              /\ UNCHANGED row
        /\ UNCHANGED <<option, copies, waived, hooks, crashes>>

\* The pacer lets the loop go on, or the time of the startup loop is over.  A
\* live send whose row was just written claims it a few microtasks later, which
\* comes before the end of this wait.
PaceReplay(k) ==
    LET d == sender[k].delivery
        x == sender[k]
    IN  /\ x.phase = "claimed"
        /\ sender[d].phase # "queued"
        /\ \/ /\ Set(k, [x EXCEPT !.phase = IF x.entryState = "none" THEN "ready"
                                            ELSE "reconciling"])
              /\ UNCHANGED entriesInProgress
           \/ /\ k = Startup
              /\ SkipEntry(k, d, TRUE)
              /\ entriesInProgress' = entriesInProgress \ {d}
        /\ UNCHANGED <<row, option, copies, waived, hooks, crashes>>

\* What the adapter's reconcileUnknownSend may answer when it is honest:
\* "sent" of a whole delivery, "not_sent" only if no part of it arrived.
Answers(d) ==
    IF ~option[d].reconciles THEN {"no_adapter"}
    ELSE {"unresolved", "unresolved_retryable"}
           \cup {a \in {"sent"} : \A u \in 1 .. option[d].units : copies[d][u] > 0}
           \cup {a \in {"not_sent"} : \A u \in Unit : copies[d][u] = 0}

BadMayReplay(answer, evidence) == answer # "sent"

\* reconciliationProvedPreSendFailure
MayReplay(answer, evidence) ==
    answer = "not_sent" /\ evidence = "send_attempt_started"

\* A row with evidence of an attempt is replayed only if the adapter proves
\* that the attempt did not get through.
ReconcileEntry(k) ==
    LET d == sender[k].delivery
        x == sender[k]
        outcomes(answer) ==
            IF answer = "sent"
            THEN UNION {IF a.ok THEN {a} ELSE FailDelivery(a.row) :
                        a \in AckDelivery(row[d])}
            ELSE IF answer = "unresolved_retryable" THEN FailDelivery(row[d])
            ELSE MoveToFailed(row[d])
    IN  /\ x.phase = "reconciling"
        /\ \E answer \in Answers(d) :
             IF MayReplay(answer, x.entryState)
             THEN /\ Set(k, [x EXCEPT !.phase = "ready"])
                  /\ UNCHANGED <<row, hooks, entriesInProgress>>
             ELSE /\ \E w \in outcomes(answer) :
                       /\ row' = [row EXCEPT ![d] = w.row]
                       /\ RunCommitHooks(d, w.row.status = "acked")
                  /\ Release(k)
        /\ UNCHANGED <<option, copies, waived, crashes>>

\* The replay returned: what it sent is persisted, a failure is recorded.
\* What throws here is caught by CatchLoop.
PersistLoopOutcome(k) ==
    LET d == sender[k].delivery
        x == sender[k]
        sent == x.results > 0
        threw(post) == [x EXCEPT !.phase = "threw", !.error = "other", !.post = post]
    IN  /\ IsLoop(k)
        /\ Returned(k)
        /\ IF sent
           THEN \E w \in PersistOnce(row[d], x.post) :
                  /\ row' = [row EXCEPT ![d] = w.row]
                  /\ IF w.state = "threw"
                     THEN Set(k, threw("none")) /\ UNCHANGED <<hooks, entriesInProgress>>
                     ELSE IF w.state = "marked" /\ ~x.partial
                     THEN /\ Set(k, [x EXCEPT !.phase = "finishing", !.post = "marked"])
                          /\ UNCHANGED <<hooks, entriesInProgress>>
                     ELSE Release(k) /\ RunCommitHooks(d, w.state = "acked")
           ELSE IF x.partial
           THEN \E w \in RecordFailure(row[d], x.allPre) :
                  /\ row' = [row EXCEPT ![d] = w.row]
                  /\ IF w.ok THEN Release(k)
                     ELSE Set(k, threw(x.post)) /\ UNCHANGED entriesInProgress
                  /\ UNCHANGED hooks
           ELSE /\ Set(k, [x EXCEPT !.phase = "finishing"])
                /\ UNCHANGED <<row, hooks, entriesInProgress>>
        /\ UNCHANGED <<option, copies, waived, crashes>>

\* The replayed row is acked.
FinishLoop(k) ==
    LET d == sender[k].delivery
        x == sender[k]
        sent == x.results > 0
        unacked(r) == IF sent THEN FailDeliveryAfterPlatformSend(r) ELSE FailDelivery(r)
    IN  /\ IsLoop(k)
        /\ x.phase = "finishing"
        /\ \E a \in AckDelivery(row[d]) :
             IF a.ok
             THEN /\ row' = [row EXCEPT ![d] = a.row]
                  /\ RunCommitHooks(d, sent)
                  /\ Release(k)
             ELSE \E f \in unacked(a.row) :
                    /\ row' = [row EXCEPT ![d] = f.row]
                    /\ IF f.ok THEN Release(k)
                       ELSE /\ Set(k, [x EXCEPT !.phase = "threw", !.error = "other"])
                            /\ UNCHANGED entriesInProgress
                    /\ UNCHANGED hooks
        /\ UNCHANGED <<option, copies, waived, crashes>>

\* The catch block of drainQueuedEntry
CatchLoop(k) ==
    LET d == sender[k].delivery
        x == sender[k]
        hasSendEvidence == x.results > 0 \/ x.post # "none"
        outcomes ==
            IF hasSendEvidence
            THEN {[row |-> w.row, acked |-> w.state = "acked"] :
                    w \in PersistOnce(row[d], x.post)}
            ELSE {[row |-> w.row, acked |-> FALSE] :
                    w \in IF x.error = "permanent" THEN MoveToFailed(row[d])
                          ELSE RecordFailure(row[d], x.error = "pre")}
    IN  /\ IsLoop(k)
        /\ x.phase = "threw"
        /\ \E w \in outcomes :
             /\ row' = [row EXCEPT ![d] = w.row]
             /\ RunCommitHooks(d, w.acked /\ x.results > 0)
        /\ Release(k)
        /\ UNCHANGED <<option, copies, waived, crashes>>

\* The process stops and starts again: only the rows and what the platform
\* got remain.  A caller whose send was interrupted is gone.
Crash ==
    /\ crashes < MaxCrashes
    /\ crashes' = crashes + 1
    /\ entriesInProgress' = {}
    /\ sender' = [s \in Senders |->
                    IF IsLoop(s) THEN Fresh(NoDelivery)
                    ELSE [Fresh(s) EXCEPT !.phase =
                            IF sender[s].phase = "idle" THEN "idle" ELSE "done"]]
    /\ UNCHANGED <<row, option, copies, waived, hooks>>

\* What the steps of a running sender are: a live send, a loop, the core
LiveStep(d) ==
    \/ ClaimDelivery(d)
    \/ AbortSend(d)
    \/ FinishDirect(d)
    \/ PersistLiveOutcome(d)
    \/ FinishLive(d)
    \/ CatchLive(d)

LoopStep(k) ==
    \/ \E d \in Deliveries : ClaimEntry(k, d)
    \/ PaceReplay(k)
    \/ ReconcileEntry(k)
    \/ PersistLoopOutcome(k)
    \/ FinishLoop(k)
    \/ CatchLoop(k)

CoreStep(s) ==
    \/ SuppressUnit(s)
    \/ StartUnit(s)
    \/ DispatchUnit(s)
    \/ TransmitUnit(s)
    \/ ReportResult(s)

Next ==
    \/ \E d \in Deliveries : EnqueueDelivery(d)
    \/ \E k \in Loops : StartLoop(k)
    \/ \E d \in Deliveries : LiveStep(d)
    \/ \E k \in Loops : LoopStep(k)
    \/ \E s \in Senders : CoreStep(s)
    \/ Crash

Spec == Init /\ [][Next]_vars

\* A sender that has begun goes on: its awaits settle.
Fairness ==
    /\ \A d \in Deliveries : WF_vars(LiveStep(d) \/ CoreStep(d))
    /\ \A k \in Loops : WF_vars(LoopStep(k) \/ CoreStep(k))

FairSpec == Spec /\ Fairness

-----------------------------------------------------------------------------
(* Safety.                                                                 *)

\* No part of a delivery reaches the platform twice, whatever crashes, store
\* failures, retries and concurrent loops do, as long as the adapter's
\* reconcileUnknownSend is honest.
AtMostOnce == \A d \in Deliveries, u \in Unit : copies[d][u] <= 1

\* A pending row whose message may have been seen says so, at every moment a
\* crash can strike; a loop that reads no evidence can replay it.
EvidenceOnRow ==
    \A d \in Deliveries :
      row[d].status = "pending" /\ (\E u \in Unit : copies[d][u] > 0)
        => row[d].recoveryState # "none"

\* The senders that hold the claim of a queued delivery
Working(d) ==
    {s \in Senders : /\ sender[s].delivery = d
                     /\ sender[s].phase \notin {"idle", "queued", "next", "done"}
                     /\ Backed(s)}

\* A queued delivery is worked on by one sender at a time, and exactly then
\* claimed: a live send and a loop never process the same row together, and
\* no early return leaves a claim behind (withActiveDeliveryClaim, the
\* finally blocks of the loops).
OneSenderPerDelivery ==
    \A d \in Deliveries :
      Cardinality(Working(d)) = IF d \in entriesInProgress THEN 1 ELSE 0

\* The commit hooks of a delivery run at most once, and not while a row
\* could still be replayed (runCommitHooksAfterAck).
HooksOnceAfterAck ==
    \A d \in Deliveries :
      /\ hooks[d] <= 1
      /\ hooks[d] = 1 => row[d].status \in {"acked", "none"}

\* A required delivery leaves the queue as delivered only when something of
\* it was delivered, or all of it was given up on purpose.
NoRequiredLoss ==
    \A d \in Deliveries :
      row[d].status = "acked" /\ option[d].required
        => \/ \E u \in Unit : copies[d][u] > 0
           \/ waived[d] # {}

-----------------------------------------------------------------------------
(* Action properties.                                                      *)

KeepsEvidence(d) ==
    /\ row[d].status = "pending"
    /\ row[d].recoveryState = "unknown_after_send"
    => row'[d].recoveryState = "unknown_after_send"

\* Evidence that something was delivered is not taken back while the row is
\* pending, if the adapter does not call onPlatformSendDispatch: no error
\* path, retry or restart makes a row replayable again.
EvidenceKept ==
    [][\A d \in Deliveries : option[d].dispatches \/ KeepsEvidence(d)]_vars

\* "Preserve that concrete evidence so reconnect recovery never replays the
\* batch" (delivery-queue-recovery.ts, l. 579-580), for every adapter.  The
\* code marks the next send over it (see the README).
EvidenceAlwaysKept == [][\A d \in Deliveries : KeepsEvidence(d)]_vars

-----------------------------------------------------------------------------
(* The abstract queue, and liveness.                                       *)

\* This module implements the queue of module Outbox.
Promise == INSTANCE Outbox WITH fate <- [d \in Deliveries |-> row[d].status]

ImplementsOutbox == Promise!Spec

\* A claim is given back: no error path blocks a row for the life of the
\* process.
ClaimsReleased ==
    \A d \in Deliveries :
      d \in entriesInProgress ~> d \notin entriesInProgress
=============================================================================
