---------------------------- MODULE MCCronService ----------------------------
(* One run of CronService over a few environments. *)
EXTENDS CronService

CONSTANTS once, often, m1, m2

MCJobs == {once, often}
MCManuals == {m1, m2}
MCServices == 1 .. 2

Base == [jobs |-> {often}, agentTurn |-> {}, main |-> {}, due |-> {}, forced |-> {},
         outcomes |-> {"ok", "transient"},
         edits |-> 0, event |-> "none", failures |-> 0, stuck |-> 3, until |-> 4,
         started |-> TRUE]

MCEnvironments == {
    \* a manual run, ticks, reads and an edit
    [Base EXCEPT !.forced = {<<m1, often>>}, !.edits = 1, !.outcomes = {"transient"}],
    \* two manual runs of a one-shot job, a tick beside a due run
    [Base EXCEPT !.jobs = {once}, !.forced = {<<m1, once>>, <<m2, once>>}],
    [Base EXCEPT !.jobs = {once, often}, !.due = {<<m1, once>>}],
    \* catch-up at startup with more missed jobs than it runs at once
    [Base EXCEPT !.jobs = {once, often}, !.started = FALSE,
                 !.outcomes = {"ok", "skipped", "permanent"}],
    [Base EXCEPT !.jobs = {once, often}, !.agentTurn = {often}, !.started = FALSE],
    \* a crash; executions that another lifecycle left
    [Base EXCEPT !.jobs = {once, often}, !.event = "crash", !.stuck = 2],
    [Base EXCEPT !.jobs = {once, often}, !.event = "restart", !.started = FALSE,
                 !.until = 3],
    [Base EXCEPT !.jobs = {once, often}, !.main = {often}, !.event = "restart",
                 !.until = 3],
    [Base EXCEPT !.event = "restart", !.forced = {<<m1, often>>}, !.until = 3,
                 !.outcomes = {"ok"}],
    \* a reload while jobs wait for a worker, beside a manual run, after an edit
    [Base EXCEPT !.jobs = {once, often}, !.event = "reload", !.outcomes = {"ok"}],
    [Base EXCEPT !.jobs = {once}, !.event = "reload", !.forced = {<<m1, once>>},
                 !.until = 3],
    [Base EXCEPT !.event = "reload", !.forced = {<<m1, often>>}, !.until = 3],
    [Base EXCEPT !.jobs = {once}, !.event = "reload", !.edits = 1, !.until = 3,
                 !.outcomes = {"transient"}],
    \* heartbeats are disabled: an edit during a run, a start after a crash
    [Base EXCEPT !.jobs = {once}, !.main = {once}, !.edits = 1,
                 !.outcomes = {"ok", "disabled", "exhausted"}],
    [Base EXCEPT !.jobs = {once}, !.main = {once}, !.event = "crash",
                 !.outcomes = {"disabled", "ok"}],
    \* a write fails
    [Base EXCEPT !.jobs = {once, often}, !.failures = 1, !.started = FALSE,
                 !.stuck = 1],
    [Base EXCEPT !.failures = 1, !.edits = 1, !.forced = {<<m1, often>>},
                 !.stuck = 1, !.until = 3, !.outcomes = {"ok"}]
  }
=============================================================================
