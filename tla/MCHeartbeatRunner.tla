-------------------------- MODULE MCHeartbeatRunner --------------------------
(* Small instances of HeartbeatRunner for TLC.                             *)
EXTENDS HeartbeatRunner

CONSTANT a1

\* The phases of the agents: all at the start of the interval
AlignedPhase == [a \in Agents |-> 0]

OneAgent == \A r \in DOMAIN agents : DOMAIN agents[r] \subseteq {a1}

OneRunner == Len(registered) <= 1 /\ reloads = 0

\* Only a1 ever ran.
OnlyOneRan ==
    /\ \A k \in DOMAIN runs : runs[k].agent = a1
    /\ \A a \in Agents \ {a1} : starts[a] = << >>

\* The wakes that are pending or in a batch
UnderWay == Range(pending) \cup UNION {Range(batches[n].wakes) : n \in DOMAIN batches}

\* The parts of the state space that one run covers: one runner of two
\* agents; one runner of one agent with all kinds of wakes; and runners of one
\* agent that are changed and replaced.
Covered ==
    \/ /\ OneRunner
       /\ toggles = 0
       /\ requests <= 1
       /\ \A w \in UnderWay : w.intent # "immediate"
       /\ Len(starts[a1]) <= 2
       /\ \A a \in Agents \ {a1} : Len(starts[a]) <= 1
    \/ /\ OneRunner /\ OneAgent
       /\ \A w \in UnderWay : w.target = Everyone
    \/ /\ OneAgent /\ OnlyOneRan
       /\ toggles = 0
       /\ throws = 0
       /\ \/ requests = 0 /\ Len(starts[a1]) <= 2
          \/ /\ reloads = 0
             /\ requests = 1
             /\ Len(starts[a1]) <= 1
             /\ \A w \in UnderWay : w.target = Everyone /\ w.intent # "immediate"
=============================================================================
