--------------------------- MODULE MCCommandQueue ---------------------------
(* An instance of CommandQueue for TLC.                                    *)
EXTENDS CommandQueue

CONSTANTS main, probe, c1, c2, c3, w1

MCLanes == {main, probe}
MCEntries == {c1, c2, c3}

\* A negative limit suspends a lane like zero does.
MCLimits == {-1, 2}

MCPriorities == {Normal, Background}

\* TLC explores two kinds of behaviours.  In "ordering" three commands of two
\* priorities share one lane that is cleared, suspended and resized; in
\* "timing" two commands, one of them with a lane timeout, and a drain waiter
\* use two lanes.
VARIABLE focus

MCInit == Init /\ focus \in {"ordering", "timing"}

\* What the steps of each kind leave alone
OrderingStep ==
    /\ UNCHANGED waiter
    /\ queue'[probe] = <<>> /\ activeTaskIds'[probe] = {}
    /\ maxConcurrent'[probe] = 1 /\ generation'[probe] = 0
    /\ \A e \in Entries : ~entry'[e].aborted /\ ~entry'[e].released
                            /\ entry'[e].race # "timeout"
                            /\ (entry'[e].answer = "refused" => entry'[e].lane = main)

TimingStep ==
    /\ entry'[c3] = entry[c3]
    /\ \A e \in Entries : entry'[e].priority = Normal
    /\ \A l \in Lanes : maxConcurrent'[l] > 0

MCNext ==
    /\ Next
    /\ IF focus = "ordering" THEN OrderingStep ELSE TimingStep
    /\ UNCHANGED focus

MCSpec == MCInit /\ [][MCNext]_<<vars, focus>>
=============================================================================
