----------------------- MODULE MCProjectProvisioning -----------------------
EXTENDS ProjectProvisioning

CONSTANTS d1, d2, p1, fleet, drive

\* Pods with different targets, and jobs that outlast their leases.
Different ==
    [maxes |-> {1}, configs |-> {{fleet, drive}, {drive}}, stalls |-> TRUE,
     maxFaults |-> 1, maxRequeues |-> 0]
\* Pods that disagree on the budget, and jobs that end in time.
Punctual ==
    [maxes |-> {1, 2}, configs |-> {{fleet}}, stalls |-> FALSE, maxFaults |-> 4, maxRequeues |-> 2]
\* Pods that disagree on the budget, and jobs that do not.
Stalling ==
    [maxes |-> {1, 2}, configs |-> {{fleet}}, stalls |-> TRUE, maxFaults |-> 3, maxRequeues |-> 1]

ThreeWorlds == {Different, Punctual, Stalling}
=============================================================================
