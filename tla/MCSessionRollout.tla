-------------------------- MODULE MCSessionRollout --------------------------
EXTENDS SessionRollout

CONSTANTS p1, p2, d1, d2

\* All five phases, two replicas, one of them ahead, outages and deaths.
Rolling ==
    [procs |-> {p1, p2}, deciders |-> {d1}, canary |-> {p2}, expect |-> 2, freezes |-> FALSE,
     first |-> 0, last |-> 4, maxMishaps |-> 2, maxOps |-> 0]
\* One replica at a time, which may be replaced.
Replaced ==
    [procs |-> {p1, p2}, deciders |-> {d1}, canary |-> {}, expect |-> 1, freezes |-> FALSE,
     first |-> 0, last |-> 4, maxMishaps |-> 1, maxOps |-> 0]
\* Two deciders, the operator, and a replica that may stall, over one advance.
Operated ==
    [procs |-> {p1}, deciders |-> {d1, d2}, canary |-> {}, expect |-> 1, freezes |-> TRUE,
     first |-> 1, last |-> 2, maxMishaps |-> 1, maxOps |-> 3]

ThreeDeployments == {Rolling, Replaced, Operated}

\* Two replicas, one of which may stall as a whole, over two advances.
Stalled ==
    [procs |-> {p1, p2}, deciders |-> {d1}, canary |-> {}, expect |-> 2, freezes |-> TRUE,
     first |-> 1, last |-> 3, maxMishaps |-> 1, maxOps |-> 0]
StalledAlone == {Stalled}
=============================================================================
