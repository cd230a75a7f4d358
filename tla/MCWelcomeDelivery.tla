------------------------- MODULE MCWelcomeDelivery -------------------------
EXTENDS WelcomeDelivery

CONSTANTS w1, w2, u1, u2

\* The group engine with a batch of two; a lease may lapse under any call.
GroupEngine ==
    [members |-> {u1, u2}, group |-> TRUE, batchMax |-> 2, lease |-> 1, httpTime |-> 1,
     timed |-> FALSE, maxFaults |-> 1, maxMoves |-> 1]
\* The Space engine with calls that keep to their timeouts.
SpaceEngine ==
    [members |-> {u1}, group |-> FALSE, batchMax |-> 1, lease |-> 4, httpTime |-> 2,
     timed |-> TRUE, maxFaults |-> 3, maxMoves |-> 2]

BothEngines == {GroupEngine, SpaceEngine}
=============================================================================
