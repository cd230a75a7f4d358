--------------------------- MODULE MCBotEventPoll ---------------------------
EXTENDS BotEventPoll, TLC

CONSTANTS b1, b2, r1, r2, q1, q2, a1, w1

A1B1 == a1 :> b1
A1R1 == a1 :> r1

\* One bot whose client moves between two replicas, and everything may fail: a filtered
\* event stands before the visible ones, or one that does not decode.
Moving ==
    [botOf : {(q1 :> b1) @@ (q2 :> b1)}, replicaOf : {(q1 :> r1) @@ (q2 :> r2)},
     kind : {<<"group", "dm", "dm">>, <<"broken", "dm", "dm">>}, faulty : {TRUE}]

\* Two bots compete for the holds of one replica, and no hint is lost.
Crowded ==
    [botOf : {(q1 :> b1) @@ (q2 :> b2)}, replicaOf : {(q1 :> r1) @@ (q2 :> r1)},
     kind : {<<"group", "dm", "dm">>}, faulty : {FALSE}]

MovingOrCrowded == Moving \cup Crowded
=============================================================================
