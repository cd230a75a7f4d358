SPECIFICATION FairSpec
CONSTANTS
    b1 = b1
    b2 = b2
    r1 = r1
    r2 = r2
    q1 = q1
    q2 = q2
    a1 = a1
    Bots = {b1, b2}
    Replicas = {r1, r2}
    Requests = {q1, q2}
    Worlds <- MovingOrCrowded
    Producers = {a1}
    Target <- A1B1
    Home <- A1R1
    MaxId = 3
    Limit = 1
    WaitChunks = 1
    MaxHolds = 1
    HoldOffs = 1
    RingDepth = 1
    w1 = w1
    RingWorkers = {w1}
    InOrder = TRUE
    MaxFaults = 1
CHECK_DEADLOCK FALSE
INVARIANTS HoldsSound NothingSkipped
PROPERTIES PollsServed
