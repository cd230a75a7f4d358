SPECIFICATION FairSpec
CONSTANTS
    l1 = l1
    l2 = l2
    l3 = l3
    o1 = o1
    t0 = t0
    c1 = c1
    c2 = c2
    w1 = w1
    Logins = {l1, l2, l3}
    Logouts = {o1}
    Legacy = t0
    Requests = {c1, c2}
    Workers = {w1}
    MaxTries = 2
    MaxGens = 6
    Worlds <- FiveWorlds
CHECK_DEADLOCK FALSE
INVARIANTS SessionsSound
PROPERTIES AdoptedIsKept RevocationsApplied
