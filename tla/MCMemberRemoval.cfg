SPECIFICATION FairSpec
CONSTANTS
    u1 = u1  g1 = g1  q1 = q1  w1 = w1  w2 = w2
    Users = {u1}
    Groups = {g1}
    Projects = {q1}
    Workers = {w1, w2}
    MaxAttempts = 2
    PageSize = 1
    MaxPages = 1
    MaxRemovals = 1
INVARIANTS CleanupSound
PROPERTIES SparesMembers VerdictsStand JobsSettle
CHECK_DEADLOCK FALSE
