SPECIFICATION FairSpec
CONSTANTS
    p1 = p1  p2 = p2  x = x  y = y
    Pods = {p1, p2}
    Ids = {1, 2}
    Projects = {x, y}
    Histories <- OneOrTwo
    Batch = 2
    PerProject = 2
    MaxAttempts = 2
    MaxDisturb = 2
INVARIANTS OutboxSound
PROPERTIES KeepsOrder EventsSettle
CHECK_DEADLOCK FALSE
