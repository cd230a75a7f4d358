SPECIFICATION FairSpec
CONSTANTS
    e1 = e1
    e2 = e2
    w1 = w1
    w2 = w2
    r1 = r1
    k1 = k1
    t1 = t1
    t2 = t2
    t3 = t3
    NoToken = NoToken
    Events = {e1, e2}
    Tokens = {t1, t2, t3}
    Replicas = {r1}
    Workers = {w1, w2}
    Routes = {k1}
    RouteOf <- MCRouteOf
    ReplicaOf <- MCReplicaOf
    Registries <- AnyRoutes
    ReclaimLimit = 1
    MaxAttempts = 2
    MaxInFlight = 1
    MaxDisturb <- FewerForMore
CHECK_DEADLOCK FALSE
INVARIANTS QueueSound BudgetKept
PROPERTIES KeepsPromise EventuallySettled
