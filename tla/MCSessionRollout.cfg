SPECIFICATION RolloutFairSpec
CONSTANTS
    p1 = p1
    p2 = p2
    d1 = d1
    d2 = d2
    Replicas = {p1, p2}
    Deciders = {d1, d2}
    Deployments <- ThreeDeployments
CHECK_DEADLOCK FALSE
INVARIANTS RolloutSound
PROPERTIES CapKept RolloutCompletes
