SPECIFICATION RemFairSpec
CONSTANTS
    ann = ann  ben = ben  bot = bot  w1 = w1  Nobody = Nobody
    Users = {ann, ben, bot}
    Workers = {w1}
    FirstOwner = ann
    Creator <- BensAgent
    MaxMembers = 2
    MaxAttempts = 2
    Batch = 1
    MaxRemovals = 2
    MaxFaults = 1
    MaxJobs = 2
INVARIANTS RemovalSound
PROPERTIES SeatStepsSound RemovalsFinish
CHECK_DEADLOCK FALSE
