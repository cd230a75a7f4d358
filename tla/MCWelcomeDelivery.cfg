SPECIFICATION FairSpec
CONSTANTS
    w1 = w1
    w2 = w2
    u1 = u1
    u2 = u2
    Workers = {w1, w2}
    Members = {u1, u2}
    MaxAttempts = 1
    Engines <- BothEngines
INVARIANTS LedgerSound LeaseOutlivesCall
PROPERTIES TerminalStays Settled
