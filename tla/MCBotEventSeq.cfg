SPECIFICATION SeqFairSpec
CONSTANTS
    p1 = p1  p2 = p2  w1 = w1  w2 = w2
    Procs = {p1, p2}
    Workers = {w1, w2}
    Placements <- ApartOrTogether
    GenSeqStep = 2
    MaxAttempts = 3
    MaxEpoch = 2
    MaxAllocs = 2
    MaxMishaps = 3
    Endless = TRUE
INVARIANTS CounterSound
PROPERTIES IdsIncrease OneSource AllocationsEnd
CHECK_DEADLOCK FALSE
