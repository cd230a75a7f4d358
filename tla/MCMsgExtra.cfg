SPECIFICATION FairSpec
CONSTANTS
    r1 = r1  r2 = r2  c1 = c1  p1 = p1
    chA = chA  m1 = m1  m2 = m2  s1 = s1
    Replicas = {r1, r2}
    Writers = {c1, p1}
    Cards = {c1}
    Placements <- Anywhere
    Channels = {chA}
    Messages = {m1, m2}
    ChannelOf <- OneChannel
    Batches <- CardAndPair
    Syncs = {s1}
    Guards = {"unset", "transactional"}
    HiLoStep = 1
    MaxReserveCount = 2
    MaxSafe = 4
    MaxLegacy = 2
INVARIANTS LocksSound
PROPERTIES VersionsFresh NothingSkipped CallsEnd
