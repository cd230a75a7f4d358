SPECIFICATION Spec
CONSTANTS
    f = f  u1 = u1  u2 = u2  c1 = c1  r1 = r1  r2 = r2  r3 = r3
    Users = {f, u1, u2}
    Founder = f
    Codes = {c1}
    Reqs = {r1, r2, r3}
    DoorSets <- ThreeSets
    MaxUsers = 2
    MaxUses = 2
SYMMETRY Symmetry
INVARIANTS SeatsSound
PROPERTIES ApprovalsHold
CHECK_DEADLOCK FALSE
