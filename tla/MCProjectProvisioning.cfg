SPECIFICATION ProvFairSpec
CONSTANTS
    d1 = d1
    d2 = d2
    p1 = p1
    fleet = fleet
    drive = drive
    Pods = {d1, d2}
    Projects = {p1}
    Targets = {fleet, drive}
    Fleet = fleet
    Reclaim = {drive}
    Worlds <- ThreeWorlds
CHECK_DEADLOCK FALSE
INVARIANTS ContainersSound
PROPERTIES SweepSparesRunning Settles
