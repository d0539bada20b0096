SPECIFICATION FairSpec
CONSTANTS
    LeaseIds = {l1, l2}
    Durations = {1, 3}
    MaxExtend = 2
    MaxDelay = 2
    MaxWall = 4
    MaxSteps = 1
    Delays = {0}
INVARIANTS
    EnforcedOnce
PROPERTIES
    KeepsContract
    DurationsEnd
