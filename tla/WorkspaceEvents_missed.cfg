CONSTANTS
    Sessions = {s1, s2}
    Window = 2
    QueueMax = 1
    Large <- LargeState
    MaxWrites = 3
    MaxOther = 0
    MaxFaults = 0
SPECIFICATION Spec
CHECK_DEADLOCK FALSE
INVARIANTS NewStateNewVersion
