CONSTANTS
    Sessions = {s1, s2}
    Window = 2
    QueueMax = 1
    Large <- LargeState
    MaxWrites = 3
    MaxOther = 1
    MaxFaults = 1
SPECIFICATION Spec
CHECK_DEADLOCK FALSE
INVARIANTS   VersionsOrdered
PROPERTIES Drains
