CONSTANTS
    Consumers = {c1}
    None = None
    SegmentMax = 2
    LogMax = 3
    CompactMin = 3
    Window = 1
    ReplayMax = 2
    MaxStamp = 4
    MaxFiles = 4
    Faults <- RotFaults
SPECIFICATION Spec
CHECK_DEADLOCK FALSE
INVARIANTS FailsClosed
