SPECIFICATION PatchSpec
CONSTANTS
    Bytes = {0, 1}
    MaxFile = 6
    MaxLines = 9
    Gap = 0
    PatchOverhead = 0
    RangesOverhead = 0
    RangeOverhead = 0
INVARIANT PatchReconstructs
CHECK_DEADLOCK FALSE
