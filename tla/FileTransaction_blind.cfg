CONSTANTS
    Requests = {r1, r2}
    Contents = {a, b, c}
    Absent = Absent
    Policies <- BlindOnly
    IOFails = TRUE
    MaxEdits = 0
    MaxCrashes = 0
SPECIFICATION Spec
CHECK_DEADLOCK FALSE
INVARIANTS BlindMatchesJournal
