SPECIFICATION MutationSpec
CONSTANTS
    Requests = {r1, r2}
    Contents = {a, b}
    Absent = Absent
    Policies <- AllPolicies
    IOFails = TRUE
    MaxEdits = 1
    MaxCrashes = 2
    Bytes = {0, 1}
    MaxFile = 6
    MaxLines = 4
    Gap = 1
    PatchOverhead = 0
    RangesOverhead = 0
    RangeOverhead = 0
INVARIANTS TreeMatchesJournal VersionsNameMutations AnswersStand  
 
CHECK_DEADLOCK FALSE
