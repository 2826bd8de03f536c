CONSTANTS
    Requests = {r1}
    MaxRunning = 1
    IdleRounds = 2
    DrainRounds = 3
    MaxStarts = 2
    MaxWrites = 1
    MaxFails = 1
    MaxCrashes = 1
    MaxHistory = 3
SPECIFICATION FairSpec
CHECK_DEADLOCK FALSE
INVARIANTS NoUnjournaledRun AnswersHold OutputExact SlotsMatch
PROPERTIES ExitRecorded
