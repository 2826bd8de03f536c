SPECIFICATION StreamsSpec
CONSTANTS
    MaxEvents = 3
    JournalWindow = 1
    ReplayEvents = 1
    Capacity = 1
    StreamFrames = 2
    MaxBreaks = 1
    MaxRuns = 2
    Output = {1, 3}
    Hidden = {2}
    Requested = {1}
    Streams = {"out", "err"}
    MaxBytes = 2
    TailMax = 1
    ChannelMax = 2
    KeepEvents = 3
    MaxAttempts = 2
    MaxCuts = 2
  
PROPERTIES CatchesUp
CHECK_DEADLOCK FALSE
