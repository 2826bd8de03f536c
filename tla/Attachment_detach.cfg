SPECIFICATION AttachFairSpec
CONSTANTS
    Streams = {"out"}
    MaxBytes = 2
    TailMax = 1
    ChannelMax = 2
    KeepEvents = 3
    MaxAttempts = 1
    MaxCuts = 0
PROPERTY DetachedResumes
CHECK_DEADLOCK FALSE
