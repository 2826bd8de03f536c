SPECIFICATION DataSpec
CONSTANTS
    c1 = c1
    c2 = c2
    Clients = {c1, c2}
    KindsOf <- SomeKinds
    MaxChanges = 1
    MaxQueries = 2
    Size = 2
    Versions = {1, 2}
    SyncBytes = 2
    InFlight = 2
    UploadAttempts = 1
    DownloadAttempts = 1
    MaxReqs = 2
    MaxFaults = 2
    MaxEdits = 2
    Sessions = {"s1", "s2"}
    Artifacts = {"a", "b"}
    PutIds = {"r1", "r2", "r3"}
    SessionOf <- TwoAndOne
    Plans <- SameOrOther
    AgentPuts = {"r2"}
    Readers = {"s1"}
    Chunks = 1
    Quota = 1
    SlotMax = 2
    MaxMishaps = 1
INVARIANTS TokenNamesTree TransferExact ArtifactsIntact
PROPERTY Fresh
CHECK_DEADLOCK FALSE
