SPECIFICATION ConnectionSpec
CONSTANTS
    Conns = {"c1", "c2"}
    Streams <- ThreeStreams
    Credentials = {"k1", "k2", "k3"}
    Holder <- Holders
    Configs <- RotatedConfigs
    FirstConfig <- OldConfig
    MaxConns = 2
    MaxOwnConns = 1
    MaxRequests = 2
    MaxOwnRequests = 1
    FailureLimit = 1
    MaxEdits = 1
    MaxArrivals = 2
    FrameStreams = {"s1", "s2", "s3"}
    StreamConn <- TwoConns
    FrameKinds <- SomeFrames
    ReplyKinds <- SomeReplies
    FrameMemory = 3
    ResponseMemory = 3
    ByteBudget = 3
    MaxFrames = 2
    Callers = {"c1", "c2"}
    Daemons = {"d1", "d2"}
    Tokens = 2
    LinkIds = {"l1", "l2"}
    TableLimit = 1
    HintTTL = 1
    ConnectTries = 0
    Heights = {1, 2}
    RingCapacity = 1
    DeltaFullInterval = 1
    Budgets <- ShellBudgets
    Adapters = {"a1", "a2"}
    MaxDials = 3
    PoolLimit = 1
    ClientLimit = 2
    CacheEntries = 1
    Queries = {"q"}
    Files = {"f", "g"}
    MaxRetries = 1
    AgentBudgets <- TaskBudgets
    Opens = {"o1", "o2"}
    Asker <- TwoAskers
    Owners = {"p", "legacy"}
    MaxSessions = 2
    MaxOwnSessions = 2
    MaxIds = 3
    MaxMishaps = 3
    AuditQueue = 2
    AuditMax = 2
    MaxEntries = 6
    MaxAuditFaults = 2
INVARIANTS RunsAsLeased DrainWaits SlotsExact OneMode MemoryCharged FramesAgree  ScreenSound AnswersTrue  OpenExact RestoreKeeps ReadyMeansAudited
CHECK_DEADLOCK FALSE
