SPECIFICATION FairSpec
CONSTANTS
    Systems = {"statuses", "load", "writes", "network", "race", "recovery", "graph", "monitor",
               "limiter", "deadlines", "rate", "manager", "handler", "protocol", "calculation",
               "shutdown", "resumption"}
    Updates = {u1, u2}
    MaxRetries = 3
    TokenLimit = 1
    MaxConnections = 2
    MaxLoads = 4
    MessageTypes = {text, binary}
    Resolvers = {r1}
    MaxWrites = 3
    MaxDNSRetries = 2
    GuardedJobs = {j1}
    Guards = {g1, g2}
    MaxRequests = 1
    RecoverableJobs = {j1}
    Attempts = {a1, a2}
    MaxSaves = 2
    MemoryLimit = 1
    MaxMemory = 2
    GoroutineLimit = 2
    MaxGoroutines = 3
    LeakThreshold = 2
    Nodes = {n1, n2, n3}
    MaxDependencies = 4
    GuardedCalls = {e1}
    MaxGuardRetries = 3
    CPUs = 4
    Quota = 200
    Usages = {100, 220, 300, 400}
    CheckInterval = 2
    Restorers = {b1, b2}
    MaxViolations = 2
    LimitedCalls = {c1}
    TimedJobs = {d1}
    Skews <- MCSkews
    MaxSkewSamples = 2
    SkewThreshold = 1
    Deadlines = {3}
    Window = 2
    RateLimit = 1
    MaxClock = 5
    MaxTimedEvents = 3
    TimingGuards = {t1}
    NoDeadline = NoDeadline
    HookNames = {"h1", "h2", "h3"}
    HookPriority <- MCPriority
    Executors = {x1}
    NoHook = NoHook
    ProtocolCallers = {p1, p2}
    UnknownTypes = {m1}
    Versions <- MCVersions
    MinVersion <- MCMinVersion
    MaxVersion <- MCMaxVersion
    MaxUnknown = 1
    Segments = {"agent", "api"}
    MaxPath = 2
    LoadReporters = {s1, s2}
    Calculators = {"default", "cpu-memory", "predictive"}
    LoadMaxJobs = 2
    MostJobs = 3
    CPUSamples = {130}
    MemorySamples = {3}
    Total = 4
    WindowSize = 3
    MaxCalculations = 4
    Stoppers = {s1, s2}
    RunningJobs = {j1, j2}
    OptionSets <- MCOptionSets
    NoStopper = NoStopper
    Fragments = 2
    MaxFragmented = 3
    BufferLimit = 3
    CheckpointKeys = {k1, k2}
    CheckpointValues = {1}
    CheckpointReaders = {a1}
    NoValue = NoValue
INVARIANT ReportingOK
INVARIANT EachUpdateOnce
INVARIANT GivenUpAfterRetries
INVARIANT QueueAnnounced
INVARIANT LatestPending
INVARIANT FinalStatusHanded
INVARIANT WrittenOnceInOrder
INVARIANT TerminatedOnce
INVARIANT NotForgottenEarly
INVARIANT CyclesNoticed
PROPERTY UpdateSettles
CHECK_DEADLOCK FALSE
