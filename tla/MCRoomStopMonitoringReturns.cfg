SPECIFICATION Spec
CONSTANTS
    Systems = {"quality"}
    Tracks = {t1}
    Monitors = {m1, m2}
    NoMonitor = NoMonitor
    Loops = {l1}
    Policies <- MCPolicies
    Callers = {c1}
    MaxEvents = 1
    QueueLimit = 1
    BatchSize = 2
    MaxZeros = 1
    ThrottledPeople = {i1}
    MaxPerMinute = 2
    Minute = 3
    MaxThrottleTime = 8
    HandledTypes = {"joined", "left"}
    TypeHandlers = {"h1", "h2"}
    Processors = {"processEvents", "caller"}
    EventHistorySize = 1
    MaxProcessed = 2
    Identities = {i1, i2}
    GroupIds = {g1, g2}
    GroupLimits = {0, 1}
    MaxActivities = 2
    ActivityTypes = {"speaking", "data_received"}
    RuleThresholds = {1, 2}
    MaxDelivering = 2
    MaxInteractions = 2
    TrackedRooms = {r1, r2}
    People = {p1, p2}
    Targets = {p1}
    NoTarget = NoTarget
    Publications = {s1}
    Subscribers = {u1}
    MaxCallbacks = 3
    VideoQualities = {1, 2}
    High = 2
    NoRoomKnown = NoRoomKnown
    Members = {n1}
    Grants <- MCGrants
    CapabilitySets <- MCCaps
    Hours = {3, 12}
    AllowedFrom = 9
    AllowedTo = 17
    HistoryLimit = 2
    MaxChanges = 3
    MaxPolicies = 1
    NoPermission = NoPermission
    Updaters = {u1, u2}
    Qualities = {0, 1, 3}
    HistorySize = 2
    Durations = {1, 2}
    MaxQualityTime = 2
    MaxReports = 3
    Offered = {"mic", "file"}
    OfferedKind <- MCOfferedKind
    Sources = {"camera", "unknown"}
    FirstPriorities <- MCFirstPriorities
    GivenPriorities = {0, 2}
    Filters <- MCFilters
    MaxFilters = 2
    EventTypes = {"quality", "track"}
    QualityType = "quality"
    EventHandlers = {"h1", "h2"}
    HandlerType <- MCHandlerType
    Newsmen = {n1, n2}
    Attendees = {i1}
    EventCapacity = 2
    MaxQueued = 3
    Fleet = {"w1", "w2"}
    FleetLoads = {1, 2, 3}
    FleetJobs = {0, 1}
    FleetMax <- MCFleetMax
    FleetTimeout = 1
    AboveMaximum = 3
    Waiters = {a1}
    Timeout = 1
    NoWorker = NoWorker
    RoomJobs = {"j1", "j2"}
    RoomNames = {"n1", "n2"}
    Askers = {"a1"}
    NoRoom = NoRoom
INVARIANT StopMonitoringReturns
CHECK_DEADLOCK FALSE
