SPECIFICATION Spec
CONSTANTS
    Systems = {"queue", "pool"}
    QueuedJobs = {j1, j2}
    Priorities = {0, 1, 2, 3}
    Hints <- MCHints
    JobTypes = {"JT_ROOM", "JT_PARTICIPANT"}
    Consumers = {k1, k2, k3}
    QueueSize = 2
    MaxEnqueues = 4
    Resources = {r1, r2, r3, r4}
    NoResource = NoResource
    Users = {u1, u2}
    Creators = {g1, g2}
    MinSize = 1
    MaxSize = 2
SYMMETRY Symmetry
INVARIANT CollectionsOK
INVARIANT NotAllAsleep
INVARIANT OneOwner
INVARIANT CountersAgree
INVARIANT ClosedPoolLeaksNothing
CHECK_DEADLOCK FALSE
