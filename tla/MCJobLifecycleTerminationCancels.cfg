SPECIFICATION Spec
CONSTANTS
    Jobs = {j1, j2}
    NoJob = NoJob
    Rooms = {ra, rb}
    MaxJobs = 1
    MaxDisconnects = 0
SYMMETRY Symmetry
INVARIANT TerminationCancels
CHECK_DEADLOCK FALSE
