SPECIFICATION Spec
CONSTANTS
    Jobs = {j1, j2}
    NoJob = NoJob
    Rooms = {ra, rb}
    MaxJobs = 1
    MaxDisconnects = 1
SYMMETRY Symmetry
INVARIANT TypeOK
INVARIANT NothingOutlivesItsJob
INVARIANT RoomOfActiveJobKnown
INVARIANT RemovedJobIsCancelled
INVARIANT EndedJobReported
CHECK_DEADLOCK FALSE
