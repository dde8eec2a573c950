SPECIFICATION FairSpec
CONSTANTS
    Events = {e1, e2}
    Requests = {r1}
    Worker = worker
    NoEvent = NoEvent
    Capacity = 1
    Interval = 2
    MinLabelled = 2
INVARIANTS
    WorkerHasConnection
    OnTimeCloseDrains
PROPERTIES
    AcceptedIsStored
    StatusCatchesUp
CHECK_DEADLOCK FALSE
