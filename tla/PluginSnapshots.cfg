SPECIFICATION FairSpec
CONSTANTS
    Requests = {r1, r2, r3}
    Reloaders = {watcher, endpoint}
    Closer = closer
    MaxSnapshots = 4
PROPERTIES
    ImplementsSnapshotPool
    ReplacedIsClosed
CHECK_DEADLOCK FALSE
