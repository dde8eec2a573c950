SPECIFICATION FairSpec
CONSTANTS
    Releases = {"a", "b", "c"}
    Broken = {"b"}
    First = "a"
    MaxEvents = 3
INVARIANTS
    TypeOK
    ReceiptIsTrue
PROPERTIES
    ImplementsCertifiedRelease
    FailbackUndoesItsCandidate
    Converges
    WatcherCatchesUp
CHECK_DEADLOCK FALSE
