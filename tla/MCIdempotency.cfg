SPECIFICATION FairSpec
CONSTANTS
    Processes = {"p1", "p2"}
    Keys = {"k1", "k2"}
    Payloads = {"a", "b"}
    Calls = {"c1", "c2", "c3", "c4"}
    KeyOf <- MCKeyOf
    PayloadOf <- MCPayloadOf
    ProcessOf <- MCProcessOf
    SlowOperations = {"c2"}
    EarlierCalls = {"c4"}
    MaxEntries = 1
    NoCall = NoCall
    NoPayload = NoPayload
INVARIANTS
    KeyIsSerialized
    OperationsRunAlone
    CapacityIsKept
PROPERTIES
    KeysAreCells
    EveryCallEnds
CHECK_DEADLOCK FALSE
