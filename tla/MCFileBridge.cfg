SPECIFICATION FairSpec
CONSTANTS
    Files = {"f1", "f2", "f3"}
    NameOf <- MCNameOf
    EventOf <- MCEventOf
    Renamed = {"f1", "f2"}
    Events <- MCEvents
    Refused <- MCRefused
    BatchLimit = 1
    MaxCrashes = 1
    NoFile = NoFile
    NoEvent = NoEvent
    NoRow = NoRow
    NoPlace = NoPlace
INVARIANTS
    NoFileIsLost
    EdgeDecidesOnce
PROPERTIES
    ImplementsEventDelivery
    EveryEventEnds
