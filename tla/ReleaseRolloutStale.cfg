SPECIFICATION FairSpec
CONSTANTS
    Releases = {"a", "c"}
    Broken = {}
    First = "a"
    MaxEvents = 1
PROPERTIES
    ScenesFollowRelease
CHECK_DEADLOCK FALSE
