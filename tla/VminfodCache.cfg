SPECIFICATION FairCacheSpec
CONSTANTS
    Zone = {z1}
    Lossy = TRUE
    MayFail = TRUE
    MaxChange = 3
    Desc <- MCDesc
    Workers = 1
    Dedup = TRUE
    IdleDelay = TRUE
    Timeouts = {"pause", "forward"}
    MaxTasks = 1
INVARIANTS JsonFresh ListenerInSync ObjectsFromData
PROPERTIES ConsistentUnlessMissed
CHECK_DEADLOCK FALSE
