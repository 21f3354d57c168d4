SPECIFICATION FairCacheSpec
CONSTANTS
    Zone = {z1}
    Lossy = TRUE
    MayFail = FALSE
    MaxChange = 3
    Desc <- MCDesc
    Workers = 1
    Dedup = TRUE
    IdleDelay = TRUE
    Timeouts = {"forward"}
    MaxTasks = 0
PROPERTIES EventuallyConsistent
CHECK_DEADLOCK FALSE
