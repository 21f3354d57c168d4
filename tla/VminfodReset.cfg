SPECIFICATION FairSpec
CONSTANTS
    Desc = {d1, d2}
    Workers = 1
    Dedup = TRUE
    IdleDelay = TRUE
    Timeouts = {"pause", "forward"}
    MaxTasks = 4
INVARIANT ResetUndisturbed
PROPERTIES OnlyPauseTimeoutThrows EveryEventHandled RefreshRecurs
CHECK_DEADLOCK FALSE
