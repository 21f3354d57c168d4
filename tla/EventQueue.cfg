SPECIFICATION MCSpec
CONSTANTS
    Desc = {d1, d2}
    Workers = 2
    Dedup = TRUE
    IdleDelay = TRUE
    Timeouts = {"pause", "forward"}
    MaxTasks = 6
INVARIANTS NoLostWork InOrder PauseQuiesces NoAssertionFailure HeaderPromises
