SPECIFICATION FairSpec
CONSTANTS
    f1 = f1
    f2 = f2
    File = {f1, f2}
    Tries = 1
    Setting <- MCSetting
    MaxWatch = 2
INVARIANTS HandleArmed NoException UpToDateWhenQuiet
PROPERTIES EventuallyWatched
CHECK_DEADLOCK FALSE
