SPECIFICATION FairSpec
CONSTANTS
    NULL = NULL
    GROW_COUNT = 2
    Setting <- MCSetting
    Passwd <- MCPasswd
    Group <- MCGroup
    Number <- MCNumber
    MaxBoot = 2
    MaxTime = 3
    MaxReset = 2
INVARIANTS DescriptorsAsCounted RoutesComplete CommandAsConfigured MarkerGone
PROPERTIES ProvisionedWhenReady EveryBootEnds
CHECK_DEADLOCK FALSE
