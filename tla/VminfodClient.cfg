SPECIFICATION FairSpec
CONSTANTS
    Zone = {z1, z2}
    Target = z1
    MaxChange = 3
    MaxFault = 1
INVARIANTS MirrorExact NoMissedEvent OkMeansSeen
PROPERTIES OperationEnds MirrorCatchesUp
CHECK_DEADLOCK FALSE
