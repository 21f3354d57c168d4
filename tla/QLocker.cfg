SPECIFICATION FairSpec
CONSTANTS
    Proc = {p1, p2}
    NoProc = NoProc
    MaxReq = 2
    MaxFault = 2
INVARIANTS MutualExclusion HolderHasLock AnsweredInOrder NoLostWakeup
PROPERTIES EveryRequestAnswered
CHECK_DEADLOCK FALSE
