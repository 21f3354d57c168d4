SPECIFICATION FairSpec
CONSTANTS
    Val <- MCVal
    Nil = Nil
    Empty = Empty
    Cmd = {"GET", "KEYS", "PUT", "DELETE"}
    MaxCall = 2
    Setting <- MCAll
    MaxLate = 1
    MaxFault = 1
    MaxSet = 1
PROPERTIES ImplementsService EveryCallReturns
CHECK_DEADLOCK FALSE
