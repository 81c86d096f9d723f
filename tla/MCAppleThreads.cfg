CONSTANTS
    t1 = t1
    t2 = t2
    Threads <- MCThreads
    NumDevices = 2
SPECIFICATION FairSpec
CHECK_DEADLOCK FALSE
INVARIANTS
    TypeOK
    StatusIsRight
    LeftBeforeExit
PROPERTIES
    AddWorkerReturns
