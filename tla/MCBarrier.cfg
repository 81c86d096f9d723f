CONSTANTS
    w1 = w1
    w2 = w2
    w3 = w3
    host = host
    Workers <- MCThreeWorkers
    Controllers <- MCHost
SPECIFICATION FairBarrierSpec
INVARIANTS
    BarrierTypeOK
    TokensMatchThreads
    NoLostWakeup
PROPERTIES
    NoThreadRunsTwice
    ReturnMeansHalted
    ReleasedThreadsLeave
