CONSTANTS
    w1 = w1
    w2 = w2
    w3 = w3
    Host = host
    NoThread = NoThread
    Workers <- MCThreeWorkers
    Controllers <- MCHosts
    NumCores = 2
    Requests <- AnyCore
    RunMayFail = TRUE
    InitMayFail = TRUE
    TrustFailedAdd = FALSE
    MaxCoreUse = 2
SPECIFICATION FairSpec
INVARIANTS
    PoolTypeOK
    IdleMeansIdle
    ThreadsAreOwned
    CoreInfoIsExact
PROPERTIES
    AssertionHolds
    KeepsBarrierContract
    RunsInRounds
    EveryWakeupRuns
    CallsReturn
