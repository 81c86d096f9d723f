CONSTANTS
    w1 = w1
    w2 = w2
    w3 = w3
    Host = host
    NoThread = NoThread
    Workers <- MCTwoWorkers
    Controllers <- MCHosts
    NumCores = 2
    Requests <- AutoOnly
    RunMayFail = FALSE
    InitMayFail = TRUE
    TrustFailedAdd = TRUE
    MaxCoreUse = 2
SPECIFICATION Spec
PROPERTIES
    AssertionHolds
