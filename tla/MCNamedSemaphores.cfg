CONSTANTS
    p1 = p1
    p2 = p2
    m1 = m1
    m2 = m2
    m3 = m3
    Procs <- MCProcs
    Makers <- MCMakers
    ProcOf <- MCProcOf
    MaxRetries = 3
    MaxSecond = 1
    MaxCrashes = 2
    MaxSems = 4
SPECIFICATION Spec
SYMMETRY Twins
INVARIANTS
    TypeOK
    FreshStart
    CondVarOwnsItsName
    NothingLeftBehind
    GivesUpOnlyWhenCrowded
