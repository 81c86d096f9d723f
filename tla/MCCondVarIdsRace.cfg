CONSTANTS
    maker = maker
    maker2 = maker2
    breaker = breaker
    breaker2 = breaker2
    Creators <- TwoMakers
    Destroyers <- NoBreaker
    MaxCondVars = 3
    GivesBackIds = TRUE
    CtorMayFail = FALSE
SPECIFICATION Spec
INVARIANTS
    PortIsFree
