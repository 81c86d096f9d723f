CONSTANTS
    maker = maker
    maker2 = maker2
    breaker = breaker
    breaker2 = breaker2
    Creators <- OneMaker
    Destroyers <- TwoBreakers
    MaxCondVars = 3
    GivesBackIds = TRUE
    CtorMayFail = TRUE
SPECIFICATION Spec
INVARIANTS
    TypeOK
    IdHasOneOwner
    NoIdIsLost
