CONSTANTS
    maker = maker
    maker2 = maker2
    breaker = breaker
    breaker2 = breaker2
    Creators <- OneMaker
    Destroyers <- OneMaker
    MaxCondVars = 3
    GivesBackIds = FALSE
    CtorMayFail = FALSE
SPECIFICATION Spec
PROPERTIES
    MaximumIsReached
