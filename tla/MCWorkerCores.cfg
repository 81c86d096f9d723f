CONSTANTS
    NumCpus = 4
    MaxWorkers = 2
SPECIFICATION Spec
INVARIANTS
    TypeOK
    OnlyIsolated
    CoresFillInOrder
