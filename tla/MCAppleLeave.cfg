CONSTANTS
    t1 = t1
    t2 = t2
    Threads <- MCThreads
    NumDevices = 2
SPECIFICATION Spec
CHECK_DEADLOCK FALSE
PROPERTIES
    LeavesWhatItJoined
