CONSTANTS
    Kinds = {"std", "posix", "xenomai", "evl"}
    QueueSize = 3
    Retries = 10
    WakeupTicks = 4
SPECIFICATION FairSpec
INVARIANTS
    TypeOK
    FreedAfterWaiter
PROPERTIES
    KeepsPromise
    NothingIsSwallowed
    NotifyEndsWait
    DestructionUnblocks
