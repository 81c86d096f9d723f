CONSTANTS
    Kinds = {"xenomai"}
    QueueSize = 3
    Retries = 10
    WakeupTicks = 4
SPECIFICATION Spec
PROPERTIES
    TrueIfNotified
