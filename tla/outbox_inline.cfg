SPECIFICATION Spec
CONSTANTS
    NoEvent = NoEvent
    Events = {e1, e2}
    Procs = {p1, p2}
    QueueEnabled = FALSE
    MaxAttempts = 2
    BatchSize = 2
    JobAttempts = 2
    KeepCompleted = 2
    MaxRelayJobs = 1
    FaultKinds = {"batch", "claim", "read", "mark", "catch", "redis", "crash"}
    MaxFaults = 3
PROPERTIES
    SettledIsFinal
    ImplementsDelivery
CHECK_DEADLOCK FALSE
