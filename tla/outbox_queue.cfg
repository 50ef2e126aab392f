SPECIFICATION Spec
CONSTANTS
    NoEvent = NoEvent
    Events = {e1, e2}
    Procs = {p1, p2}
    QueueEnabled = TRUE
    MaxAttempts = 2
    BatchSize = 1
    JobAttempts = 2
    KeepCompleted = 2
    MaxRelayJobs = 1
    FaultKinds = {"batch", "claim", "read", "mark", "catch", "reply", "redis", "crash"}
    MaxFaults = 3
SYMMETRY Symmetry
INVARIANTS
    ExclusiveClaim
    PublicationsAccounted
    PendingIsRelayable
    OneRunnerPerJob
    BlockedEventsExplained
