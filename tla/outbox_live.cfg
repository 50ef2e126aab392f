SPECIFICATION FairSpec
CONSTANTS
    NoEvent = NoEvent
    Events = {e1, e2}
    Procs = {p1, p2}
    QueueEnabled = TRUE
    MaxAttempts = 2
    BatchSize = 1
    JobAttempts = 3
    KeepCompleted = 1
    MaxRelayJobs = 1
    FaultKinds = {"batch", "claim", "mark"}
    MaxFaults = 2
INVARIANTS
    NoOrphanClaim
    FailedIsDeadLettered
PROPERTIES
    EveryEventSettles
