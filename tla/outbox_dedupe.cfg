SPECIFICATION Spec
CONSTANTS
    NoEvent = NoEvent
    Events = {e1}
    Procs = {p1, p2}
    QueueEnabled = TRUE
    MaxAttempts = 2
    BatchSize = 1
    JobAttempts = 2
    KeepCompleted = 2
    MaxRelayJobs = 1
    FaultKinds = {"mark"}
    MaxFaults = 1
PROPERTY RelayedIsQueued
