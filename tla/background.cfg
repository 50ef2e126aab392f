SPECIFICATION BackgroundSpec
CONSTANTS
    Genesis = Genesis
    Absent = Absent
    NoProcess = NoProcess
    Processes = {p1, p2}
    Entries = {e1, e2, e3}
    FaultKinds = {"statement", "reply", "crash"}
    MaxFaults = 2
    JobAttempts = 2
    Endpoints = {h1, h2}
    HookJobs = {j1}
    HookTests = {t1}
    MaxCallers = 1
    MaxHookChanges = 1
    HookFaultKinds = {"statement", "answer", "listener", "crash"}
    MaxHookFaults = 2
    RuleContents <- Contents
    RuleCount = 2
    Assignees <- Agents
    NoAssignee = NoAssignee
    TeamOf <- Teams
    MaxAutoChanges = 1
    AutoFaultKinds = {"statement", "listener", "crash"}
    MaxAutoFaults = 1
    Publications = {pub1}
    FanFaultKinds = {"call", "smtp", "listener", "crash"}
    MaxFanFaults = 3
INVARIANTS
    BackgroundTypeOK
    IInv
    ForksHaveACause
    BrokenMeansFork
    AcceptedIsTold
    CompletedReachedAll
    AutomationAccounted
    EngineComputes
    OneFaultOneHandler
    LossesExplained
PROPERTIES
    EveryRecordSettles
    EveryJobEnds
CHECK_DEADLOCK FALSE
