SPECIFICATION AdministrationSpec
CONSTANTS
    Processes = {p1, p2}
    Requests = {q1, q2}
    Default = "on"
    UseRedis = TRUE
    TTL = 1
    OpTicks = 1
    MaxChanges = 2
    FaultKinds = {"redis", "statement", "crash"}
    MaxFaults = 1
    Notices = {"n1", "n2"}
    Users = {"u1", "u2"}
    NoUser = "nobody"
    Readers = {q1, q2}
    SyncCallers = {"c1", "c2", "c3"}
    QueueOf <- QueueOfCaller
    MaxLetters = 1
    MaxCloses = 1
    Monitors = {q1, q2}
    MaxMonitorFaults = 1
    MaxTicketMoves = 1
    Submissions = {q1, q2}
    MaxCsatMoves = 1
    MaxCsatFaults = 1
    PriorityRequests = {q1, q2}
    MaxPriorityFaults = 1
    Uploads = {"u1"}
    Deletions = {q1, q2}
    Comments = {"c1"}
    MaxThreadFaults = 2
    RoutedTickets = {"t1", "t2"}
    AgentIds = {"a1", "a2"}
    SeniorIds = {"s1"}
    OmbudsmanIds = {"o1"}
    NoAgent = "nobody"
    Routings = {r1}
    MaxRoutingMoves = 1
    MaxRoutingFaults = 1
    Policies = {"p1", "p2"}
    PolicyNames = {"n1", "n2"}
    PolicyRequests = {q1, q2}
    MaxPolicyFaults = 1
    Articles = {"a1", "a2", "a3"}
    ArticleRequests = {q1, q2}
    SlugBases <- Bases
    Roles = {"x1"}
    Catalog = {"k1", "k2"}
    KeyLists <- Lists
    RoleRequests = {q1, q2}
    MaxRoleFaults = 1
    SessionRequests = {q1, q2}
    FirstToken = first
    MaxFailedLogins = 2
    LockTicks = 1
    TokenTicks = 2
    MaxSessionTime = 3
    MaxSessionFaults = 1
    KeyRequests = {q1, q2}
    MaxKeyTime = 3
    MaxKeyFaults = 1
    LastTicket = 2
    FigStatuses = {"OPEN", "RESOLVED", "CLOSED"}
    BatchOfExport = 1
    MaxFigTime = 3
    MaxFigMoves = 1
SYMMETRY Symmetry
INVARIANTS
    AdministrationTypeOK
    StaleBounded
    EveryChangeAudited
    ReadOnce
    QueueTellsJobs
    BreachToldOnce
    TicketCareAccounted
    ThreadAccounted
    RoutedFairly
    RecordsConsistent
    RolesKept
    SessionsKept
    FiguresExplained
CHECK_DEADLOCK FALSE
