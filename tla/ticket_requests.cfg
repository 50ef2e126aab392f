SPECIFICATION FairSpec
CONSTANTS
    NoAgent = NoAgent
    NoTicket = NoTicket
    Tickets = {t1, t2}
    Agents = {a1}
    Workers = {w1, w2}
    Operations = {"status", "assign"}
    MaxStarts = 3
    FaultKinds = {"crash"}
    MaxFaults = 1
INVARIANTS
    HistoryTellsTicket
    ClosedIsAnnounced
PROPERTIES
    OperationsEnd
CHECK_DEADLOCK FALSE
