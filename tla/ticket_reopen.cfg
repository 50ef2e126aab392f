SPECIFICATION Spec
CONSTANTS
    NoAgent = NoAgent
    NoTicket = NoTicket
    Tickets = {t1}
    Agents = {a1}
    Workers = {w1, w2}
    Operations = {"status", "escalate"}
    MaxStarts = 5
    FaultKinds = {"crash"}
    MaxFaults = 0
PROPERTIES
    ClosedIsFinal
CHECK_DEADLOCK FALSE
