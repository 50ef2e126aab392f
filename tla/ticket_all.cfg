SPECIFICATION Spec
CONSTANTS
    NoAgent = NoAgent
    NoTicket = NoTicket
    Tickets = {t1}
    Agents = {a1, a2}
    Workers = {w1, w2}
    Operations = {"status", "assign", "escalate", "auto-assign", "route", "rule-assign", "rule-close"}
    MaxStarts = 4
    FaultKinds = {"crash", "statement"}
    MaxFaults = 1
INVARIANTS
    InProgressHasAssignee
PROPERTIES
    IllegalOnlyWhenStale
CHECK_DEADLOCK FALSE
