SPECIFICATION Spec
CONSTANTS
    Genesis = Genesis
    Absent = Absent
    NoProcess = NoProcess
    Processes = {p1}
    Entries = {e1, e2}
    FaultKinds = {"reply"}
    MaxFaults = 1
INVARIANTS
    ChainVerifies
CHECK_DEADLOCK FALSE
