SPECIFICATION FiguresSpec
CONSTANTS
    LastTicket = 2
    FigStatuses = {"OPEN", "RESOLVED", "CLOSED"}
    BatchOfExport = 1
    MaxFigTime = 3
    MaxFigMoves = 1
INVARIANT MetricsCountResolved
CHECK_DEADLOCK FALSE
