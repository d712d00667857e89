\* Runs of at most five events.
SPECIFICATION Spec
CONSTANTS
    Index = {i0}
    NoIndex = NoIndex
    TaskId <- MCTaskId
    ToolId <- MCToolId
    MaxEvents = 5
    Limit = 7
    TailMax = 2
    MarkerSize = 2
    StatusSize = 1
    MinTail = 1
\* A run ends.
CHECK_DEADLOCK FALSE
INVARIANTS
    InOrder
    HidesSubagents
    NoDepthDrift
    FinalIsShown
    ShowsTheNewest
