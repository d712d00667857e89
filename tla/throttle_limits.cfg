\* The shared limiter of the providers: window, concurrency and block.
SPECIFICATION Spec
CONSTANTS
    Limit = 2
    Window = 2
    MaxTime = 5
    Request = {r1, r2, r3}
    MaxConcurrency = 2
    MaxRetries = 1
    Delays = {1, 2}
    Cooldown = 3
SYMMETRY Symmetry
\* Requests end and the clock stops.
CHECK_DEADLOCK FALSE
INVARIANTS
    WindowBound
    SlotsInUse
PROPERTIES
    SeenBlockRespected
