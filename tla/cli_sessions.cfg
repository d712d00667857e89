\* Two runs, each cancelled at most once by name, and one call of stop_all.
SPECIFICATION FairSpec
CONSTANTS
    Run = {r1, r2}
    Stopper = Stopper
    Nobody = Nobody
    MaxCancels = 1
    MaxStops = 1
\* Every run is over.
CHECK_DEADLOCK FALSE
INVARIANTS
    SlotFreed
    StoppedWithItsRun
    NoStalePid
PROPERTIES
    CancelledRunEnds
    StopAllReturns
