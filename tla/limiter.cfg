\* The outgoing chat traffic: compaction, retries, floods and the shutdown.
SPECIFICATION FairSpec
CONSTANTS
    status = status
    edit1 = edit1
    edit2 = edit2
    other = other
    k1 = k1
    k2 = k2
    Job <- MCJob
    Key <- MCKey
    KeyOf <- MCKeyOf
    Awaited <- MCAwaited
    MaxRetries = 1
    MaxTries = 2
    None = None
\* Every call is over and the worker waits, or was shut down.
CHECK_DEADLOCK FALSE
INVARIANTS
    CallerHeldOnce
    RestShowsLatest
PROPERTIES
    EveryCallEnds
