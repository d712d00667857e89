\* The debounced saves of the session store, with failing writes and crashes.
SPECIFICATION FairStoreSpec
CONSTANTS
    Tree = {r}
    Node = {n}
    Id = {i1, i2}
    Cap = 1
    Timer = {t1, t2}
    Main = main
    None = None
    MaxCalls = 3
INVARIANTS
    LogMatchesIds
    DirtyIsScheduled
    RestIsSaved
PROPERTIES
    QuietStoreIsSaved
