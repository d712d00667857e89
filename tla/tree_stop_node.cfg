SPECIFICATION FairSpec
CONSTANTS
    m1 = m1
    m2 = m2
    m3 = m3
    NoNode = NoNode
    Node <- MCNode
    Root <- m1
    Commands <- NodeStop
CHECK_DEADLOCK FALSE
PROPERTIES
    EverySubmissionEnds
