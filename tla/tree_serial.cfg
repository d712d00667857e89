SPECIFICATION Spec
CONSTANTS
    m1 = m1
    m2 = m2
    m3 = m3
    NoNode = NoNode
    Node <- MCNode
    Root <- m1
    Commands <- NodeCommands
CHECK_DEADLOCK FALSE
SYMMETRY MCSymmetry
INVARIANTS
    TypeOK
    OneAtATime
    Fifo
    StoppedForGood
PROPERTIES
    SerialSpec
