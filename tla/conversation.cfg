SPECIFICATION ConversationSpec
CONSTANTS
    m1 = m1
    m2 = m2
    m3 = m3
    NoNode = NoNode
    Node <- MCNode
    Root <- m1
    Commands <- MCCommands
    Voices <- MCVoices
    Globals <- MCGlobals
    MaxCommands = 2
    MaxRestarts = 1
VIEW MCView
CHECK_DEADLOCK FALSE
INVARIANTS
    RestartAgrees
    MappingAgrees
    ClearedStaysCleared
    NoRunOutlivesTree
    NoGhost
    CancelledVoiceNeverRuns
