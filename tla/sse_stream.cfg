\* Streams of at most three pieces of content.
SPECIFICATION Spec
CONSTANTS
    Indices <- MCIndices
    Fragments <- MCFragments
    Task <- MCTask
    ToolCall <- MCToolCall
    Absent = Absent
    MaxChunks = 3
\* A stream ends.
CHECK_DEADLOCK FALSE
INVARIANTS
    TaskInputIsOneDocument
    BuilderAgrees
    NeverEmpty
PROPERTIES
    WellFormed
