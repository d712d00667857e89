\* Texts of at most three parts, and of four without a loose call, cut in every way.
SPECIFICATION Spec
CONSTANTS
    Document <- MCDocument
    MaxTag = 6
\* A stream ends.
CHECK_DEADLOCK FALSE
INVARIANTS
    CallsSurviveCuts
    ProseSurvivesCuts
