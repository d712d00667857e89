\* Every text of a bounded length, cut in every way.
SPECIFICATION Spec
CONSTANTS
    Char <- MCChar
    OpenTag <- MCOpenTag
    CloseTag <- MCCloseTag
    MaxPiece = 3
    MaxText = 7
\* A stream ends.
CHECK_DEADLOCK FALSE
INVARIANTS
    CutsDoNotMatter
