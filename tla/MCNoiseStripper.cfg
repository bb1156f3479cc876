CONSTANTS
    Symbol <- MCSymbol
    Files <- MCFiles
SPECIFICATION Spec
CHECK_DEADLOCK FALSE
INVARIANTS
    ShapeKept
    OnlyCommentsAreBlanked
