CONSTANTS
    Symbol <- MCSymbol
    Files <- FreeFormFiles
SPECIFICATION Spec
CHECK_DEADLOCK FALSE
INVARIANT CodeStands
