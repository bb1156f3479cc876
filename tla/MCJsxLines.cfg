CONSTANTS
    Symbol <- MCSymbol
    Files <- JsxFiles
SPECIFICATION Spec
CHECK_DEADLOCK FALSE
INVARIANT LinesKept
