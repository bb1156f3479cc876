\* A command that times out leaves output for the next call to find.
CONSTANTS
    a1 = a1
    a2 = a2
    Agent = {a1}
    MaxCommands = 3
    MaxTimeouts = 2
    SnipInstalled = FALSE
    Kinds = {"plain", "silent"}
    Codes = {0, 1}
SPECIFICATION BashSpec
INVARIANT
    PathIsOfWhich
\* The agents may have made all the calls the bound allows.
CHECK_DEADLOCK FALSE
