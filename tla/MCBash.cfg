\* Two agents, as many timeouts as calls, every kind of command, whole and unfinished lines.
CONSTANTS
    a1 = a1
    a2 = a2
    Agent = {a1, a2}
    MaxCommands = 3
    MaxTimeouts = 3
    SnipInstalled = TRUE
    Kinds = {"plain", "partial", "reads", "exits"}
    Codes = {0}
SPECIFICATION BashFairSpec
INVARIANTS
    AnswersBelong
PROPERTY
    Returned
\* The agents may have made all the calls the bound allows.
CHECK_DEADLOCK FALSE
