\* One chat, started twice because the last-used pointer was not stored.
CONSTANTS
    MaxTasks = 2
    MaxChats = 1
    OldChats = 1
    MaxFaults = 1
SPECIFICATION Spec
INVARIANT
    ContextOutlivesAgents
CHECK_DEADLOCK FALSE
