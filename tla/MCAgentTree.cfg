\* Three tasks over three chats, the first of them from an earlier process.
CONSTANTS
    MaxTasks = 3
    MaxChats = 3
    OldChats = 1
    MaxFaults = 0
SPECIFICATION FairSpec
INVARIANTS
    TypeOK
    ContextOutlivesAgents
    AgentsKeepTheirOwn
PROPERTY
    TreesAreReleased
\* A root whose turn awaits a subagent that nobody shuts down stays there.
CHECK_DEADLOCK FALSE
