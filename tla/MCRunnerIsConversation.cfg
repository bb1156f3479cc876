\* A root agent and the runtime that schedules it.
SPECIFICATION FairSpec
CONSTANTS
    Subagent = FALSE
    MailboxCap = 2
    MaxMessages = 2
    MaxRounds = 1
    MaxCalls = 1
    MaxCrashes = 1
    MaxFaults = 1
PROPERTIES
    ImplementsConversation
    KeepsConversing
    TurnsEnd
CHECK_DEADLOCK FALSE
