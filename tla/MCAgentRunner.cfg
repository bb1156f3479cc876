\* A root agent: two messages, rounds of up to two calls, a crash, a failed save.
SPECIFICATION Spec
CONSTANTS
    Subagent = FALSE
    MailboxCap = 2
    MaxMessages = 2
    MaxRounds = 1
    MaxCalls = 2
    MaxCrashes = 1
    MaxFaults = 1
INVARIANTS
    TypeOK
    InOrderOnce
    TurnGrammar
    ResultsCoverTheCalls
    ObservedIsDurable
    BusFollowsTranscript
    ContextAlternates
    ReloadShowsTheSame
PROPERTY
    SnapshotsOnlyGrow
CHECK_DEADLOCK FALSE
