\* /new while the old chat's agent is still answering.
CONSTANTS
    MaxMessages = 2
    MaxChats = 3
    OldChats = 1
    CommandsCap = 1
    MailboxCap = 1
    RingCap = 8
    MaxNews = 1
    MaxLoads = 0
    MaxErrors = 0
SPECIFICATION Spec
INVARIANT
    NewStartsFresh
