\* An impatient user: three messages, /new, a session, two errors, a ring of two.
CONSTANTS
    MaxMessages = 3
    MaxChats = 4
    OldChats = 1
    CommandsCap = 1
    MailboxCap = 2
    RingCap = 2
    MaxNews = 1
    MaxLoads = 1
    MaxErrors = 2
SPECIFICATION FairSpec
INVARIANTS
    TypeOK
    DeliveredOnceInOrder
    IndicatorSettles
    StaysInConversation
PROPERTY
    Answered
