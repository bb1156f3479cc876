\* One child, and an agent that polls and signals it.
CONSTANTS
    p1 = p1
    Proc = {p1}
    MaxOutput = 3
SPECIFICATION FairSpec
INVARIANTS
    PollsAreConsistent
PROPERTY
    OutputDelivered
\* The children have ended and the context is gone.
CHECK_DEADLOCK FALSE
