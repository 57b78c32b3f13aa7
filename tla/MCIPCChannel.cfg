SPECIFICATION FairSpec
CONSTANTS
    Callers = {t1, t2}
    Msgs = {m1, m2, big}
    Oversized = {big}
    Garbage = garbage
    Pieces = 2
    Room = 1
    MaxSent = 4
INVARIANTS
    ChannelInv
PROPERTIES
    EventuallyRead
    ImplementsOrderedChannel
CHECK_DEADLOCK FALSE
