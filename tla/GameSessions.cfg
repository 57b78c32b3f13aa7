SPECIFICATION FairSpec
CONSTANTS
    Workers = {w1, w2}
    Players = {p1, p2}
    NoPlayer = none
    Everyone = all
    MaxSessions = 1
    Kinds = {"auth", "move", "chat", "leave"}
    MaxSends = 3
INVARIANTS
    CoreAgreesWithManager
    MutualVisibility
    Delivered
PROPERTIES
    LoginAnswered
CHECK_DEADLOCK FALSE
