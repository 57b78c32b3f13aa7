CONSTANTS
    Users = {ann, bob}
    Passwords = {p1, p2}
    NoUser = nobody
    MaxId = 2
    MaxProgress = 1
    MaxRestarts = 1
    MaxFailures = 1
SPECIFICATION FairSpec
INVARIANTS
    LoginsSound
    NamesAgree
    RowBehindMemory
PROPERTIES
    ProgressSaved
CHECK_DEADLOCK FALSE
