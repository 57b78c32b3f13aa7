CONSTANTS
    Threads = {t1, t2, t3}
    Conns = {c1, c2, c3, c4}
    NoConn = none
    minConnections = 1
    maxConnections = 2
    MaxWaits = 2
    MaxFaults = 3
    MaxLeaks = 2
SPECIFICATION FairSpec
INVARIANTS
    PoolSafe
PROPERTIES
    PoolRecovers
CHECK_DEADLOCK FALSE
