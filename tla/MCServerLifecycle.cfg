SPECIFICATION MasterSpec
CONSTANTS
    Count = 3
    MaxSignals = 2
    Children = {"w1"}
    MaxLogLines = 2
    maxFileSize_ = 1
    FileCounts = {1, 2}
    Servers = {"s1", "s2"}
    Configured <- TheConfigured
    LowerCase <- TheLowerCase
    Built = {"SQLITE", "POSTGRESQL"}
    Tables = {"players", "npcs"}
    Migrations = {2, 10}
    NamedAlike <- TheNamedAlike
    Workers = {"w1", "w2"}
    MaxCalls = 4
    SqlLines = {"none", "k1", "k2", "x", "y"}
    MaxSqlLines = 4
    Keys = {"k1", "k2"}
INVARIANTS
    LifecycleInv
    LogInv
    DatabaseInv
PROPERTIES
    SignalStops
    ImplementsSupervisor
CHECK_DEADLOCK FALSE
