SPECIFICATION ConnectionsSpec
CONSTANTS
    SocketThreads = {t1, t2}
    PushThread = ipc
    MaxMessages = 1
    MaxFragments = 2
    MaxPings = 1
    MaxPushes = 1
    MaxPieces = 2
    IoThreads = {io1}
    Ipc = ipc
    NoThread = none
    ClientKinds = {"ping"}
    Timers = {"heartbeat"}
    MaxIn = 1
    MaxPush = 1
    MaxAdapt = 0
    PerSecond = 2
    Rates = {1, 3}
    Bursts = {1, 2}
    MaxTime = 4
    max_samples = 2
    History = 1
    MaxPackets = 2
    Latencies = {20, 120, 600}
    Peers = {"c1", "c2"}
INVARIANTS
    ConnectionInv
    TrafficInv
PROPERTIES
    DisconnectNoticed
    MessagesHandled
    SilentClientDropped
CHECK_DEADLOCK FALSE
