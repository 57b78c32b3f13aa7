SPECIFICATION FairSpec
CONSTANTS
    IoThreads = {io1, io2}
    Ipc = ipc
    NoThread = none
    ClientKinds = {"reliable"}
    Timers = {}
    MaxIn = 1
    MaxPush = 0
    MaxAdapt = 0
PROPERTIES
    ReliableAcknowledged
CHECK_DEADLOCK FALSE
