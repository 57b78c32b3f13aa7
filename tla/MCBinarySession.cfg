SPECIFICATION Spec
CONSTANTS
    IoThreads = {io1, io2}
    Ipc = ipc
    NoThread = none
    ClientKinds = {"reliable", "ping", "bad", "huge"}
    Timers = {"deadline", "heartbeat"}
    MaxIn = 1
    MaxPush = 1
    MaxAdapt = 2
SYMMETRY IoThreadSymmetry
CONSTRAINT OneConcern
INVARIANTS
    SessionInv
CHECK_DEADLOCK FALSE
