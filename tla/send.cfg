SPECIFICATION SendSpec
CONSTANTS
    Stoppers = {}
    Restarters = {r1}
    HasDialer = TRUE
    MaxReconnectTimes = 1
    MaxGen = 2
    MaxConns = 3
    NoProc = NoProc
    MaxMsgs = 2
    Waits = {"zero", "timer", "forever"}
    QueueSize = 1
    MaxLoops = 2
INVARIANTS
    OneOwner WrittenInOrder
PROPERTY EveryMessageEnds
CHECK_DEADLOCK FALSE
