SPECIFICATION FairSpec
CONSTANTS
    Goros = {g1}
    Ops = {"Send", "SendAndClose", "CloseSend"}
    QueueSize = 1
    MaxBody = 3
    MaxFaultyBody = 1
    MaxStreams = 2
    MaxBreaks = 1
INVARIANTS
    InOrder
    
    PanicNeedsCloseRecv
    

    
CHECK_DEADLOCK FALSE
