SPECIFICATION Spec
CONSTANTS
    SmallSize = 7
    BigSize = 9
    Spare = {1}
    MaxBuffers = 5
    Metas <- MCMetas
    Method <- MCMethod
    Values = {"nil", "bytes", "text"}
    CoderCounts = {0, 2}
    SendBufferSize = 12
    MaxBodyLen = 4
    MaxSends = 3
INVARIANTS
     ReceivedAsSent RetainedIntact
CHECK_DEADLOCK FALSE
