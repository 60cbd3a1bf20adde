SPECIFICATION FairSpec
CONSTANTS
    Modes = {"queue"}
    Roles = {"client"}
    QueueSize = 1
    Kinds = {"call"}
    MaxSeq = 2
    MaxConns = 2
    MaxReplies = 1
PROPERTIES
    LostCallReturns
CHECK_DEADLOCK FALSE
