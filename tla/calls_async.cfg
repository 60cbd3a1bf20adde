SPECIFICATION Spec
CONSTANTS
    Modes = {"queue"}
    Roles = {"client", "server"}
    QueueSize = 1
    Kinds = {"async"}
    MaxSeq = 2
    MaxConns = 1
    MaxReplies = 1
INVARIANT
    HandlerCalledOnce
PROPERTY
    KeepsPromise
