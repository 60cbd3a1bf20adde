SPECIFICATION Spec
CONSTANTS
    Modes = {"batch", "writev", "sync"}
    Roles = {"client"}
    QueueSize = 1
    Kinds = {"call"}
    MaxSeq = 2
    MaxConns = 2
    MaxReplies = 1
INVARIANTS
    NoPanic
    NoSessionLeak
PROPERTY
    KeepsPromise
