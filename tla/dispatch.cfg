SPECIFICATION Spec
CONSTANTS
    Handlers = {h1, h2}
    First = h1
    Methods = {"a"}
    Unknown = "unknown"
    MaxSetup = 3
    MaxMsgs = 2
    MaxNexts = 1
    MaxWrites = 1
INVARIANTS
     ChainRunsOnce AnswersOwnRequest
PROPERTIES
    AbortIsFinal
CHECK_DEADLOCK FALSE
