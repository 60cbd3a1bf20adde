SPECIFICATION FairSpec
CONSTANTS
    Stoppers = {s1}
    Restarters = {r1}
    HasDialer = TRUE
    MaxReconnectTimes = 1
    MaxGen = 3
    MaxConns = 4
    NoProc = NoProc
INVARIANTS
    TypeOK
    OneGeneration
    RunningIsServed
    
PROPERTIES
    BreakIsResolved
    RestartWaitsOnlyForRecv
