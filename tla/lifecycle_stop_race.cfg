SPECIFICATION Spec
CONSTANTS
    Stoppers = {s1}
    Restarters = {}
    HasDialer = TRUE
    MaxReconnectTimes = 1
    MaxGen = 1
    MaxConns = 3
    NoProc = NoProc
PROPERTIES
    NoReconnectAfterStop
