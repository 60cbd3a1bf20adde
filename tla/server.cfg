SPECIFICATION FairSpec
CONSTANTS
    Conns = {c1, c2}
    MaxLoad = 1
INVARIANTS
    LoadCounts
    
PROPERTIES
    StopStopsConns
    
CHECK_DEADLOCK FALSE
