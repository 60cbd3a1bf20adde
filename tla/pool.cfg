SPECIFICATION Spec
CONSTANTS
    Procs = {p1, p2}
    Size = 3
    RoundMod = 16
    MaxNexts = 4
    MaxFlips = 2
INVARIANTS
    NoClientLeft
    SkipsUnusable
    RoundRobin
CHECK_DEADLOCK FALSE
