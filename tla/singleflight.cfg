SPECIFICATION FairSpec
CONSTANTS
    Callers = {p1, p2, p3}
    Keys = {kb, ka}
    AsyncKeys = {ka}
    Objs = {o1, o2}
    None = None
INVARIANTS
    RefsCountHolders
    OwnRound
    OneRequestPerKey
    SubFiresOnce
    ListedHasLeader
PROPERTY
    CallersReturn
