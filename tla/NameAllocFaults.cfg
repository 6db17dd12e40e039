SPECIFICATION Spec
CONSTANTS
    n1 = n1
    n2 = n2
    d1 = d1
    d2 = d2
    pa = pa
    Net = {n1}
    Dev = {d1}
    NetOf <- OneDev
    Prefix = {pa}
    PrefixOf <- SamePrefix
    Shifted <- NoShift
    NoPrefix = NoPrefix
    RandomId = {1, 2}
    Block = 2
    CollisionWait = 1
    LockWait = 2
    ReprobeWait = 3
    HintHold = 2
    MaxDelay = 1
    Reliable = FALSE
    DistinctIds = TRUE
    CanLeave = FALSE
    CanReinit = TRUE
    MaxOrd = 4
    MaxQueued = 2
PROPERTY NameKept
